\* One session and two callers that interleave between their locks, with shared
\* and distinct keys, both kinds of runtime, an intent across restarts with
\* other catalogs, and a clock that is set back while no start is being
\* authorized.
CONSTANTS
    Sessions = {s1}
    Plans = {p1, p2}
    RefinementPlans = {p2}
    PlanExpiry <- MCPlanExpiry
    AuthIds = {a1}
    LinuxExecs = {e1}
    ManagedExecs = {m1}
    Procs = {q1}
    CallerKeys <- MCCompetingKeys
    IntentIds = {i1}
    Bodies = {b1}
    Catalogs <- MCCatalogs
    Threads = {t1, t2}
    MaxRecords = 6
    MaxTime = 2
    MaxAuthTTL = 1
    MaxIntentTTL = 1
    MaxSkew = 0
    ClockStepsBack = TRUE
    None = None
SYMMETRY Permuted
SPECIFICATION MCSpec
INVARIANTS
    EveryRecordRecoverable
    IndexesMatchFile
    ExitedHasDurableReceipt
    SettledIntentsStaySettled
PROPERTIES
    ImplementsLifecycle
CHECK_DEADLOCK FALSE
