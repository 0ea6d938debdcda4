\* The wall clock may be set back while the daemon runs.
CONSTANTS
    Sessions = {s1}
    Plans = {p1}
    RefinementPlans = {}
    PlanExpiry <- MCPlanExpiry
    AuthIds = {a1}
    LinuxExecs = {e1}
    ManagedExecs = {}
    Procs = {q1}
    CallerKeys <- MCCallerKeys
    IntentIds = {}
    Bodies = {}
    Catalogs <- MCCatalogs
    Threads = {t1}
    MaxRecords = 6
    MaxTime = 3
    MaxAuthTTL = 2
    MaxIntentTTL = 1
    MaxSkew = 0
    ClockStepsBack = TRUE
    None = None
SPECIFICATION Spec
INVARIANTS EveryRecordRecoverable
CHECK_DEADLOCK FALSE
