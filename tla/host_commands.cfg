\* Two policy commands, two harness versions, two revisions; setup with one
\* adoption or cleanup, one edit by hand and one crash or failing write; a run
\* with two requests, one unasked frame per server and one mishap; a journal
\* of seven bytes with five events, one failing call and two opens.
SPECIFICATION MCSpec
CONSTANTS
    Commands = {c1, c2}
    Versions = {v1, v2}
    Options <- MCOptions
    PlanShapes <- MCPlanShapes
    MaxRevision = 2
    MaxTtl = 1
    MaxTime = 1
    MaxRuns = 2
    MaxUpgrades = 1
    MaxFaults = 1
    MaxCommands = 2
    MaxEdits = 1
    SetupFaults = 2
    CommandLines <- MCCommandLines
    MaxUnasked = 1
    MaxMishaps = 1
    MaxFileBytes = 7
    EncodedSizes = {2, 3, 8}
    OldJournals <- MCOldJournals
    MaxEvents = 5
    MaxIoFaults = 1
    MaxOpens = 2
    None = None
    Absent = Absent
INVARIANTS
    HostIsSound
PROPERTIES
    RevisionsAdvance
    UndoIsExact
    CommandsSettle
\* Commands that are done stop.
CHECK_DEADLOCK FALSE
