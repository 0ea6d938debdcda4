\* The supervisor's death against the child's first step; nothing else fails.
SPECIFICATION MCSpec
CONSTANTS
    Creations <- MCCreations
    RevokeIds = {"r1", "c2"}
    Asked <- MCAsked
    Policies <- MCPolicies
    Tree <- MCTree
    Identities = {"i0", "i1", "i2"}
    Second = 1
    MaxExposures = 2
    MaxRecords = 4
    MaxBytes = 7
    Size <- MCSize
    MinRetained = 2
    MaxTime = 1
    MaxAppendFaults = 0
    MaxDeaths = 0
    MaxChanges = 0
    None = None
    Sessions = {s1}
    Aliases <- MCAliases
    Scratch = "scratch"
    Plans <- MCPlans
    DiskLimit = 8
    PageBytes = 2
    MinPersistent = 4
    MaxWrites = 0
    MaxCallFaults = 0
    MaxCrashes = 0
    Jobs <- MCJobs
    MaxFd = 20
    MaxFaults = 0
    MaxReplace = 0
    Outputs <- MCOutputs
    max_frame_bytes = 1
    max_queued_bytes = 2
    ChunkBytes = 2
    PipeBytes = 2
    OutputLimit = 2
    MaxErrBytes = 0
    PumpFaults = 0
INVARIANT
    NoOrphanAgent
\* A launch that is over stops.
CHECK_DEADLOCK FALSE
