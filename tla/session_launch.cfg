\* Exposures: two creations, two revocations, a restart with another policy, a
\* replaced entry, a failing append and cut-back.  Filesystem: one session, every plan, one
\* guest write, two failing calls, two deaths.  Every launch, with two faults
\* and one replacement.  The pump with room for one short frame and a half.
SPECIFICATION MCFairSpec
CONSTANTS
    Creations <- MCCreations
    RevokeIds = {"r1", "c2"}
    Asked <- MCAsked
    Policies <- MCPolicies
    Tree <- MCTree
    Identities = {"i0", "i1", "i2"}
    Second = 1
    MaxExposures = 2
    MaxRecords = 4
    MaxBytes = 7
    Size <- MCSize
    MinRetained = 2
    MaxTime = 3
    MaxAppendFaults = 2
    MaxDeaths = 1
    MaxChanges = 1
    None = None
    Sessions = {s1}
    Aliases <- MCAliases
    Scratch = "scratch"
    Plans <- MCPlans
    DiskLimit = 8
    PageBytes = 2
    MinPersistent = 4
    MaxWrites = 1
    MaxCallFaults = 2
    MaxCrashes = 2
    Jobs <- MCJobs
    MaxFd = 20
    MaxFaults = 2
    MaxReplace = 1
    Outputs <- MCOutputs
    max_frame_bytes = 1
    max_queued_bytes = 2
    ChunkBytes = 2
    PipeBytes = 2
    OutputLimit = 2
    MaxErrBytes = 1
    PumpFaults = 1
INVARIANTS
    ExposuresAreKept
    RetainedContentSurvives
    NothingIsLeftOver
    LaunchIsSafe
    PumpIsFaithful
PROPERTIES
    ResolvedIsGranted
    PartsSettle
\* A journal that cannot be read, or a launch that is over, stops its part.
CHECK_DEADLOCK FALSE
