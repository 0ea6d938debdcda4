\* Managed: a ring of two bytes, four bytes of output of which three are
\* allowed.  Remote: one session in two epochs, four frames, one fault, a
\* clock of two.
SPECIFICATION MCFairSpec
CONSTANTS
    Stoppers = {"caller"}
    OutputLimit = 3
    RingBytes = 2
    ReadChunk = 2
    Writes = {2}
    Hits = {"memory"}
    MaxBytes = 4
    MaxFaults = 1
    Sids = {"s"}
    Epochs = {1, 2}
    Requests <- MCRequests
    MaxSessions = 1
    MaxReplays = 4
    MaxTtl = 1
    OutputCap = 0
    MaxTime = 2
    MaxSent = 4
    MaxWrites = 1
    MaxDockerFaults = 1
INVARIANTS
    ReportsAreTrue
    StopsAreEffective
    RemainsAreOwned
    AnswersAreTrue
PROPERTY
    SessionsEnd
\* A session or a client that is done stops.
CHECK_DEADLOCK FALSE
