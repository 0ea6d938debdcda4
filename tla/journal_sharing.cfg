\* Three executions compete for room for two and a half records; Sage keeps
\* paging and acknowledging; the daemon may die and find the file replaced.
CONSTANTS
    Execs = {e1, e2, e3}
    Refinements = {e2}
    MaxRecord = 2
    MaxSize = 5
    MaxPage = 1
    AckKeys = {k1}
    MaxAcks = 1
    MaxCrashes = 1
    FileMayBeLost = TRUE
    None = None
SPECIFICATION MCSpec
INVARIANTS
    ReservedRoomIsKept
    JournalIsSound
    ClosedReceiptsStay
    SageHistoryIsExtended
PROPERTIES
    SageCatchesUp
\* A file left without a header stops every daemon; so does the end of the work.
CHECK_DEADLOCK FALSE
