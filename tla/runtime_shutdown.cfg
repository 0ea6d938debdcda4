\* One session, no failed write, one orderly shutdown.
CONSTANTS
    Sessions = {s1}
    Solo = s1
    MaxSessions = 1
    ClientKeys = {c1}
    OwnKey = own
    MaxFaults = 0
    MaxCrashes = 1
    None = None
SPECIFICATION MCSpec
INVARIANTS
    ProducerOutlivesFinalizers
