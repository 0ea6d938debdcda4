\* Two sessions and one place in the index; one failing write and one crash or
\* shutdown, both of them only where a single session is started.
CONSTANTS
    Sessions = {s1, s2}
    Solo = s1
    MaxSessions = 1
    ClientKeys = {c1}
    OwnKey = own
    MaxFaults = 1
    MaxCrashes = 1
    None = None
SPECIFICATION MCFairSpec
INVARIANTS
    GuestsAreAccountedFor
    EndsAreTrue
PROPERTIES
    NoUnaskedStop
    NothingHangs
