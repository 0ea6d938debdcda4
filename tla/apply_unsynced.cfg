\* One grant; the daemon dies before it has synced the exchange or its record.
CONSTANTS
    Grants = {1}
    Manifests = {"m1"}
    ManifestOf <- MCManifestOf
    Unchanged = {}
    Original = original
    MaxRecords = 2
    MaxFaults = 0
    MaxCrashes = 1
    MaxEdits = 0
    PowerMayFail = TRUE
    Junk = Junk
    None = None
SPECIFICATION MCSpec
INVARIANTS
    RemovedAfterDurable
\* A journal that cannot be opened, or whose grants are used up, stops.
CHECK_DEADLOCK FALSE
