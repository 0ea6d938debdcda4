\* Two grants that meet failures, an edit and a crash, or three that meet two
\* crashes or losses of power.  A journal with room for two reservations and
\* their ends.
CONSTANTS
    Grants = {1, 2, 3, 4}
    Manifests = {"m1", "m2", "m3"}
    ManifestOf <- MCManifestOf
    Unchanged = {"m3"}
    Original = original
    MaxRecords = 4
    MaxFaults = 1
    MaxCrashes = 2
    MaxEdits = 1
    PowerMayFail = TRUE
    Junk = Junk
    None = None
SPECIFICATION MCFairSpec
INVARIANTS
    LedgerIsTrue
    SingleUse
    TreesSurviveCrashes
    OutcomeIsTrue
PROPERTIES
    EditsSurvive
    ReservationsResolve
\* A journal that cannot be opened, or whose grants are used up, stops.
CHECK_DEADLOCK FALSE
