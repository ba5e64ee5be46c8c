\* The genesis every node boots from pins a Self scope.
SPECIFICATION Spec
CONSTANTS
    None = None
    Sections = {"accounts", "self_scope", "csca_governance", "vouch_at"}
    Seeded = {"accounts", "self_scope", "csca_governance"}
    Touched = {"accounts"}
    Networked = TRUE
    MaxHeight = 2
    MaxCrashes = 2
    MaxFailures = 1
    MaxCorrupt = 1
INVARIANTS RunningStateIsItsTip CleanStopPersists LiveFileWhole
