\* Two calls, every interleaving with the host, other programs and one crash; the clock
\* may be set back between two snapshots.
SPECIFICATION Spec
CONSTANTS
    None = None
    Calls = {c1, c2}
    Holders = {"word", "exclusive"}
    MaxSnapshots = 1
    RemovalFails = TRUE
    ClockGoesBack = TRUE
    Stamps = {1, 2}
    MaxVersions = 3
    MaxCrashes = 1
SYMMETRY CallSymmetry
INVARIANT RollbackIsOwn
INVARIANT UndoNeverDiscarded
INVARIANT ReportsAreTrue
CHECK_DEADLOCK FALSE
