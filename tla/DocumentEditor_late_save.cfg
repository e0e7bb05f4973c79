\* A killed host saves after the editor has found the document unchanged.
SPECIFICATION Spec
CONSTANTS
    None = None
    Calls = {c1}
    Holders = {}
    MaxSnapshots = 1
    RemovalFails = FALSE
    ClockGoesBack = FALSE
    Stamps = {1}
    MaxVersions = 1
    MaxCrashes = 0
INVARIANT UnchangedMeansUnwritten
CHECK_DEADLOCK FALSE
