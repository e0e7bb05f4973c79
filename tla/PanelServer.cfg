\* Two requests beside one run of the vendoring script and two renders.
SPECIFICATION Spec
CONSTANTS
    None = None
    Torn = Torn
    Failed = Failed
    Infinity = Infinity
    Requests = {r1, r2}
    k1 = k1
    k2 = k2
    Renders = {k1, k2}
    SizeOf <- SomeSizes
    Versions = {1, 2}
    Parts <- TwoParts
    Numbers = {0, 2}
    MaxVendorings = 1
    MaxOpenings = 2
SYMMETRY RequestSymmetry
INVARIANTS WorkerIsWhole FailureIsNotRemembered RangesAreExact
CHECK_DEADLOCK FALSE
