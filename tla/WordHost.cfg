\* Two calls and dispose(), children that end by themselves once.
SPECIFICATION FairSpec
CONSTANTS
    Requests = {r1, r2}
    Starter = Starter
    Disposer = Disposer
    Kinds = {"open", "read", "write", "close"}
    MaxChildren = 6
    MaxDeaths = 1
INVARIANTS PidIsNotRecycled OneChildUntilATimeout
PROPERTIES DisposeIsFinal EveryCallSettles
CHECK_DEADLOCK FALSE
