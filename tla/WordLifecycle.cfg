\* Three calls of any kind on one canvas id, and shutdown().
SPECIFICATION FairSpec
CONSTANTS
    Requests = {1, 2, 3}
    Ids = {w1}
    None = None
    Kinds = {"open", "refresh", "action", "tool", "close", "shutdown"}
    MaxCaches = 2
INVARIANTS WordOutlivesItsUse WordHasAnOwner ShutdownWaitsForWord
PROPERTY IdleWordGoesAway
CHECK_DEADLOCK FALSE
