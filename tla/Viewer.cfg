\* Two callers beside the watcher's own refresh, two documents, one retry; two events:
\* writes, repeated directory events, failed stats that are recorded.
SPECIFICATION Spec
CONSTANTS
    None = None
    AutoRefresh = AutoRefresh
    Callers = {c1, c2}
    Paths = {a, b}
    MaxEvents = 2
    MaxPolls = 2
    MaxRetries = 1
SYMMETRY CallerSymmetry
INVARIANTS OverlayOnItsEdit SeenWasHandled
PROPERTY NoEcho
CHECK_DEADLOCK FALSE
