\* Two hosts, one after or beside the other, two Words, ours and of others, on
\* three pids; New-Object may hand out any Word that runs.
SPECIFICATION Spec
CONSTANTS
    Hosts = {1, 2}
    Pids = {p1, p2, p3}
    None = None
    User = User
    MaxStarts = 2
SYMMETRY PidSymmetry
INVARIANTS OwnWordsStayTraced
PROPERTY HostsSpareOthers
CHECK_DEADLOCK FALSE
