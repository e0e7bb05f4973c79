\* Three calls of every kind, two versions of the file, one death of Word.
SPECIFICATION FairSpec
CONSTANTS
    None = None
    Calls = {c1, c2, c3}
    Kinds = {"open", "pdf", "edit", "outline", "search", "close"}
    MaxVersions = 1
    MaxReplays = 1
INVARIANTS NeverOlder AnswerIsFresh CloserIsLast OutlineIsOneDocument
PROPERTY EveryCallSettles
CHECK_DEADLOCK FALSE
