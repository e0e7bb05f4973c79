\* Three renders, two loads and two outlines at once, two outages.
SPECIFICATION AppSpec
CONSTANTS
    MaxRenders = 2
    MaxFailures = 1
    MaxPageLoads = 2
    MaxFetches = 2
    MaxOutages = 2
    MaxToasts = 1
INVARIANTS ConnectedPageIsCurrent OpenOutlineFollows OutageHasADeadline
PROPERTIES SpeaksOfItsOutage
CHECK_DEADLOCK FALSE
