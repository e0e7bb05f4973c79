\* Two calls across one crash of the extension process, with a clock that only goes on.
SPECIFICATION FairSpec
CONSTANTS
    None = None
    Calls = {c1, c2}
    Holders = {"word"}
    MaxSnapshots = 1
    RemovalFails = FALSE
    ClockGoesBack = FALSE
    Stamps = {1, 2}
    MaxVersions = 2
    MaxCrashes = 1
PROPERTIES ImplementsHistory EveryCallSettles
CHECK_DEADLOCK FALSE
