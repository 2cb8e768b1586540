SPECIFICATION FairSpec
CONSTANTS
    RingSize = 2
    Samples = 4
    MaxEnvironments = 2
    Slot = {1, 2}
    Depth = {1, 2}
    Size = {1, 2}
    InitialSize = 1
    InitialMode <- MCInitialMode
    PngOnRelease = TRUE
    MaxEdits = 1
    MaxChanges = 1
    MaxFailures = 1
INVARIANTS ImageIsCurrent ProxiesAreWhole RendersIntoLive
CHECK_DEADLOCK FALSE
PROPERTY ProxiesKeepComing
