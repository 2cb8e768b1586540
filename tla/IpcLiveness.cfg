SPECIFICATION FairSpec
CONSTANTS
    c1 = c1
    c2 = c2
    Client = {c1, c2}
    MaxCalls = 1
    MaxPart = 1
    Faults = {"callback", "fatal", "deadline", "break", "finish", "spurious"}
PROPERTIES ServerRecovers BreakStops CallsReturn
CHECK_DEADLOCK FALSE
