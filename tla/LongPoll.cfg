SPECIFICATION FairSpec
CONSTANTS
    c1 = c1
    c2 = c2
    w1 = w1
    w2 = w2
    Client = {c1, c2}
    Worker = {w1, w2}
    MaxRev = 3
    MaxCalls = 1
    PeriodicWrites = TRUE
INVARIANTS EventsHeldBack NoLeakyNotification NobodyIsStuck
PROPERTY StaleClientsWake
