SPECIFICATION FairSpec
CONSTANTS
    p1 = p1
    s1 = s1
    s2 = s2
    v1 = v1
    v2 = v2
    Poll = {p1}
    Snap = {s1, s2}
    View = {v1, v2}
    x1 = x1
    x2 = x2
    x3 = x3
    SizeOf <- MCSizeOf
    Want <- MCWant
    InitialValue = x1
    Value = {x1, x2, x3}
    MaxThreads = 2
    MaxChanges = 1
    MaxMoves = 1
    MaxGone = 1
INVARIANTS ImageIsOfItsView WidgetFollowsModel
PROPERTY RequestsAreServed
CHECK_DEADLOCK FALSE
