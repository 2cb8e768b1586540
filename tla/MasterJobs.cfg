SPECIFICATION FairSpec
CONSTANTS
    i1 = i1
    p1 = p1
    p2 = p2
    NoPid = NoPid
    NoJob = NoJob
    Id = {i1}
    Pid = {p1, p2}
    MaxStarts = 2
INVARIANTS DumpIsCurrent NoOrphans TerminatedIsOver NameLeadsHome
PROPERTIES KeepsRegistry DeadAreFound
CHECK_DEADLOCK FALSE
