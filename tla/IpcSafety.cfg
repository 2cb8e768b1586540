SPECIFICATION Spec
CONSTANTS
    c1 = c1
    c2 = c2
    Client = {c1, c2}
    MaxCalls = 2
    MaxPart = 2
    Faults = {"callback", "fatal", "deadline", "spurious", "break", "finish"}
SYMMETRY ClientSymmetry
INVARIANTS LockDiscipline Lockstep
PROPERTY CallsAreAtomic
CHECK_DEADLOCK FALSE
