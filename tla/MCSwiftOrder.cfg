CONSTANTS
    a = a
    b = b
    nil = nil
    Nil = nil
    Commands = {a, b}
    Reads <- WritesOnly
    NewLeaders = {}
    MaxBallot = 0
    N = 3
SPECIFICATION Spec
INVARIANT SameOrder
SYMMETRY Symmetry
CHECK_DEADLOCK FALSE
