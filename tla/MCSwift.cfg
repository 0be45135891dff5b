CONSTANTS
    a = a
    b = b
    nil = nil
    Nil = nil
    Commands = {a, b}
    Reads <- WritesOnly
    NewLeaders = {1}
    MaxBallot = 1
    N = 3
SPECIFICATION Spec
INVARIANTS TypeOK ExecutedOnce QuorumBacked RepliesHashHistory Paths NothingLeft AcceptedReported
CHECK_DEADLOCK FALSE
SYMMETRY Symmetry
CONSTRAINT SmallChange
