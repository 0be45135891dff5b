SPECIFICATION Spec
CONSTANTS
    a = a
    b = b
    c = c
    Noop = Noop
    Empty = Empty
    Nil = Nil
    Reads <- OneRead
    Groups <- Recovering
INVARIANTS
    Agreement
CHECK_DEADLOCK FALSE
