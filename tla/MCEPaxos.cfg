SPECIFICATION Spec
CONSTANTS
    a = a
    b = b
    c = c
    Noop = Noop
    Empty = Empty
    Nil = Nil
    Reads <- OneRead
    Groups <- Checked
INVARIANTS
    TypeOK
    Agreement
    ConflictsMeet
    SameOrderUntorn
    NothingLeft
PROPERTIES
    Final
CHECK_DEADLOCK FALSE
