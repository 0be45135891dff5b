SPECIFICATION Spec
CONSTANTS
  None = None
  Replicas = {r1, r2, r3}
  Leader = r1
  Commands = {c1, c2}
  NumSlots = 2
  MayCrash = {r1}
SYMMETRY Symmetry
INVARIANTS FullInv Agreement ExecutedOnce NothingLeft
PROPERTIES ImplementsLog
CHECK_DEADLOCK FALSE
