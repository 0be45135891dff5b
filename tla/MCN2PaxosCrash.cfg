SPECIFICATION FairSpec
CONSTANTS
  None = None
  Replicas = {r1, r2, r3, r4}
  Leader = r1
  Commands = {c1}
  NumSlots = 1
  MayCrash = {r4}
INVARIANTS QuorumBacked
PROPERTIES EventuallyExecuted
CHECK_DEADLOCK FALSE
