SPECIFICATION Spec
CONSTANTS
  N = 3
  Commands = {c1, c2}
  None = None
  Quorums <- FixedQuorums
  MaxInstances = 2
  MaxBallot = 2
INVARIANTS Agreement CommittedOnce CollisionsResolved
PROPERTIES CommitsFinal
SYMMETRY Symmetry
CHECK_DEADLOCK FALSE
