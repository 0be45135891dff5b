SPECIFICATION Spec
CONSTANTS
  N = 3
  c1 = c1
  c2 = c2
  Commands = {c1}
  Noop = Noop
  None = None
  Proposals <- ToLeader
  InitialLeader = 0
  NewLeaders = {}
  Executing = {0, 1, 2}
  MaxInFlight = 0
  MaxInstances = 1
  MaxBallot = 2
  MaxTimeouts = 1
INVARIANTS Agreement
CHECK_DEADLOCK FALSE
