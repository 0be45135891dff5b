SPECIFICATION Spec
CONSTANTS
  N = 2
  c1 = c1
  c2 = c2
  Commands = {c1, c2}
  Noop = Noop
  None = None
  Proposals <- OneEach
  InitialLeader = 0
  NewLeaders = {1}
  Executing = {0, 1}
  MaxInFlight = 2
  MaxInstances = 2
  MaxBallot = 3
  MaxTimeouts = 1
INVARIANTS NoOverwrite BallotsOwned ClientsKept
CHECK_DEADLOCK FALSE
CONSTRAINT FewInFlight
