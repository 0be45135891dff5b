SPECIFICATION Spec
CONSTANTS
  N = 3
  c1 = c1
  c2 = c2
  Commands = {c1, c2}
  Noop = Noop
  None = None
  Proposals <- ToLeader
  InitialLeader = 0
  NewLeaders = {}
  Executing = {0, 1}
  MaxInFlight = 5
  MaxInstances = 2
  MaxBallot = 0
  MaxTimeouts = 0
INVARIANTS FullInv Agreement QuorumBacked RepliesMatch
CHECK_DEADLOCK FALSE
CONSTRAINT FewInFlight
