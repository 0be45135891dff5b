SPECIFICATION Spec
CONSTANTS
  MaxInFlight = 4
  None = None
  Replicas = {r1, r2, r3}
  Leader = r1
  Commands = {c1, c2}
  TheKey = key
  Key <- OneKey
SYMMETRY Symmetry
INVARIANTS QuorumBacked WitnessExclusive UnsyncedCovers Recoverable NothingLeft
PROPERTIES ImplementsLog
CONSTRAINT InFlightBound
CHECK_DEADLOCK FALSE
