SPECIFICATION Spec
CONSTANTS
  Orgs = {o1, o2}
  Sessions = {s1, s2}
  Workers = {w1, w2}
  MaxTime = 3
  Ahead = 1
  MaxTurns = 1
  MaxLosses = 1
  TTL = 2
  None = none
SYMMETRY Interchangeable
INVARIANTS
  TypeOK
  RevocationWins
  RotationKept
CHECK_DEADLOCK FALSE
