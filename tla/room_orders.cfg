SPECIFICATION Spec
CONSTANTS
  s1 = s1
  s2 = s2
  p1 = p1
  p2 = p2
  n1 = n1
  n2 = n2
  None = None
  Sender = {s1, s2}
  Pinner = {p1, p2}
  Navigator = {n1, n2}
  MaxRank = 2
  MaxFaults = 1
  MaxAges = 1
  MaxStarted = 3
CONSTRAINT StartedBound
SYMMETRY Symmetry
INVARIANTS TypeOK ClaimsExclusive OneSend DisplayAgrees EndedHoldsNothing OutcomeHonest
CHECK_DEADLOCK FALSE
