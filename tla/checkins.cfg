SPECIFICATION Spec
CONSTANTS
  m1 = m1
  m2 = m2
  i1 = i1
  i2 = i2
  i3 = i3
  None = None
  Member = {m1, m2}
  Invocation = {i1, i2, i3}
  MemberOf <- TwiceAndOnce
  HasRole = TRUE
  MaxFaults = 2
  MaxUnderWay = 2
CONSTRAINT UnderWayBound
SYMMETRY Symmetry
INVARIANTS TypeOK OneAnnouncement SuccessIsShown
PROPERTIES OlderViewNeverLast
CHECK_DEADLOCK FALSE
