SPECIFICATION Spec
CONSTANTS
  k1 = k1
  k2 = k2
  k3 = k3
  write = write
  otherWrite = otherWrite
  None = None
  Legacy = Legacy
  Call = {k1, k2}
  Operator = {o1}
  InputOf <- SameWrite
  Attempts = 2
  MaxFaults = 0
INVARIANTS UnresolvedIsIndexed
CHECK_DEADLOCK FALSE
