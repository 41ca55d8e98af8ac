SPECIFICATION Spec
CONSTANTS
  k1 = k1
  k2 = k2
  k3 = k3
  write = write
  otherWrite = otherWrite
  None = None
  Legacy = Legacy
  Call = {k1, k2}
  Operator = {o1, o2}
  InputOf <- SameWrite
  Attempts = 2
  MaxFaults = 1
SYMMETRY Symmetry
INVARIANTS TypeOK NoDuplicate
PROPERTIES ImplementsContract
CHECK_DEADLOCK FALSE
