SPECIFICATION FairSpec
CONSTANTS
  k1 = k1
  k2 = k2
  k3 = k3
  write = write
  otherWrite = otherWrite
  None = None
  Legacy = Legacy
  Call = {k1, k3}
  Operator = {o1}
  InputOf <- Collision
  Attempts = 2
  MaxFaults = 2
INVARIANTS ReceiptsAgree
PROPERTIES LegacyIsIndexed
CHECK_DEADLOCK FALSE
