SPECIFICATION Spec
CONSTANTS
  i1 = i1
  i2 = i2
  a = a
  b = b
  None = None
  Blank = Blank
  Other = Other
  Teams = 2
  Value = {a, b}
  Invocation = {i1, i2}
  MaxRow = 4
  MaxFaults = 2
  MaxClicks = 1
SYMMETRY Symmetry
INVARIANTS TypeOK AppendedOnce RowsAreKnown ShownAsRecorded OthersKept
PROPERTIES RejectedIsUndone ConfirmedAsShown
CHECK_DEADLOCK FALSE
