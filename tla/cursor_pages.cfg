SPECIFICATION FairSpec
CONSTANTS
  Run = {r1, r2, r3}
  BatchSize = 2
  MaxUpdates = 2
  MaxFaults = 2
INVARIANTS TypeOK NothingSkipped
PROPERTIES BacklogDrains
CHECK_DEADLOCK FALSE
