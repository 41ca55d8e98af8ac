SPECIFICATION FairSpec
CONSTANTS
  Run = {r1, r2}
  BatchSize = 3
  MaxUpdates = 0
  MaxFaults = 0
PROPERTIES EndedRunsSettle
CHECK_DEADLOCK FALSE
