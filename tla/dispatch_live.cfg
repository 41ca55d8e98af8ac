SPECIFICATION FairSpec
CONSTANTS
  r1 = r1
  NoWorker = NoWorker
  Run = {r1}
  Worker = {w1, w2}
  Command <- EventCommands
  RunOf <- MCRunOf
  Kind <- MCKind
  MaxAttempts = 2
  BatchSize = 1
  MaxFaults = 1
PROPERTIES CommandsSettle RunsEnd
CHECK_DEADLOCK FALSE
