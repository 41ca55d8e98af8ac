SPECIFICATION Spec
CONSTANTS
  r1 = r1
  NoWorker = NoWorker
  Run = {r1}
  Worker = {w1, w2}
  Command <- CancelCommands
  RunOf <- MCRunOf
  Kind <- MCKind
  MaxAttempts = 2
  BatchSize = 2
  MaxFaults = 2
SYMMETRY WorkerSymmetry
INVARIANTS TypeOK TokensFence AttemptBudget QueueAgreesWithRun DeliveredMeansDone OutcomeJustified
CHECK_DEADLOCK FALSE
PROPERTIES ImplementsContract
