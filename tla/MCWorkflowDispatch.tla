--------------------------- MODULE MCWorkflowDispatch ---------------------------
(* Instances of WorkflowDispatch for TLC: a command is the pair of its run and *)
(* its kind (the code's id of a start command is "start:<runId>").             *)
EXTENDS WorkflowDispatch, TLC

CONSTANT r1

CancelCommands == {<<r1, "start">>, <<r1, "cancel">>}
EventCommands == {<<r1, "start">>, <<r1, "event">>}

MCRunOf == [c \in Command |-> c[1]]
MCKind == [c \in Command |-> c[2]]

WorkerSymmetry == Permutations(Worker)

================================================================================
