---------------------------- MODULE WorkflowDispatch ----------------------------
(***************************************************************************)
(* The durable command queue of effect-zero-workflow and everything that   *)
(* moves it: the store's transactions (store.ts), the dispatcher processes *)
(* that claim commands under a lease and settle them (dispatcher.ts), the  *)
(* executor that turns a command into a call of the workflow engine and a  *)
(* markRun (runtime.ts), and the reconciler that copies the end of an      *)
(* execution into its run (runtime.ts).  The engine itself is a library;   *)
(* it is modelled by what this code relies on.                             *)
(*                                                                         *)
(* Each database transaction is one step.  Between two transactions of a   *)
(* command's attempt anything else may happen: its lease may run out, its  *)
(* process may die, another process may claim the command again.           *)
(***************************************************************************)
EXTENDS Naturals, FiniteSets

CONSTANTS
  Run,          \* run ids
  Command,      \* command ids
  Worker,       \* dispatcher processes
  NoWorker,     \* lease_owner IS NULL
  RunOf,        \* the run a command belongs to
  Kind,         \* the kind of a command
  MaxAttempts,  \* max_attempts of every run
  BatchSize,    \* batchSize of the dispatcher
  MaxFaults     \* bound: crashes, lost writes and overrun leases of a behaviour

ASSUME ConstantsAssumption ==
  /\ IsFiniteSet(Command)
  /\ NoWorker \notin Worker
  /\ RunOf \in [Command -> Run]
  /\ Kind \in [Command -> {"start", "cancel", "resume", "event"}]
  /\ \A c, d \in Command :
       RunOf[c] = RunOf[d] /\ Kind[c] = "start" /\ Kind[d] = "start" => c = d
  /\ MaxAttempts \in Nat \ {0}
  /\ BatchSize \in Nat \ {0}
  /\ MaxFaults \in Nat

VARIABLES
  run,       \* run[r]: workflow_run.status
  cmd,       \* cmd[c]: the row of workflow_command
  job,       \* job[w][c]: the attempt of c that a fiber of w is making
  up,        \* up[w]: process w runs
  observed,  \* observed[r]: end of r's execution a reconciler fiber has polled
  engine,    \* engine[r]: the durable execution of r
  faults     \* number of faults so far

vars == <<run, cmd, job, up, observed, engine, faults>>

RunStatus == {"absent", "pending", "running", "succeeded", "failed", "cancelled"}
TerminalStatus == {"succeeded", "failed", "cancelled"}
CommandRow ==
  [status : {"absent", "pending", "delivering", "delivered", "failed"},
   attempts : Nat,           \* attempts
   token : Nat,              \* lease_token
   owner : Worker \union {NoWorker},
   leased : BOOLEAN,         \* lease_until > NOW()
   available : BOOLEAN,      \* available_at <= NOW()
   created : Nat]            \* rank of created_at
Attempt ==
  [pc : {"idle", "execute", "mark", "deliver", "broken"},
   attempts : Nat, token : Nat]
EngineStatus == {"none", "active", "waiting", "success", "failure", "corrupt"}

Terminal(r) == run[r] \in TerminalStatus
Ended(r) == engine[r] \in {"success", "failure", "corrupt"}
IsStart(c, r) == RunOf[c] = r /\ Kind[c] = "start"

NoCommand ==
  [status |-> "absent", attempts |-> 0, token |-> 0, owner |-> NoWorker,
   leased |-> FALSE, available |-> FALSE, created |-> 0]
Idle == [pc |-> "idle", attempts |-> 0, token |-> 0]

Init ==
  /\ run = [r \in Run |-> "absent"]
  /\ cmd = [c \in Command |-> NoCommand]
  /\ job = [w \in Worker |-> [c \in Command |-> Idle]]
  /\ up = [w \in Worker |-> TRUE]
  /\ observed = [r \in Run |-> "nothing"]
  /\ engine = [r \in Run |-> "none"]
  /\ faults = 0

Fault ==
  /\ faults < MaxFaults
  /\ faults' = faults + 1

--------------------------------------------------------------------------------
(* The store *)

\* Mutant: markRun without its status condition.
MarkRunOverwrites(r, status) == run' = [run EXCEPT ![r] = status]

\* markRun: a terminal status is never overwritten.
MarkRun(r, status) ==
  run' = IF Terminal(r) THEN run ELSE [run EXCEPT ![r] = status]

\* created_at of the next command.
NextRank == Cardinality({d \in Command : cmd[d].status # "absent"})

\* INSERT INTO workflow_command: pending, never claimed, perhaps due later.
InsertCommand(c, due) ==
  cmd' = [cmd EXCEPT ![c] =
            [status |-> "pending", attempts |-> 0, token |-> 0, owner |-> NoWorker,
             leased |-> FALSE, available |-> due, created |-> NextRank]]

\* enqueue: the run and its start command in one transaction.  Enqueueing the
\* same idempotency key again returns the run and changes nothing.
Enqueue(r, c) ==
  /\ IsStart(c, r)
  /\ run[r] = "absent"
  /\ run' = [run EXCEPT ![r] = "pending"]
  /\ \E due \in BOOLEAN : InsertCommand(c, due)
  /\ UNCHANGED <<job, up, observed, engine, faults>>

\* enqueueCommand: only for a run that has not ended.
EnqueueCommand(c) ==
  /\ Kind[c] # "start"
  /\ cmd[c].status = "absent"
  /\ run[RunOf[c]] \in {"pending", "running"}
  /\ \E due \in BOOLEAN : InsertCommand(c, due)
  /\ UNCHANGED <<run, job, up, observed, engine, faults>>

\* Mutant: an expired lease is not claimed again.
ClaimablePendingOnly ==
  {c \in Command :
     ~Terminal(RunOf[c]) /\ cmd[c].status = "pending" /\ cmd[c].available}

Claimable ==
  {c \in Command :
     /\ ~Terminal(RunOf[c])
     /\ \/ cmd[c].status = "pending" /\ cmd[c].available
        \/ cmd[c].status = "delivering" /\ ~cmd[c].leased}

\* ORDER BY created_at LIMIT n FOR UPDATE SKIP LOCKED: the oldest claimable ones.
OldestBatch(S) ==
  /\ S # {}
  /\ S \subseteq Claimable
  /\ Cardinality(S) <= BatchSize
  /\ Cardinality(S) = BatchSize \/ S = Claimable
  /\ \A c \in S, d \in Claimable \ S : cmd[c].created <= cmd[d].created

\* Mutant: the token is set by the first claim only.
FreshTokenOnce(c) == IF cmd[c].token = 0 THEN 1 ELSE cmd[c].token

\* lease_token + 1
FreshToken(c) == cmd[c].token + 1

\* The row of a claimed command: a new attempt, a new token, a new lease.
LeasedRow(w, c) ==
  [status |-> "delivering", attempts |-> cmd[c].attempts + 1,
   token |-> FreshToken(c), owner |-> w, leased |-> TRUE,
   available |-> cmd[c].available, created |-> cmd[c].created]

\* claim: takes a lease with a fresh token; the process waits for its whole
\* previous batch before it claims again.  When the reply is lost or a row of
\* it cannot be decoded the rows stay claimed and nobody attempts them.
Claim(w, S) ==
  /\ up[w]
  /\ \A c \in Command : job[w][c].pc = "idle"
  /\ OldestBatch(S)
  /\ cmd' = [c \in Command |->
               IF c \in S THEN LeasedRow(w, c) ELSE cmd[c]]
  /\ \/ /\ job' = [job EXCEPT ![w] =
                    [c \in Command |->
                       IF c \in S
                       THEN [pc |-> "execute", attempts |-> cmd[c].attempts + 1,
                             token |-> FreshToken(c)]
                       ELSE Idle]]
        /\ UNCHANGED faults
     \/ /\ Fault
        /\ UNCHANGED job
  /\ UNCHANGED <<run, up, observed, engine>>

\* The fencing condition of settleCommand's UPDATE.
Holds(w, c) ==
  /\ cmd[c].status = "delivering"
  /\ cmd[c].owner = w
  /\ cmd[c].token = job[w][c].token

\* Mutant: lease_owner is left in the settled row.
SettledRowKeepsOwner(c, status) ==
  [status |-> status, attempts |-> cmd[c].attempts, token |-> cmd[c].token,
   owner |-> cmd[c].owner, leased |-> FALSE, available |-> (status # "pending"),
   created |-> cmd[c].created]

\* The row of a settled command; only a retry is due later.
SettledRow(c, status) ==
  [status |-> status, attempts |-> cmd[c].attempts, token |-> cmd[c].token,
   owner |-> NoWorker, leased |-> FALSE, available |-> (status # "pending"),
   created |-> cmd[c].created]

SettleCommand(w, c, status) ==
  cmd' = IF Holds(w, c) THEN [cmd EXCEPT ![c] = SettledRow(c, status)] ELSE cmd

\* A lease runs out.  While the attempt it protects is still being made this
\* is an overrun (nothing renews a lease) and counts as a fault.
LeaseExpires(c) ==
  /\ cmd[c].status = "delivering"
  /\ cmd[c].leased
  /\ cmd' = [cmd EXCEPT ![c].leased = FALSE]
  /\ IF \E w \in Worker : Holds(w, c) /\ job[w][c].pc # "idle"
     THEN Fault
     ELSE UNCHANGED faults
  /\ UNCHANGED <<run, job, up, observed, engine>>

\* available_at is reached: run_after of a start, or the delay of a retry.
BecomesAvailable(c) ==
  /\ cmd[c].status = "pending"
  /\ ~cmd[c].available
  /\ cmd' = [cmd EXCEPT ![c].available = TRUE]
  /\ UNCHANGED <<run, job, up, observed, engine, faults>>

--------------------------------------------------------------------------------
(* The executor and the dispatcher *)

Goto(w, c, pc) == job' = [job EXCEPT ![w][c].pc = pc]
Finish(w, c) == job' = [job EXCEPT ![w][c] = Idle]

\* What a command asks of the engine: start is idempotent per execution id;
\* an interrupt, an event and a resume wake an execution that waits.
EngineCall(c) ==
  LET r == RunOf[c] IN
  engine' =
    CASE Kind[c] = "start" /\ engine[r] = "none" -> [engine EXCEPT ![r] = "active"]
      [] Kind[c] # "start" /\ engine[r] = "waiting" -> [engine EXCEPT ![r] = "active"]
      [] OTHER -> engine

Execute(w, c) ==
  /\ job[w][c].pc = "execute"
  /\ EngineCall(c)
  /\ Goto(w, c, "mark")
  /\ UNCHANGED <<run, cmd, up, observed, faults>>

\* Version or payload mismatch, unknown workflow, engine error: the attempt
\* fails, and an engine error may come after the engine did what was asked.
ExecuteFails(w, c) ==
  /\ job[w][c].pc = "execute"
  /\ EngineCall(c) \/ UNCHANGED engine
  /\ Goto(w, c, "broken")
  /\ UNCHANGED <<run, cmd, up, observed, faults>>

MarkStatus(c) == IF Kind[c] = "cancel" THEN "cancelled" ELSE "running"

Mark(w, c) ==
  /\ job[w][c].pc = "mark"
  /\ MarkRun(RunOf[c], MarkStatus(c))
  /\ Goto(w, c, "deliver")
  /\ UNCHANGED <<cmd, up, observed, engine, faults>>

\* Mutant: the executor ignores the error of markRun.
MarkFailsSwallowed(w, c) ==
  /\ job[w][c].pc = "mark"
  /\ MarkRun(RunOf[c], MarkStatus(c)) \/ UNCHANGED run
  /\ Goto(w, c, "deliver")
  /\ UNCHANGED <<cmd, up, observed, engine, faults>>

\* markRun reports an SQL error; the write may still have been committed.
MarkFails(w, c) ==
  /\ job[w][c].pc = "mark"
  /\ MarkRun(RunOf[c], MarkStatus(c)) \/ UNCHANGED run
  /\ Goto(w, c, "broken")
  /\ UNCHANGED <<cmd, up, observed, engine, faults>>

\* markCommandDelivered; a stale lease is logged and ignored.
Deliver(w, c) ==
  /\ job[w][c].pc = "deliver"
  /\ SettleCommand(w, c, "delivered")
  /\ Finish(w, c)
  /\ UNCHANGED <<run, up, observed, engine, faults>>

\* Mutant: one attempt too many.
LastAttemptLate(w, c) == job[w][c].attempts > MaxAttempts

LastAttempt(w, c) == job[w][c].attempts >= MaxAttempts

\* retryCommand, with a delay.
Retry(w, c) ==
  /\ job[w][c].pc = "broken"
  /\ ~LastAttempt(w, c)
  /\ SettleCommand(w, c, "pending")
  /\ Finish(w, c)
  /\ UNCHANGED <<run, up, observed, engine, faults>>

\* Mutant: the run is failed whether or not the lease still held.
FailRunAlways(w, c) == MarkRun(RunOf[c], "failed")

\* Mutant: the command is given up and its run is forgotten.
FailRunNever(w, c) == UNCHANGED run

\* The run fails with its command, if the lease still held.
FailRun(w, c) ==
  IF Holds(w, c) THEN MarkRun(RunOf[c], "failed") ELSE UNCHANGED run

\* failCommand: both in one transaction.
FailCommand(w, c) ==
  /\ job[w][c].pc = "broken"
  /\ LastAttempt(w, c)
  /\ SettleCommand(w, c, "failed")
  /\ FailRun(w, c)
  /\ Finish(w, c)
  /\ UNCHANGED <<up, observed, engine, faults>>

\* The settlement itself fails: logged, the row stays as it was.
SettlementLost(w, c) ==
  /\ job[w][c].pc \in {"deliver", "broken"}
  /\ Fault
  /\ Finish(w, c)
  /\ UNCHANGED <<run, cmd, up, observed, engine>>

\* The process ends, or its dispatcher is interrupted: nothing is settled.
Stop(w) ==
  /\ up[w]
  /\ Fault
  /\ up' = [up EXCEPT ![w] = FALSE]
  /\ job' = [job EXCEPT ![w] = [c \in Command |-> Idle]]
  /\ UNCHANGED <<run, cmd, observed, engine>>

Restart(w) ==
  /\ ~up[w]
  /\ up' = [up EXCEPT ![w] = TRUE]
  /\ UNCHANGED <<run, cmd, job, observed, engine, faults>>

--------------------------------------------------------------------------------
(* The engine (external) *)

\* An execution suspends on an event, or ends.
EngineWaits(r) ==
  /\ engine[r] = "active"
  /\ engine' = [engine EXCEPT ![r] = "waiting"]
  /\ UNCHANGED <<run, cmd, job, up, observed, faults>>

EngineEnds(r) ==
  /\ engine[r] = "active"
  /\ \E e \in {"success", "failure", "corrupt"} :
       engine' = [engine EXCEPT ![r] = e]
  /\ UNCHANGED <<run, cmd, job, up, observed, faults>>

--------------------------------------------------------------------------------
(* The reconciler *)

\* Mutant: an undecodable result is logged like any other error of the poll.
EndedDecodable(r) == engine[r] \in {"success", "failure"}

\* What a poll recognises as the end of an execution.
PolledEnd(r) == Ended(r)

\* listRuns("running") and poll: a stored result that cannot be decoded counts
\* as a failure; any other error of the poll is logged and changes nothing.
Poll(r) ==
  /\ run[r] = "running"
  /\ observed[r] = "nothing"
  /\ PolledEnd(r)
  /\ observed' = [observed EXCEPT ![r] =
                    IF engine[r] = "success" THEN "succeeded" ELSE "failed"]
  /\ UNCHANGED <<run, cmd, job, up, engine, faults>>

MarkPolled(r) ==
  /\ observed[r] # "nothing"
  /\ MarkRun(r, observed[r])
  /\ observed' = [observed EXCEPT ![r] = "nothing"]
  /\ UNCHANGED <<cmd, job, up, engine, faults>>

\* The write fails or the process ends; a later pass polls the run again.
PollLost(r) ==
  /\ observed[r] # "nothing"
  /\ Fault
  /\ observed' = [observed EXCEPT ![r] = "nothing"]
  /\ UNCHANGED <<run, cmd, job, up, engine>>

--------------------------------------------------------------------------------
Next ==
  \/ \E r \in Run, c \in Command : Enqueue(r, c)
  \/ \E c \in Command :
       EnqueueCommand(c) \/ LeaseExpires(c) \/ BecomesAvailable(c)
  \/ \E w \in Worker, S \in SUBSET Command : Claim(w, S)
  \/ \E w \in Worker, c \in Command :
       \/ Execute(w, c) \/ ExecuteFails(w, c)
       \/ Mark(w, c) \/ MarkFails(w, c)
       \/ Deliver(w, c) \/ Retry(w, c) \/ FailCommand(w, c)
       \/ SettlementLost(w, c)
  \/ \E w \in Worker : Stop(w) \/ Restart(w)
  \/ \E r \in Run :
       EngineWaits(r) \/ EngineEnds(r) \/ Poll(r) \/ MarkPolled(r) \/ PollLost(r)

Spec == Init /\ [][Next]_vars

\* Time passes, a live dispatcher keeps polling and finishing its fibers, a
\* process that ended is restarted, the reconciler repeats every two seconds and
\* polls every running run, which the code guarantees while there is one running
\* run at a time (ReconcileCursor has what happens with several).
\* Nothing obliges a caller to enqueue or an execution to end.
Fairness ==
  /\ \A c \in Command : WF_vars(LeaseExpires(c)) /\ WF_vars(BecomesAvailable(c))
  /\ \A w \in Worker :
       /\ WF_vars(\E S \in SUBSET Command : Claim(w, S))
       /\ WF_vars(Restart(w))
       /\ \A c \in Command :
            /\ WF_vars(Execute(w, c) \/ ExecuteFails(w, c))
            /\ WF_vars(Mark(w, c) \/ MarkFails(w, c))
            /\ WF_vars(Deliver(w, c) \/ Retry(w, c) \/ FailCommand(w, c))
  /\ \A r \in Run : WF_vars(Poll(r)) /\ WF_vars(MarkPolled(r))

FairSpec == Spec /\ Fairness

--------------------------------------------------------------------------------
(* Properties *)

\* Types, and the lease columns of a row agree with its status: settleCommand
\* clears the owner and the expiry that claim sets.
TypeOK ==
  /\ run \in [Run -> RunStatus]
  /\ cmd \in [Command -> CommandRow]
  /\ job \in [Worker -> [Command -> Attempt]]
  /\ up \in [Worker -> BOOLEAN]
  /\ observed \in [Run -> {"nothing", "succeeded", "failed"}]
  /\ engine \in [Run -> EngineStatus]
  /\ faults \in 0..MaxFaults
  /\ \A c \in Command :
       /\ (cmd[c].status = "delivering") = (cmd[c].owner # NoWorker)
       /\ cmd[c].leased => cmd[c].status = "delivering"

\* However often a command is claimed again after its lease ran out, no two
\* attempts that are still being made carry the same token, and none carries
\* one the row has not reached: at most one of them can settle the command.
TokensFence ==
  \A c \in Command, w \in Worker :
    job[w][c].pc # "idle" =>
      /\ job[w][c].token \in 1..cmd[c].token
      /\ \A v \in Worker \ {w} :
           job[v][c].pc # "idle" => job[v][c].token # job[w][c].token

\* A command that goes back to the queue has attempts left, one that is given
\* up has none, and only lost attempts (a crash, an overrun lease, a lost
\* settlement) let a command be claimed more than max_attempts times.
AttemptBudget ==
  \A c \in Command :
    /\ cmd[c].status = "pending" => cmd[c].attempts < MaxAttempts
    /\ cmd[c].status = "failed" => cmd[c].attempts >= MaxAttempts
    /\ cmd[c].attempts <= MaxAttempts + faults

\* A run never exists without its start command, and a command given up on
\* never leaves its run open: enqueue and failCommand are transactions.
QueueAgreesWithRun ==
  /\ \A r \in Run, c \in Command :
       IsStart(c, r) => ((run[r] = "absent") = (cmd[c].status = "absent"))
  /\ \A c \in Command :
       cmd[c].status = "failed" => Terminal(RunOf[c])

\* A delivered command has had its effect: a delivered start has an execution
\* and a run that left "pending", a delivered cancel has a run that ended.
DeliveredMeansDone ==
  \A c \in Command :
    cmd[c].status = "delivered" =>
      /\ run[RunOf[c]] # "pending"
      /\ Kind[c] = "start" => engine[RunOf[c]] # "none"
      /\ Kind[c] = "cancel" => Terminal(RunOf[c])

\* An outcome has a cause: success is that of the execution, failure that of
\* the execution or of a command given up on, cancellation that of a cancel
\* command that some dispatcher claimed.
OutcomeJustified ==
  \A r \in Run :
    /\ run[r] = "succeeded" => engine[r] = "success"
    /\ run[r] = "failed" =>
         \/ engine[r] \in {"failure", "corrupt"}
         \/ \E c \in Command : RunOf[c] = r /\ cmd[c].status = "failed"
    /\ run[r] = "cancelled" =>
         \E c \in Command :
           RunOf[c] = r /\ Kind[c] = "cancel" /\ cmd[c].attempts > 0

\* A settled command is never claimed, executed anew or settled again,
\* whatever a worker with an old lease still does.
SettledIsFinal ==
  [][\A c \in Command :
       cmd[c].status \in {"delivered", "failed"} => cmd'[c] = cmd[c]]_vars

\* Only the attempt that holds the current lease settles a command: a row
\* leaves "delivering" by the step of the worker that owns the current token.
OnlyHolderSettles ==
  [][\A c \in Command :
       cmd[c].status = "delivering" /\ cmd'[c].status # "delivering" =>
         \E w \in Worker :
           /\ cmd[c].owner = w
           /\ job[w][c].pc \in {"deliver", "broken"}
           /\ job[w][c].token = cmd[c].token
           /\ job'[w][c].pc = "idle"]_vars

\* The refinement mapping: pending and running are one state to the caller, a
\* waiting execution is live, an undecodable result is a failure.
Contract == INSTANCE WorkflowRunContract WITH
  outcome <- [r \in Run |->
                IF run[r] \in {"pending", "running"} THEN "accepted" ELSE run[r]],
  execution <- [r \in Run |->
                  CASE engine[r] = "none" -> "idle"
                    [] engine[r] \in {"active", "waiting"} -> "live"
                    [] engine[r] = "success" -> "success"
                    [] OTHER -> "failure"]

\* Outcomes are final and success is only that of the execution.
ImplementsContract == Contract!Spec

\* Every command that is enqueued is settled or its run ends, whatever
\* crashes, overruns and lost writes happen (finitely often) on the way.
CommandsSettle ==
  \A c \in Command :
    cmd[c].status \in {"pending", "delivering"} ~>
      (cmd[c].status \in {"delivered", "failed"} \/ Terminal(RunOf[c]))

\* Every accepted run gets an execution or ends, and once its execution has
\* ended the run ends.
RunsEnd ==
  \A r \in Run :
    /\ run[r] # "absent" ~> (engine[r] # "none" \/ Terminal(r))
    /\ run[r] # "absent" /\ Ended(r) ~> Terminal(r)

================================================================================
