------------------------- MODULE WorkflowDispatchProofs -------------------------
(***************************************************************************)
(* Proofs about WorkflowDispatch for every set of runs, commands and       *)
(* dispatcher processes and every bound: the invariants the runs of        *)
(* MCWorkflowDispatch check, the two action properties, and the            *)
(* implementation of WorkflowRunContract.                                  *)
(***************************************************************************)
EXTENDS WorkflowDispatch, FiniteSetTheorems, TLAPS

Pc == {"idle", "execute", "mark", "deliver", "broken"}
Jobs == [Worker -> [Command -> Attempt]]
Commands == [Command -> CommandRow]

\* The lease columns of a row agree with its status (last part of TypeOK).
LeaseColumns ==
  \A c \in Command :
    /\ (cmd[c].status = "delivering") = (cmd[c].owner # NoWorker)
    /\ cmd[c].leased => cmd[c].status = "delivering"

--------------------------------------------------------------------------------
(* What the operators the actions are built from do, point by point *)

\* created_at is a rank: the number of commands inserted before.
LEMMA RankIsNat == NextRank \in Nat
<1>1. IsFiniteSet({d \in Command : cmd[d].status # "absent"})
  BY ConstantsAssumption, FS_Subset
<1> QED
  BY <1>1, FS_CardinalityType DEF NextRank

\* Moving an attempt to another step changes its pc and nothing else.
LEMMA GotoEffect ==
  ASSUME NEW w \in Worker, NEW c \in Command, NEW pc \in Pc,
         job \in Jobs, Goto(w, c, pc)
  PROVE  /\ job' \in Jobs
         /\ \A v \in Worker, d \in Command :
              job'[v][d] = IF v = w /\ d = c
                           THEN [pc |-> pc, attempts |-> job[w][c].attempts,
                                 token |-> job[w][c].token]
                           ELSE job[v][d]
<1> DEFINE new == [pc |-> pc, attempts |-> job[w][c].attempts,
                   token |-> job[w][c].token]
<1>1. job[w] \in [Command -> Attempt] /\ job[w][c] \in Attempt
  BY DEF Jobs
<1>2. new \in Attempt
  BY <1>1 DEF Attempt, Pc
<1>3. [job[w][c] EXCEPT !.pc = pc] = new
  BY <1>1 DEF Attempt
<1>4. job' = [job EXCEPT ![w] = [job[w] EXCEPT ![c] = new]]
  BY <1>3 DEF Goto, Jobs
<1> HIDE DEF new
<1>5. [job[w] EXCEPT ![c] = new] \in [Command -> Attempt]
  BY <1>1, <1>2
<1>6. job' \in Jobs
  BY <1>4, <1>5 DEF Jobs
<1>7. \A v \in Worker, d \in Command :
        job'[v][d] = IF v = w /\ d = c THEN new ELSE job[v][d]
  BY <1>1, <1>4 DEF Jobs
<1> QED
  BY <1>6, <1>7 DEF new

\* The step an attempt is at after a move: its own is the new one.
LEMMA GotoPc ==
  ASSUME NEW w \in Worker, NEW c \in Command, NEW pc \in Pc,
         job \in Jobs, Goto(w, c, pc),
         NEW v \in Worker, NEW d \in Command
  PROVE  job'[v][d].pc = IF v = w /\ d = c THEN pc ELSE job[v][d].pc
<1>1. job'[v][d] = IF v = w /\ d = c
                   THEN [pc |-> pc, attempts |-> job[w][c].attempts,
                         token |-> job[w][c].token]
                   ELSE job[v][d]
  BY GotoEffect
<1> QED
  BY <1>1

\* Finishing an attempt makes it idle and touches no other.
LEMMA FinishEffect ==
  ASSUME NEW w \in Worker, NEW c \in Command, job \in Jobs, Finish(w, c)
  PROVE  /\ job' \in Jobs
         /\ \A v \in Worker, d \in Command :
              job'[v][d] = IF v = w /\ d = c THEN Idle ELSE job[v][d]
<1>1. job[w] \in [Command -> Attempt]
  BY DEF Jobs
<1>2. Idle \in Attempt
  BY DEF Attempt, Idle
<1>3. job' = [job EXCEPT ![w] = [job[w] EXCEPT ![c] = Idle]]
  BY DEF Finish, Jobs
<1>4. [job[w] EXCEPT ![c] = Idle] \in [Command -> Attempt]
  BY <1>1, <1>2
<1> QED
  BY <1>1, <1>3, <1>4 DEF Jobs

\* A settlement writes the settled row under the fencing condition, or nothing.
LEMMA SettleEffect ==
  ASSUME NEW w \in Worker, NEW c \in Command,
         NEW status \in {"pending", "delivered", "failed"},
         cmd \in Commands, LeaseColumns, SettleCommand(w, c, status)
  PROVE  /\ cmd' \in Commands
         /\ LeaseColumns'
         /\ \A d \in Command :
              cmd'[d] = IF d = c /\ Holds(w, c) THEN SettledRow(c, status) ELSE cmd[d]
<1> DEFINE new == SettledRow(c, status)
<1>1. new \in CommandRow
  BY DEF Commands, CommandRow, SettledRow
<1>2. cmd' = IF Holds(w, c) THEN [cmd EXCEPT ![c] = new] ELSE cmd
  BY DEF SettleCommand
<1>3. new.status # "delivering" /\ new.owner = NoWorker /\ new.leased = FALSE
  BY DEF SettledRow
<1> HIDE DEF new
<1>4. cmd' \in Commands
  BY <1>1, <1>2 DEF Commands
<1>5. \A d \in Command : cmd'[d] = IF d = c /\ Holds(w, c) THEN new ELSE cmd[d]
  BY <1>2 DEF Commands
<1>6. LeaseColumns'
  BY <1>3, <1>5 DEF LeaseColumns
<1> QED
  BY <1>4, <1>5, <1>6 DEF new

\* An insertion writes one new pending row.
LEMMA InsertEffect ==
  ASSUME NEW c \in Command, NEW due \in BOOLEAN,
         cmd \in Commands, LeaseColumns, InsertCommand(c, due)
  PROVE  /\ cmd' \in Commands
         /\ LeaseColumns'
         /\ cmd'[c].status = "pending" /\ cmd'[c].attempts = 0 /\ cmd'[c].token = 0
         /\ \A d \in Command \ {c} : cmd'[d] = cmd[d]
<1> DEFINE new == [status |-> "pending", attempts |-> 0, token |-> 0,
                   owner |-> NoWorker, leased |-> FALSE, available |-> due,
                   created |-> NextRank]
<1>1. new \in CommandRow
  BY RankIsNat DEF CommandRow
<1>2. cmd' = [cmd EXCEPT ![c] = new]
  BY DEF InsertCommand
<1>3. /\ new.status = "pending" /\ new.owner = NoWorker /\ new.leased = FALSE
      /\ new.attempts = 0 /\ new.token = 0
  OBVIOUS
<1> HIDE DEF new
<1>4. cmd' \in Commands /\ cmd'[c] = new /\ \A d \in Command \ {c} : cmd'[d] = cmd[d]
  BY <1>1, <1>2 DEF Commands
<1> QED
  BY <1>3, <1>4 DEF LeaseColumns

\* A claim writes the rows of its batch and, unless its reply is lost, starts
\* an attempt for each.
LEMMA ClaimEffect ==
  ASSUME NEW w \in Worker, NEW S \in SUBSET Command,
         cmd \in Commands, LeaseColumns, job \in Jobs, Claim(w, S)
  PROVE  /\ cmd' \in Commands
         /\ LeaseColumns'
         /\ job' \in Jobs
         /\ \A c \in Command :
              cmd'[c] = IF c \in S THEN LeasedRow(w, c) ELSE cmd[c]
         /\ \/ /\ UNCHANGED faults
               /\ \A v \in Worker, c \in Command :
                    job'[v][c] =
                      IF v # w THEN job[v][c]
                      ELSE IF c \in S
                      THEN [pc |-> "execute", attempts |-> cmd[c].attempts + 1,
                            token |-> FreshToken(c)]
                      ELSE Idle
            \/ Fault /\ job' = job
<1>1. \A c \in Command : /\ LeasedRow(w, c) \in CommandRow
                         /\ LeasedRow(w, c).status = "delivering"
                         /\ LeasedRow(w, c).owner = w
  BY DEF Commands, CommandRow, LeasedRow, FreshToken
<1>2. cmd' = [c \in Command |-> IF c \in S THEN LeasedRow(w, c) ELSE cmd[c]]
  BY DEF Claim
<1>3. \A c \in Command : cmd'[c] = IF c \in S THEN LeasedRow(w, c) ELSE cmd[c]
  BY <1>2
<1>4. cmd' \in Commands
  BY <1>1, <1>2 DEF Commands
<1>5. LeaseColumns'
  <2>1. NoWorker \notin Worker
    BY ConstantsAssumption
  <2> SUFFICES ASSUME NEW c \in Command
      PROVE  /\ (cmd'[c].status = "delivering") = (cmd'[c].owner # NoWorker)
             /\ cmd'[c].leased => cmd'[c].status = "delivering"
    BY DEF LeaseColumns
  <2>2. CASE c \in S
    BY <1>1, <1>3, <2>1, <2>2
  <2>3. CASE c \notin S
    BY <1>3, <2>3 DEF LeaseColumns
  <2> QED
    BY <2>2, <2>3
<1> DEFINE new(c) == IF c \in S
                     THEN [pc |-> "execute", attempts |-> cmd[c].attempts + 1,
                           token |-> FreshToken(c)]
                     ELSE Idle
<1>6. \A c \in Command : new(c) \in Attempt
  BY DEF Commands, CommandRow, Attempt, Idle, FreshToken
<1>7. \/ UNCHANGED faults /\ job' = [job EXCEPT ![w] = [c \in Command |-> new(c)]]
      \/ Fault /\ job' = job
  BY DEF Claim
<1> HIDE DEF new
<1>8. job' \in Jobs
  BY <1>6, <1>7 DEF Jobs
<1>9. \/ /\ UNCHANGED faults
         /\ \A v \in Worker, c \in Command :
              job'[v][c] = IF v # w THEN job[v][c] ELSE new(c)
      \/ Fault /\ job' = job
  BY <1>7 DEF Jobs
<1> QED
  BY <1>3, <1>4, <1>5, <1>8, <1>9 DEF new

\* Time passing changes one timing column of one row.
LEMMA TimeEffect ==
  ASSUME NEW c \in Command, cmd \in Commands, LeaseColumns,
         LeaseExpires(c) \/ BecomesAvailable(c)
  PROVE  /\ cmd' \in Commands
         /\ LeaseColumns'
         /\ \A d \in Command :
              /\ cmd'[d].status = cmd[d].status
              /\ cmd'[d].attempts = cmd[d].attempts
              /\ cmd'[d].token = cmd[d].token
              /\ cmd'[d].owner = cmd[d].owner
              /\ d # c => cmd'[d] = cmd[d]
<1>1. cmd[c] \in CommandRow
  BY DEF Commands
<1>2. PICK new :
        /\ cmd' = [cmd EXCEPT ![c] = new]
        /\ new \in CommandRow
        /\ new.status = cmd[c].status /\ new.attempts = cmd[c].attempts
        /\ new.token = cmd[c].token /\ new.owner = cmd[c].owner
        /\ new.leased => cmd[c].leased
  <2>1. CASE LeaseExpires(c)
    <3> DEFINE expired == [cmd[c] EXCEPT !.leased = FALSE]
    <3>1. /\ expired \in CommandRow
          /\ expired.status = cmd[c].status /\ expired.attempts = cmd[c].attempts
          /\ expired.token = cmd[c].token /\ expired.owner = cmd[c].owner
          /\ expired.leased = FALSE
      BY <1>1 DEF CommandRow
    <3>2. cmd' = [cmd EXCEPT ![c] = expired]
      BY <2>1 DEF LeaseExpires, Commands
    <3> HIDE DEF expired
    <3> QED
      BY <3>1, <3>2
  <2>2. CASE BecomesAvailable(c)
    <3> DEFINE due == [cmd[c] EXCEPT !.available = TRUE]
    <3>1. /\ due \in CommandRow
          /\ due.status = cmd[c].status /\ due.attempts = cmd[c].attempts
          /\ due.token = cmd[c].token /\ due.owner = cmd[c].owner
          /\ due.leased = cmd[c].leased
      BY <1>1 DEF CommandRow
    <3>2. cmd' = [cmd EXCEPT ![c] = due]
      BY <2>2 DEF BecomesAvailable, Commands
    <3> HIDE DEF due
    <3> QED
      BY <3>1, <3>2
  <2> QED
    BY <2>1, <2>2
<1>3. cmd' \in Commands /\ cmd'[c] = new /\ \A d \in Command \ {c} : cmd'[d] = cmd[d]
  BY <1>2 DEF Commands
<1> QED
  BY <1>2, <1>3 DEF LeaseColumns

\* A process that stops drops its attempts and no other's.
LEMMA StopEffect ==
  ASSUME NEW w \in Worker, job \in Jobs, Stop(w)
  PROVE  /\ job' \in Jobs
         /\ \A v \in Worker, c \in Command :
              job'[v][c] = IF v = w THEN Idle ELSE job[v][c]
<1>1. Idle \in Attempt
  BY DEF Attempt, Idle
<1> QED
  BY <1>1 DEF Stop, Jobs

\* markRun writes a status only over one that is not terminal.
LEMMA MarkRunEffect ==
  ASSUME NEW r \in Run, NEW status \in RunStatus,
         run \in [Run -> RunStatus], MarkRun(r, status)
  PROVE  /\ run' \in [Run -> RunStatus]
         /\ \A q \in Run :
              run'[q] = IF q = r /\ ~Terminal(r) THEN status ELSE run[q]
BY DEF MarkRun

--------------------------------------------------------------------------------
(* Types *)

\* Init establishes the types.
LEMMA InitTypeOK == Init => TypeOK
BY ConstantsAssumption
DEF Init, TypeOK, RunStatus, CommandRow, Attempt, EngineStatus, NoCommand, Idle

\* The engine call of a command keeps the type of the engine.
LEMMA EngineCallType ==
  ASSUME NEW c \in Command, engine \in [Run -> EngineStatus], EngineCall(c)
  PROVE  engine' \in [Run -> EngineStatus]
BY ConstantsAssumption DEF EngineCall, EngineStatus

\* Every step keeps the types and the agreement of a row's lease columns.
LEMMA StepTypeOK == TypeOK /\ [Next]_vars => TypeOK'
<1> SUFFICES ASSUME TypeOK, [Next]_vars PROVE TypeOK'
  OBVIOUS
<1> USE DEF Commands, Jobs
<1>0. /\ cmd \in Commands /\ LeaseColumns /\ job \in Jobs
      /\ run \in [Run -> RunStatus] /\ engine \in [Run -> EngineStatus]
      /\ up \in [Worker -> BOOLEAN] /\ faults \in 0..MaxFaults
      /\ observed \in [Run -> {"nothing", "succeeded", "failed"}]
      /\ MaxFaults \in Nat /\ RunOf \in [Command -> Run]
  BY ConstantsAssumption DEF TypeOK, LeaseColumns
<1>1. ASSUME NEW r \in Run, NEW c \in Command, Enqueue(r, c) PROVE TypeOK'
  <2>1. PICK due \in BOOLEAN : InsertCommand(c, due)
    BY <1>1 DEF Enqueue
  <2> QED
    BY <1>0, <1>1, <2>1, InsertEffect DEF Enqueue, TypeOK, LeaseColumns, RunStatus
<1>2. ASSUME NEW c \in Command, EnqueueCommand(c) PROVE TypeOK'
  <2>1. PICK due \in BOOLEAN : InsertCommand(c, due)
    BY <1>2 DEF EnqueueCommand
  <2> QED
    BY <1>0, <1>2, <2>1, InsertEffect DEF EnqueueCommand, TypeOK, LeaseColumns
<1>3. ASSUME NEW c \in Command, LeaseExpires(c) PROVE TypeOK'
  <2>1. cmd' \in Commands /\ LeaseColumns'
    BY <1>0, <1>3, TimeEffect
  <2>2. faults' \in 0..MaxFaults
    BY <1>0, <1>3 DEF LeaseExpires, Fault
  <2>3. UNCHANGED <<run, job, up, observed, engine>>
    BY <1>3 DEF LeaseExpires
  <2> QED
    BY <1>0, <2>1, <2>2, <2>3 DEF TypeOK, LeaseColumns
<1>4. ASSUME NEW c \in Command, BecomesAvailable(c) PROVE TypeOK'
  BY <1>0, <1>4, TimeEffect DEF BecomesAvailable, TypeOK, LeaseColumns
<1>5. ASSUME NEW w \in Worker, NEW S \in SUBSET Command, Claim(w, S) PROVE TypeOK'
  <2>1. faults' \in 0..MaxFaults
    BY <1>0, <1>5 DEF Claim, Fault
  <2>2. UNCHANGED <<run, up, observed, engine>>
    BY <1>5 DEF Claim
  <2>3. cmd' \in Commands /\ LeaseColumns' /\ job' \in Jobs
    BY <1>0, <1>5, ClaimEffect
  <2> QED
    BY <1>0, <2>1, <2>2, <2>3 DEF TypeOK, LeaseColumns
<1>6. ASSUME NEW w \in Worker, NEW c \in Command, Execute(w, c) PROVE TypeOK'
  BY <1>0, <1>6, GotoEffect, EngineCallType DEF Execute, TypeOK, LeaseColumns, Pc
<1>7. ASSUME NEW w \in Worker, NEW c \in Command, ExecuteFails(w, c) PROVE TypeOK'
  BY <1>0, <1>7, GotoEffect, EngineCallType DEF ExecuteFails, TypeOK, LeaseColumns, Pc
<1>8. ASSUME NEW w \in Worker, NEW c \in Command, Mark(w, c) PROVE TypeOK'
  BY <1>0, <1>8, GotoEffect, MarkRunEffect
  DEF Mark, MarkStatus, TypeOK, LeaseColumns, Pc, RunStatus
<1>9. ASSUME NEW w \in Worker, NEW c \in Command, MarkFails(w, c) PROVE TypeOK'
  <2>1. RunOf[c] \in Run /\ MarkStatus(c) \in RunStatus /\ run \in [Run -> RunStatus]
    BY <1>0 DEF MarkStatus, TypeOK, RunStatus
  <2>2. run' \in [Run -> RunStatus]
    BY <1>9, <2>1, MarkRunEffect DEF MarkFails
  <2>3. job' \in Jobs
    BY <1>0, <1>9, GotoEffect DEF MarkFails, Pc
  <2>4. UNCHANGED <<cmd, up, observed, engine, faults>>
    BY <1>9 DEF MarkFails
  <2> QED
    BY <1>0, <2>2, <2>3, <2>4 DEF TypeOK, LeaseColumns
<1>10. ASSUME NEW w \in Worker, NEW c \in Command, Deliver(w, c) PROVE TypeOK'
  BY <1>0, <1>10, SettleEffect, FinishEffect DEF Deliver, TypeOK, LeaseColumns
<1>11. ASSUME NEW w \in Worker, NEW c \in Command, Retry(w, c) PROVE TypeOK'
  BY <1>0, <1>11, SettleEffect, FinishEffect DEF Retry, TypeOK, LeaseColumns
<1>12. ASSUME NEW w \in Worker, NEW c \in Command, FailCommand(w, c) PROVE TypeOK'
  <2>1. run' \in [Run -> RunStatus]
    BY <1>0, <1>12, MarkRunEffect DEF FailCommand, FailRun, RunStatus
  <2> QED
    BY <1>0, <1>12, <2>1, SettleEffect, FinishEffect DEF FailCommand, TypeOK, LeaseColumns
<1>13. ASSUME NEW w \in Worker, NEW c \in Command, SettlementLost(w, c) PROVE TypeOK'
  BY <1>0, <1>13, FinishEffect DEF SettlementLost, Fault, TypeOK, LeaseColumns
<1>14. ASSUME NEW w \in Worker, Stop(w) PROVE TypeOK'
  <2>1. job' \in Jobs
    BY <1>0, <1>14, StopEffect
  <2> QED
    BY <1>0, <1>14, <2>1 DEF Stop, Fault, TypeOK, LeaseColumns
<1>15. ASSUME NEW w \in Worker, Restart(w) PROVE TypeOK'
  BY <1>0, <1>15 DEF Restart, TypeOK, LeaseColumns
<1>16. ASSUME NEW r \in Run, EngineWaits(r) \/ EngineEnds(r) PROVE TypeOK'
  BY <1>0, <1>16 DEF EngineWaits, EngineEnds, EngineStatus, TypeOK, LeaseColumns
<1>17. ASSUME NEW r \in Run, Poll(r) PROVE TypeOK'
  BY <1>0, <1>17 DEF Poll, TypeOK, LeaseColumns
<1>18. ASSUME NEW r \in Run, MarkPolled(r) PROVE TypeOK'
  BY <1>0, <1>18, MarkRunEffect DEF MarkPolled, TypeOK, LeaseColumns, RunStatus
<1>19. ASSUME NEW r \in Run, PollLost(r) PROVE TypeOK'
  BY <1>0, <1>19 DEF PollLost, Fault, TypeOK, LeaseColumns
<1>20. CASE UNCHANGED vars
  BY <1>0, <1>20 DEF vars, TypeOK, LeaseColumns
<1> QED
  BY <1>1, <1>2, <1>3, <1>4, <1>5, <1>6, <1>7, <1>8, <1>9, <1>10, <1>11, <1>12,
     <1>13, <1>14, <1>15, <1>16, <1>17, <1>18, <1>19, <1>20 DEF Next

\* The types hold in every reachable state, whatever the constants.
THEOREM TypeCorrect == Spec => []TypeOK
BY InitTypeOK, StepTypeOK, PTL DEF Spec

--------------------------------------------------------------------------------
(* The inductive invariant *)

\* Tokens count claims: every attempt carries the number of its claim, and the
\* row that of the last one.
LeaseAt(c) ==
  /\ cmd[c].attempts = cmd[c].token
  /\ cmd[c].status = "absent" => cmd[c].token = 0
  /\ cmd[c].status \in {"delivering", "delivered", "failed"} => cmd[c].token > 0
  /\ \A w \in Worker :
       job[w][c].pc # "idle" =>
         /\ job[w][c].token \in 1..cmd[c].token
         /\ job[w][c].attempts = job[w][c].token
         /\ \A v \in Worker \ {w} :
              job[v][c].pc # "idle" => job[v][c].token # job[w][c].token

LeaseInv == \A c \in Command : LeaseAt(c)

\* The attempt the row's lease was given for is no longer protected or made.
Lost(c) ==
  \/ ~cmd[c].leased
  \/ ~ \E w \in Worker : Holds(w, c) /\ job[w][c].pc # "idle"

\* Every attempt beyond the last is paid for by a fault, and a lost one has
\* already paid for the claim that will follow.
BudgetAt(c) ==
  /\ cmd[c].status = "pending" => cmd[c].attempts < MaxAttempts
  /\ cmd[c].status = "failed" => cmd[c].attempts >= MaxAttempts
  /\ cmd[c].attempts <= MaxAttempts + faults
  /\ cmd[c].status = "delivering" /\ Lost(c) =>
       cmd[c].attempts + 1 <= MaxAttempts + faults

BudgetInv == \A c \in Command : BudgetAt(c)

\* Nothing but Enqueue brings a run into being.
QueueInv ==
  /\ \A c \in Command : cmd[c].status # "absent" => run[RunOf[c]] # "absent"
  /\ \A r \in Run : observed[r] # "nothing" => run[r] # "absent"

\* An attempt that reached its last step has had its effect.
ProgressInv ==
  \A w \in Worker, c \in Command :
    /\ job[w][c].pc \in {"mark", "deliver"} /\ Kind[c] = "start" =>
         engine[RunOf[c]] # "none"
    /\ job[w][c].pc = "deliver" =>
         /\ run[RunOf[c]] # "pending"
         /\ Kind[c] = "cancel" => Terminal(RunOf[c])

\* What a reconciler fiber has seen is still so.
ObservedInv ==
  \A r \in Run :
    /\ observed[r] = "succeeded" => engine[r] = "success"
    /\ observed[r] = "failed" => engine[r] \in {"failure", "corrupt"}

IInv ==
  /\ TypeOK /\ LeaseInv /\ BudgetInv /\ QueueInv /\ ProgressInv /\ ObservedInv
  /\ QueueAgreesWithRun /\ DeliveredMeansDone /\ OutcomeJustified

\* The parts of the type invariant that the effect lemmas ask for.
LEMMA TypeFacts ==
  ASSUME TypeOK
  PROVE  /\ cmd \in Commands /\ LeaseColumns /\ job \in Jobs
         /\ run \in [Run -> RunStatus] /\ engine \in [Run -> EngineStatus]
         /\ faults \in Nat
         /\ MaxFaults \in Nat /\ MaxAttempts \in Nat /\ RunOf \in [Command -> Run]
         /\ \A c \in Command : /\ cmd[c].attempts \in Nat /\ cmd[c].token \in Nat
                               /\ cmd[c].status \in {"absent", "pending", "delivering",
                                                     "delivered", "failed"}
         /\ \A w \in Worker, c \in Command :
              job[w][c].attempts \in Nat /\ job[w][c].token \in Nat /\ job[w][c].pc \in Pc
<1>1. /\ cmd \in Commands /\ LeaseColumns /\ job \in Jobs
      /\ run \in [Run -> RunStatus] /\ engine \in [Run -> EngineStatus]
      /\ faults \in Nat
      /\ MaxFaults \in Nat /\ MaxAttempts \in Nat /\ RunOf \in [Command -> Run]
  BY ConstantsAssumption DEF TypeOK, Commands, Jobs, LeaseColumns
<1>2. \A c \in Command : /\ cmd[c].attempts \in Nat /\ cmd[c].token \in Nat
                         /\ cmd[c].status \in {"absent", "pending", "delivering",
                                               "delivered", "failed"}
  BY <1>1 DEF Commands, CommandRow
<1>3. \A w \in Worker, c \in Command :
        job[w][c].attempts \in Nat /\ job[w][c].token \in Nat /\ job[w][c].pc \in Pc
  BY <1>1 DEF Jobs, Attempt, Pc
<1> QED
  BY <1>1, <1>2, <1>3

\* A command that somebody attempts is in the queue and its run exists.
LEMMA AttemptedExists ==
  ASSUME IInv, NEW w \in Worker, NEW c \in Command, job[w][c].pc # "idle"
  PROVE  /\ cmd[c].status # "absent" /\ cmd[c].token > 0
         /\ run[RunOf[c]] # "absent"
<1>1. cmd[c].token \in Nat /\ job[w][c].token \in 1..cmd[c].token
  BY TypeFacts DEF IInv, LeaseInv, LeaseAt
<1> QED
  BY <1>1 DEF IInv, LeaseInv, LeaseAt, QueueInv

\* Only a command that is not yet in the queue is inserted.
LEMMA InsertsNew ==
  ASSUME IInv, NEW c \in Command,
         EnqueueCommand(c) \/ \E r \in Run : Enqueue(r, c)
  PROVE  /\ cmd[c].status = "absent" /\ UNCHANGED job
         /\ \A w \in Worker : job[w][c].pc = "idle"
<1>1. cmd[c].status = "absent"
  BY DEF EnqueueCommand, Enqueue, IInv, QueueAgreesWithRun
<1> QED
  BY <1>1, AttemptedExists DEF EnqueueCommand, Enqueue

\* The new row of an insertion, for both callers.
LEMMA InsertedRow ==
  ASSUME IInv, NEW c \in Command,
         EnqueueCommand(c) \/ \E r \in Run : Enqueue(r, c)
  PROVE  /\ cmd'[c].status = "pending" /\ cmd'[c].attempts = 0 /\ cmd'[c].token = 0
         /\ \A d \in Command \ {c} : cmd'[d] = cmd[d]
<1>1. PICK due \in BOOLEAN : InsertCommand(c, due)
  BY DEF EnqueueCommand, Enqueue
<1>2. cmd \in Commands /\ LeaseColumns
  BY TypeFacts DEF IInv
<1> QED
  BY <1>1, <1>2, InsertEffect

\* The steps of an attempt, by what they do to the queue.
Moves(w, c) == Execute(w, c) \/ ExecuteFails(w, c) \/ Mark(w, c) \/ MarkFails(w, c)
Settles(w, c) == Deliver(w, c) \/ Retry(w, c) \/ FailCommand(w, c)
Elsewhere ==
  \/ \E w \in Worker : Restart(w)
  \/ \E r \in Run :
       EngineWaits(r) \/ EngineEnds(r) \/ Poll(r) \/ MarkPolled(r) \/ PollLost(r)
  \/ UNCHANGED vars

\* A move keeps the attempt's number and token and does not touch the queue.
LEMMA MoveEffect ==
  ASSUME IInv, NEW w \in Worker, NEW c \in Command, Moves(w, c)
  PROVE  /\ UNCHANGED <<cmd, faults>>
         /\ job[w][c].pc # "idle" /\ job'[w][c].pc # "idle"
         /\ \A v \in Worker, d \in Command :
              /\ job'[v][d].attempts = job[v][d].attempts
              /\ job'[v][d].token = job[v][d].token
              /\ v # w \/ d # c => job'[v][d] = job[v][d]
<1>1. PICK pc \in Pc \ {"idle"} : Goto(w, c, pc)
  BY DEF Moves, Execute, ExecuteFails, Mark, MarkFails, Pc
<1>2. job \in Jobs
  BY TypeFacts DEF IInv
<1>3. UNCHANGED <<cmd, faults>> /\ job[w][c].pc # "idle"
  BY DEF Moves, Execute, ExecuteFails, Mark, MarkFails
<1>4. \A v \in Worker, d \in Command :
        job'[v][d] = IF v = w /\ d = c
                     THEN [pc |-> pc, attempts |-> job[w][c].attempts,
                           token |-> job[w][c].token]
                     ELSE job[v][d]
  BY <1>1, <1>2, GotoEffect
<1> QED
  BY <1>1, <1>3, <1>4

\* A settlement ends one attempt.
LEMMA SettledAttempt ==
  ASSUME IInv, NEW w \in Worker, NEW c \in Command, Settles(w, c)
  PROVE  /\ UNCHANGED faults /\ job[w][c].pc \in {"deliver", "broken"}
         /\ \A v \in Worker, d \in Command :
              job'[v][d] = IF v = w /\ d = c THEN Idle ELSE job[v][d]
<1>1. job \in Jobs
  BY TypeFacts DEF IInv
<1>2. UNCHANGED faults /\ job[w][c].pc \in {"deliver", "broken"} /\ Finish(w, c)
  BY DEF Settles, Deliver, Retry, FailCommand
<1> QED
  BY <1>1, <1>2, FinishEffect

\* If that attempt holds the lease, its settlement settles the row.
LEMMA SettlesEffect ==
  ASSUME IInv, NEW w \in Worker, NEW c \in Command, Settles(w, c)
  PROVE  /\ \A d \in Command \ {c} : cmd'[d] = cmd[d]
         /\ ~Holds(w, c) => cmd'[c] = cmd[c]
         /\ Holds(w, c) =>
              /\ cmd'[c].attempts = cmd[c].attempts /\ cmd'[c].token = cmd[c].token
              /\ cmd'[c].leased = FALSE
              /\ \/ Deliver(w, c) /\ cmd'[c].status = "delivered"
                 \/ Retry(w, c) /\ cmd'[c].status = "pending"
                 \/ FailCommand(w, c) /\ cmd'[c].status = "failed"
<1>1. cmd \in Commands /\ LeaseColumns
  BY TypeFacts DEF IInv
<1>4. PICK status \in {"pending", "delivered", "failed"} :
        /\ SettleCommand(w, c, status)
        /\ \/ Deliver(w, c) /\ status = "delivered"
           \/ Retry(w, c) /\ status = "pending"
           \/ FailCommand(w, c) /\ status = "failed"
  BY DEF Settles, Deliver, Retry, FailCommand
<1>5. \A d \in Command :
        cmd'[d] = IF d = c /\ Holds(w, c) THEN SettledRow(c, status) ELSE cmd[d]
  BY <1>1, <1>4, SettleEffect
<1> QED
  BY <1>4, <1>5 DEF SettledRow

--------------------------------------------------------------------------------
(* Each part of the invariant is preserved *)

\* A step that keeps the numbers of a row and of the attempts that survive it
\* keeps the lease invariant of the row.
LEMMA LeaseKept ==
  ASSUME IInv, NEW c \in Command,
         cmd'[c].attempts = cmd[c].attempts, cmd'[c].token = cmd[c].token,
         \/ cmd'[c].status = cmd[c].status
         \/ cmd[c].status = "delivering" /\ cmd'[c].status # "absent",
         \A v \in Worker :
           job'[v][c].pc # "idle" =>
             /\ job[v][c].pc # "idle"
             /\ job'[v][c].attempts = job[v][c].attempts
             /\ job'[v][c].token = job[v][c].token
  PROVE  LeaseAt(c)'
<1>1. LeaseAt(c)
  BY DEF IInv, LeaseInv
<1>2. ASSUME NEW w \in Worker, job'[w][c].pc # "idle"
      PROVE  /\ job'[w][c].token \in 1..cmd'[c].token
             /\ job'[w][c].attempts = job'[w][c].token
             /\ \A v \in Worker \ {w} :
                  job'[v][c].pc # "idle" => job'[v][c].token # job'[w][c].token
  <2>1. /\ job[w][c].pc # "idle"
        /\ job'[w][c].attempts = job[w][c].attempts
        /\ job'[w][c].token = job[w][c].token
    BY <1>2
  <2>2. ASSUME NEW v \in Worker \ {w}, job'[v][c].pc # "idle"
        PROVE  job'[v][c].token # job'[w][c].token
    BY <1>1, <2>1, <2>2 DEF LeaseAt
  <2> QED
    BY <1>1, <2>1, <2>2 DEF LeaseAt
<1> QED
  BY <1>1, <1>2 DEF LeaseAt

\* Every step keeps the lease invariant: claims raise the token, settlements need it.
LEMMA StepLeaseInv == IInv /\ [Next]_vars => LeaseInv'
<1> SUFFICES ASSUME IInv, [Next]_vars, NEW c \in Command PROVE LeaseAt(c)'
  BY DEF LeaseInv
<1>0. LeaseAt(c) /\ cmd[c].token \in Nat
  BY TypeFacts DEF IInv, LeaseInv
<1>a. Idle.pc = "idle"
  BY DEF Idle
<1>1. ASSUME NEW d \in Command,
             EnqueueCommand(d) \/ \E r \in Run : Enqueue(r, d)
      PROVE  LeaseAt(c)'
  BY <1>0, <1>1, InsertsNew, InsertedRow DEF LeaseAt
<1>2. ASSUME NEW d \in Command, LeaseExpires(d) \/ BecomesAvailable(d) PROVE LeaseAt(c)'
  <2>1. UNCHANGED job
    BY <1>2 DEF LeaseExpires, BecomesAvailable
  <2>2. /\ cmd'[c].status = cmd[c].status
        /\ cmd'[c].attempts = cmd[c].attempts /\ cmd'[c].token = cmd[c].token
    BY <1>2, TypeFacts, TimeEffect DEF IInv
  <2> QED
    BY LeaseKept, <2>1, <2>2
<1>3. ASSUME NEW w \in Worker, NEW S \in SUBSET Command, Claim(w, S) PROVE LeaseAt(c)'
  <2>1. \A d \in Command : job[w][d].pc = "idle"
    BY <1>3 DEF Claim
  <2>2. cmd'[c] = IF c \in S THEN LeasedRow(w, c) ELSE cmd[c]
    BY <1>3, TypeFacts, ClaimEffect DEF IInv
  <2>3. \/ job' = job
        \/ \A v \in Worker :
              job'[v][c] = IF v # w THEN job[v][c]
                           ELSE IF c \in S
                           THEN [pc |-> "execute", attempts |-> cmd[c].attempts + 1,
                                 token |-> FreshToken(c)]
                           ELSE Idle
    BY <1>3, TypeFacts, ClaimEffect DEF IInv
  <2>4. CASE c \in S
    <3>1. /\ cmd'[c].attempts = cmd[c].token + 1 /\ cmd'[c].token = cmd[c].token + 1
          /\ cmd'[c].status = "delivering"
      BY <1>0, <2>2, <2>4 DEF LeasedRow, FreshToken, LeaseAt
    <3>2. \/ job' = job
          \/ /\ \A v \in Worker \ {w} : job'[v][c] = job[v][c]
             /\ job'[w][c].attempts = cmd[c].token + 1
             /\ job'[w][c].token = cmd[c].token + 1
      BY <1>0, <2>3, <2>4 DEF FreshToken, LeaseAt
    <3> QED
      BY <1>0, <3>1, <3>2 DEF LeaseAt
  <2>5. CASE c \notin S
    BY <1>0, <1>a, <2>1, <2>2, <2>3, <2>5 DEF LeaseAt
  <2> QED
    BY <2>4, <2>5
<1>4. ASSUME NEW w \in Worker, NEW d \in Command, Moves(w, d) PROVE LeaseAt(c)'
  <2>1. /\ cmd'[c] = cmd[c]
        /\ \A v \in Worker :
             /\ job'[v][c].attempts = job[v][c].attempts
             /\ job'[v][c].token = job[v][c].token
             /\ job'[v][c].pc # "idle" => job[v][c].pc # "idle"
    BY <1>4, MoveEffect
  <2> QED
    BY LeaseKept, <2>1
<1>5. ASSUME NEW w \in Worker, NEW d \in Command, Settles(w, d) PROVE LeaseAt(c)'
  <2>1. \A v \in Worker, e \in Command :
          job'[v][e] = IF v = w /\ e = d THEN Idle ELSE job[v][e]
    BY <1>5, SettledAttempt
  <2>2. \A v \in Worker : job'[v][c] = job[v][c] \/ job'[v][c] = Idle
    BY <2>1
  <2>3. /\ cmd'[c].attempts = cmd[c].attempts /\ cmd'[c].token = cmd[c].token
        /\ \/ cmd'[c].status = cmd[c].status
           \/ cmd[c].status = "delivering" /\ cmd'[c].status # "absent"
    <3>1. CASE c = d /\ Holds(w, d)
      BY <1>5, <3>1, SettlesEffect DEF Holds
    <3>2. CASE c # d \/ ~Holds(w, d)
      BY <1>5, <3>2, SettlesEffect
    <3> QED
      BY <3>1, <3>2
  <2> QED
    BY <1>a, LeaseKept, <2>2, <2>3
<1>6. ASSUME NEW w \in Worker, NEW d \in Command, SettlementLost(w, d) \/ Stop(w)
      PROVE  LeaseAt(c)'
  <2>1. UNCHANGED cmd
    BY <1>6 DEF SettlementLost, Stop
  <2>2. \A v \in Worker : job'[v][c] = job[v][c] \/ job'[v][c] = Idle
    BY <1>6, TypeFacts, FinishEffect, StopEffect DEF SettlementLost, IInv
  <2> QED
    BY <1>a, LeaseKept, <2>1, <2>2
<1>7. CASE Elsewhere
  <2>1. UNCHANGED <<cmd, job>>
    BY <1>7 DEF Elsewhere, Restart, EngineWaits, EngineEnds, Poll, MarkPolled, PollLost, vars
  <2> QED
    BY LeaseKept, <2>1
<1> QED
  BY <1>1, <1>2, <1>3, <1>4, <1>5, <1>6, <1>7 DEF Next, Moves, Settles, Elsewhere

\* An attempt that still holds its lease after a step keeps it from being lost.
LEMMA LostBefore ==
  ASSUME NEW c \in Command, cmd'[c] = cmd[c],
         \A v \in Worker :
           Holds(v, c) /\ job[v][c].pc # "idle" =>
             job'[v][c].pc # "idle" /\ job'[v][c].token = job[v][c].token,
         Lost(c)'
  PROVE  Lost(c)
BY DEF Lost, Holds

\* Every step keeps the attempts within the budget and the faults that exceeded it.
LEMMA StepBudgetInv == IInv /\ [Next]_vars => BudgetInv'
<1> SUFFICES ASSUME IInv, [Next]_vars, NEW c \in Command PROVE BudgetAt(c)'
  BY DEF BudgetInv
<1>0. /\ BudgetAt(c) /\ LeaseAt(c) /\ cmd[c].attempts \in Nat
      /\ faults \in Nat /\ MaxAttempts \in Nat /\ MaxAttempts > 0
  BY TypeFacts, ConstantsAssumption DEF IInv, BudgetInv, LeaseInv
<1>a. Idle.pc = "idle"
  BY DEF Idle
<1>1. ASSUME NEW d \in Command,
             EnqueueCommand(d) \/ \E r \in Run : Enqueue(r, d)
      PROVE  BudgetAt(c)'
  <2>1. UNCHANGED <<job, faults>>
    BY <1>1 DEF EnqueueCommand, Enqueue
  <2>2. CASE c = d
    BY <1>0, <1>1, <2>1, <2>2, InsertedRow DEF BudgetAt
  <2>3. CASE c # d
    <3>1. cmd'[c] = cmd[c]
      BY <1>1, <2>3, InsertedRow
    <3> QED
      BY <1>0, <2>1, <3>1, LostBefore DEF BudgetAt
  <2> QED
    BY <2>2, <2>3
<1>2. ASSUME NEW d \in Command, LeaseExpires(d) PROVE BudgetAt(c)'
  <2>1. /\ cmd'[c].status = cmd[c].status /\ cmd'[c].attempts = cmd[c].attempts
        /\ c # d => cmd'[c] = cmd[c]
    BY <1>2, TypeFacts, TimeEffect DEF IInv
  <2>2. /\ UNCHANGED job /\ faults' \in Nat /\ faults' >= faults
        /\ (\E w \in Worker : Holds(w, d) /\ job[w][d].pc # "idle") => faults' = faults + 1
    BY <1>0, <1>2 DEF LeaseExpires, Fault
  <2>3. CASE c = d
    BY <1>0, <2>1, <2>2, <2>3 DEF BudgetAt, Lost
  <2>4. CASE c # d
    BY <1>0, <2>1, <2>2, <2>4, LostBefore DEF BudgetAt
  <2> QED
    BY <2>3, <2>4
<1>3. ASSUME NEW d \in Command, BecomesAvailable(d) PROVE BudgetAt(c)'
  <2>1. /\ cmd'[c].status = cmd[c].status /\ cmd'[c].attempts = cmd[c].attempts
        /\ c # d => cmd'[c] = cmd[c]
    BY <1>3, TypeFacts, TimeEffect DEF IInv
  <2>2. UNCHANGED <<job, faults>> /\ cmd[d].status = "pending"
    BY <1>3 DEF BecomesAvailable
  <2>3. CASE c = d
    BY <1>0, <2>1, <2>2, <2>3 DEF BudgetAt
  <2>4. CASE c # d
    BY <1>0, <2>1, <2>2, <2>4, LostBefore DEF BudgetAt
  <2> QED
    BY <2>3, <2>4
<1>4. ASSUME NEW w \in Worker, NEW S \in SUBSET Command, Claim(w, S) PROVE BudgetAt(c)'
  <2>1. job[w][c].pc = "idle" /\ S \subseteq Claimable
    BY <1>4 DEF Claim, OldestBatch
  <2>2. cmd'[c] = IF c \in S THEN LeasedRow(w, c) ELSE cmd[c]
    BY <1>4, TypeFacts, ClaimEffect DEF IInv
  <2>3. \/ /\ UNCHANGED faults
           /\ \A v \in Worker :
                job'[v][c] = IF v # w THEN job[v][c]
                             ELSE IF c \in S
                             THEN [pc |-> "execute", attempts |-> cmd[c].attempts + 1,
                                   token |-> FreshToken(c)]
                             ELSE Idle
        \/ Fault /\ job' = job
    BY <1>4, TypeFacts, ClaimEffect DEF IInv
  <2>4. faults' \in Nat /\ faults' >= faults
    BY <1>0, <2>3 DEF Fault
  <2>5. CASE c \in S
    <3>1. cmd[c].attempts + 1 <= MaxAttempts + faults
      BY <1>0, <2>1, <2>5 DEF Claimable, BudgetAt, Lost
    <3>2. /\ cmd'[c].status = "delivering" /\ cmd'[c].attempts = cmd[c].attempts + 1
          /\ cmd'[c].leased = TRUE /\ cmd'[c].owner = w /\ cmd'[c].token = FreshToken(c)
      BY <2>2, <2>5 DEF LeasedRow
    <3>3. CASE Fault
      BY <1>0, <2>4, <3>1, <3>2, <3>3 DEF BudgetAt, Fault
    <3>4. CASE ~Fault
      <4>1. job'[w][c].pc = "execute" /\ job'[w][c].token = FreshToken(c)
        BY <2>3, <2>5, <3>4
      <4>2. ~Lost(c)'
        BY <3>2, <4>1 DEF Lost, Holds
      <4> QED
        BY <1>0, <2>4, <3>1, <3>2, <4>2 DEF BudgetAt
    <3> QED
      BY <3>3, <3>4
  <2>6. CASE c \notin S
    <3>1. \A v \in Worker : job[v][c].pc # "idle" => job'[v][c] = job[v][c]
      BY <2>1, <2>3
    <3>2. Lost(c)' => Lost(c)
      BY <2>2, <2>6, <3>1, LostBefore
    <3> QED
      BY <1>0, <2>2, <2>4, <2>6, <3>2 DEF BudgetAt
  <2> QED
    BY <2>5, <2>6
<1>5. ASSUME NEW w \in Worker, NEW d \in Command, Moves(w, d) PROVE BudgetAt(c)'
  <2>1. cmd'[c] = cmd[c] /\ UNCHANGED faults
    BY <1>5, MoveEffect
  <2>2. \A v \in Worker : job[v][c].pc # "idle" =>
          job'[v][c].pc # "idle" /\ job'[v][c].token = job[v][c].token
    BY <1>5, MoveEffect
  <2> QED
    BY <1>0, <2>1, <2>2, LostBefore DEF BudgetAt
<1>6. ASSUME NEW w \in Worker, NEW d \in Command, Settles(w, d) PROVE BudgetAt(c)'
  <2>1. UNCHANGED faults /\ job[w][d].pc # "idle"
    BY <1>6, SettledAttempt
  <2>0. \A v \in Worker, e \in Command :
          job'[v][e] = IF v = w /\ e = d THEN Idle ELSE job[v][e]
    BY <1>6, SettledAttempt
  <2>2. \A v \in Worker : v # w \/ c # d => job'[v][c] = job[v][c]
    BY <2>0
  <2>3. CASE c = d /\ Holds(w, d)
    <3>1. cmd'[c].attempts = cmd[c].attempts /\ job[w][c].attempts = cmd[c].attempts
      <4>1. cmd'[c].attempts = cmd[c].attempts
        BY <1>6, <2>3, SettlesEffect
      <4> QED
        BY <1>0, <2>1, <2>3, <4>1 DEF LeaseAt, Holds
    <3>2. \/ cmd'[c].status = "delivered"
          \/ cmd'[c].status = "pending" /\ ~LastAttempt(w, c)
          \/ cmd'[c].status = "failed" /\ LastAttempt(w, c)
      BY <1>6, <2>3, SettlesEffect DEF Retry, FailCommand
    <3> QED
      BY <1>0, <2>1, <3>1, <3>2 DEF BudgetAt, LastAttempt
  <2>4. CASE c # d \/ ~Holds(w, d)
    <3>1. cmd'[c] = cmd[c]
      BY <1>6, <2>4, SettlesEffect
    <3>2. \A v \in Worker : Holds(v, c) => job'[v][c] = job[v][c]
      BY <2>2, <2>4
    <3> QED
      BY <1>0, <2>1, <3>1, <3>2, LostBefore DEF BudgetAt
  <2> QED
    BY <2>3, <2>4
<1>7. ASSUME NEW w \in Worker, NEW d \in Command, SettlementLost(w, d) \/ Stop(w)
      PROVE  BudgetAt(c)'
  <2>1. UNCHANGED cmd /\ faults' = faults + 1
    BY <1>7 DEF SettlementLost, Stop, Fault
  <2> QED
    BY <1>0, <2>1 DEF BudgetAt
<1>8. CASE Elsewhere
  <2>1. UNCHANGED <<cmd, job>> /\ faults' \in Nat /\ faults' >= faults
    BY <1>0, <1>8
    DEF Elsewhere, Restart, EngineWaits, EngineEnds, Poll, MarkPolled, PollLost, Fault, vars
  <2>2. Lost(c)' => Lost(c)
    BY <2>1, LostBefore
  <2> QED
    BY <1>0, <2>1, <2>2 DEF BudgetAt
<1> QED
  BY <1>1, <1>2, <1>3, <1>4, <1>5, <1>6, <1>7, <1>8
  DEF Next, Moves, Settles, Elsewhere

--------------------------------------------------------------------------------
(* How a step can change a run, a command, an execution or an observation *)

\* A run changes when it is enqueued, or, unless it has ended, by the mark of an
\* attempt, by the failure of a command, or by the reconciler.
LEMMA RunChange ==
  ASSUME IInv, [Next]_vars, NEW r \in Run, run'[r] # run[r]
  PROVE  \/ \E c \in Command : Enqueue(r, c) /\ run[r] = "absent" /\ run'[r] = "pending"
         \/ /\ ~Terminal(r) /\ run[r] # "absent"
            /\ \/ \E w \in Worker, c \in Command :
                    /\ RunOf[c] = r /\ job[w][c].pc = "mark"
                    /\ run'[r] = MarkStatus(c)
                    /\ UNCHANGED <<cmd, engine, observed>>
               \/ \E w \in Worker, c \in Command :
                    /\ RunOf[c] = r /\ FailCommand(w, c) /\ Holds(w, c)
                    /\ run'[r] = "failed"
               \/ MarkPolled(r) /\ run'[r] = observed[r]
<1>0. run \in [Run -> RunStatus] /\ RunOf \in [Command -> Run]
      /\ observed \in [Run -> {"nothing", "succeeded", "failed"}]
  BY TypeFacts DEF IInv, TypeOK
<1>1. ASSUME NEW q \in Run, NEW c \in Command, Enqueue(q, c)
      PROVE  q = r /\ run[r] = "absent" /\ run'[r] = "pending"
  BY <1>0, <1>1 DEF Enqueue
<1>2. ASSUME NEW w \in Worker, NEW c \in Command, Mark(w, c) \/ MarkFails(w, c)
      PROVE  /\ ~Terminal(r) /\ run[r] # "absent"
             /\ RunOf[c] = r /\ job[w][c].pc = "mark"
             /\ run'[r] = MarkStatus(c)
             /\ UNCHANGED <<cmd, engine, observed>>
  <2>1. job[w][c].pc = "mark" /\ MarkRun(RunOf[c], MarkStatus(c))
        /\ UNCHANGED <<cmd, engine, observed>>
    BY <1>2 DEF Mark, MarkFails
  <2>2. RunOf[c] = r /\ run'[r] = MarkStatus(c) /\ ~Terminal(r)
    BY <1>0, <2>1, MarkRunEffect DEF MarkStatus, RunStatus
  <2> QED
    BY <2>1, <2>2, AttemptedExists
<1>3. ASSUME NEW w \in Worker, NEW c \in Command, FailCommand(w, c)
      PROVE  /\ ~Terminal(r) /\ run[r] # "absent"
             /\ RunOf[c] = r /\ Holds(w, c) /\ run'[r] = "failed"
  <2>1. Holds(w, c) /\ MarkRun(RunOf[c], "failed") /\ job[w][c].pc # "idle"
    BY <1>3 DEF FailCommand, FailRun
  <2>2. RunOf[c] = r /\ run'[r] = "failed" /\ ~Terminal(r)
    BY <1>0, <2>1, MarkRunEffect DEF RunStatus
  <2> QED
    BY <2>1, <2>2, AttemptedExists
<1>4. ASSUME NEW q \in Run, MarkPolled(q)
      PROVE  q = r /\ ~Terminal(r) /\ run[r] # "absent" /\ run'[r] = observed[r]
  <2>1. observed[q] \in {"succeeded", "failed"} /\ MarkRun(q, observed[q])
    BY <1>0, <1>4 DEF MarkPolled
  <2>2. q = r /\ run'[r] = observed[r] /\ ~Terminal(r)
    BY <1>0, <2>1, MarkRunEffect DEF RunStatus
  <2> QED
    BY <2>1, <2>2 DEF IInv, QueueInv
<1>5. ASSUME UNCHANGED run PROVE FALSE
  BY <1>5
<1>6. \/ \E q \in Run, c \in Command : Enqueue(q, c)
      \/ \E w \in Worker, c \in Command : Mark(w, c) \/ MarkFails(w, c)
      \/ \E w \in Worker, c \in Command : FailCommand(w, c)
      \/ \E q \in Run : MarkPolled(q)
      \/ UNCHANGED run
  BY DEF Next, vars, EnqueueCommand, LeaseExpires, BecomesAvailable, Claim, Execute,
         ExecuteFails, Deliver, Retry, SettlementLost, Stop, Restart, EngineWaits,
         EngineEnds, Poll, PollLost
<1>7. CASE \E q \in Run, c \in Command : Enqueue(q, c)
  BY <1>1, <1>7
<1>8. CASE \E w \in Worker, c \in Command : Mark(w, c) \/ MarkFails(w, c)
  BY <1>2, <1>8
<1>9. CASE \E w \in Worker, c \in Command : FailCommand(w, c)
  BY <1>3, <1>9
<1>10. CASE \E q \in Run : MarkPolled(q)
  BY <1>4, <1>10
<1> QED
  BY <1>5, <1>6, <1>7, <1>8, <1>9, <1>10

\* A command changes its status when it is inserted, claimed or settled, and
\* its attempts never decrease.
LEMMA CommandChange ==
  ASSUME IInv, [Next]_vars, NEW c \in Command
  PROVE  \/ /\ cmd[c].status = "absent" /\ cmd'[c].status = "pending"
            /\ EnqueueCommand(c) \/ \E r \in Run : Enqueue(r, c)
         \/ /\ cmd[c].status \in {"pending", "delivering"}
            /\ cmd'[c].status = "delivering" /\ cmd'[c].attempts >= cmd[c].attempts
         \/ /\ cmd[c].status = "delivering" /\ cmd'[c].attempts = cmd[c].attempts
            /\ \E w \in Worker :
                 /\ Settles(w, c) /\ Holds(w, c)
                 /\ \/ Deliver(w, c) /\ cmd'[c].status = "delivered"
                    \/ Retry(w, c) /\ cmd'[c].status = "pending"
                    \/ FailCommand(w, c) /\ cmd'[c].status = "failed"
         \/ cmd'[c].status = cmd[c].status /\ cmd'[c].attempts = cmd[c].attempts
<1>0. cmd[c].attempts \in Nat
  BY TypeFacts DEF IInv
<1>1. ASSUME NEW d \in Command,
             EnqueueCommand(d) \/ \E r \in Run : Enqueue(r, d)
      PROVE  \/ c = d /\ cmd[c].status = "absent" /\ cmd'[c].status = "pending"
             \/ c # d /\ cmd'[c] = cmd[c]
  BY <1>1, InsertsNew, InsertedRow
<1>2. ASSUME NEW d \in Command, LeaseExpires(d) \/ BecomesAvailable(d)
      PROVE  cmd'[c].status = cmd[c].status /\ cmd'[c].attempts = cmd[c].attempts
  BY <1>2, TypeFacts, TimeEffect DEF IInv
<1>3. ASSUME NEW w \in Worker, NEW S \in SUBSET Command, Claim(w, S)
      PROVE  \/ cmd'[c] = cmd[c]
             \/ /\ cmd[c].status \in {"pending", "delivering"}
                /\ cmd'[c].status = "delivering" /\ cmd'[c].attempts = cmd[c].attempts + 1
  <2>1. S \subseteq Claimable
    BY <1>3 DEF Claim, OldestBatch
  <2>2. cmd'[c] = IF c \in S THEN LeasedRow(w, c) ELSE cmd[c]
    BY <1>3, TypeFacts, ClaimEffect DEF IInv
  <2> QED
    BY <2>1, <2>2 DEF Claimable, LeasedRow
<1>4. ASSUME NEW w \in Worker, NEW d \in Command, Settles(w, d)
      PROVE  \/ cmd'[c] = cmd[c]
             \/ /\ c = d /\ Holds(w, c) /\ cmd[c].status = "delivering"
                /\ cmd'[c].attempts = cmd[c].attempts
                /\ \/ Deliver(w, c) /\ cmd'[c].status = "delivered"
                   \/ Retry(w, c) /\ cmd'[c].status = "pending"
                   \/ FailCommand(w, c) /\ cmd'[c].status = "failed"
  <2>1. CASE c = d /\ Holds(w, d)
    BY <1>4, <2>1, SettlesEffect DEF Holds
  <2>2. CASE c # d \/ ~Holds(w, d)
    BY <1>4, <2>2, SettlesEffect
  <2> QED
    BY <2>1, <2>2
<1>5. \/ \E d \in Command : EnqueueCommand(d) \/ \E r \in Run : Enqueue(r, d)
      \/ \E d \in Command : LeaseExpires(d) \/ BecomesAvailable(d)
      \/ \E w \in Worker, S \in SUBSET Command : Claim(w, S)
      \/ \E w \in Worker, d \in Command : Settles(w, d)
      \/ UNCHANGED cmd
  BY DEF Next, vars, Settles, Execute, ExecuteFails, Mark, MarkFails, SettlementLost,
         Stop, Restart, EngineWaits, EngineEnds, Poll, MarkPolled, PollLost
<1>6. CASE \E d \in Command : EnqueueCommand(d) \/ \E r \in Run : Enqueue(r, d)
  BY <1>1, <1>6
<1>7. CASE \E d \in Command : LeaseExpires(d) \/ BecomesAvailable(d)
  BY <1>2, <1>7
<1>8. CASE \E w \in Worker, S \in SUBSET Command : Claim(w, S)
  <2>1. PICK w \in Worker, S \in SUBSET Command : Claim(w, S)
    BY <1>8
  <2> QED
    BY <1>0, <1>3, <2>1
<1>9. CASE \E w \in Worker, d \in Command : Settles(w, d)
  BY <1>4, <1>9
<1> QED
  BY <1>5, <1>6, <1>7, <1>8, <1>9

\* An execution begins only by the start command of its run, and its end is final.
LEMMA ExecutionChange ==
  ASSUME IInv, [Next]_vars, NEW r \in Run, engine'[r] # engine[r]
  PROVE  /\ UNCHANGED <<run, cmd, observed>>
         /\ \/ /\ engine[r] = "none" /\ engine'[r] = "active" /\ run[r] # "absent"
            \/ engine[r] = "waiting" /\ engine'[r] = "active"
            \/ engine[r] = "active" /\ engine'[r] = "waiting"
            \/ engine[r] = "active" /\ engine'[r] \in {"success", "failure", "corrupt"}
<1>0. engine \in [Run -> EngineStatus] /\ RunOf \in [Command -> Run]
  BY TypeFacts DEF IInv
<1>1. ASSUME NEW w \in Worker, NEW c \in Command, Execute(w, c) \/ ExecuteFails(w, c)
      PROVE  /\ UNCHANGED <<run, cmd, observed>> /\ run[r] # "absent"
             /\ engine[r] \in {"none", "waiting"} /\ engine'[r] = "active"
  <2>1. UNCHANGED <<run, cmd, observed>> /\ job[w][c].pc # "idle" /\ EngineCall(c)
    BY <1>1 DEF Execute, ExecuteFails
  <2>2. r = RunOf[c] /\ engine[r] \in {"none", "waiting"} /\ engine'[r] = "active"
    BY <1>0, <2>1 DEF EngineCall
  <2> QED
    BY <2>1, <2>2, AttemptedExists
<1>2. ASSUME NEW q \in Run, EngineWaits(q) \/ EngineEnds(q)
      PROVE  /\ UNCHANGED <<run, cmd, observed>>
             /\ \/ engine[r] = "active" /\ engine'[r] = "waiting"
                \/ engine[r] = "active" /\ engine'[r] \in {"success", "failure", "corrupt"}
  BY <1>0, <1>2 DEF EngineWaits, EngineEnds
<1>3. \/ \E w \in Worker, c \in Command : Execute(w, c) \/ ExecuteFails(w, c)
      \/ \E q \in Run : EngineWaits(q) \/ EngineEnds(q)
  BY DEF Next, vars, Enqueue, EnqueueCommand, LeaseExpires, BecomesAvailable, Claim, Mark,
         MarkFails, Deliver, Retry, FailCommand, SettlementLost, Stop, Restart, Poll,
         MarkPolled, PollLost
<1> QED
  BY <1>1, <1>2, <1>3

\* Terminal runs are left alone and no run disappears.
LEMMA RunKept ==
  ASSUME IInv, [Next]_vars, NEW r \in Run
  PROVE  /\ Terminal(r) => run'[r] = run[r]
         /\ run[r] # "absent" => run'[r] # "absent"
         /\ run[r] \notin {"absent", "pending"} => run'[r] # "pending"
<1>1. observed[r] \in {"nothing", "succeeded", "failed"}
  BY DEF IInv, TypeOK
<1> QED
  BY <1>1, RunChange DEF Terminal, TerminalStatus, MarkStatus, MarkPolled

\* What the reconciler holds it has just polled or already held.
LEMMA ObservedChange ==
  ASSUME IInv, [Next]_vars, NEW r \in Run, observed'[r] # "nothing"
  PROVE  \/ observed'[r] = observed[r]
         \/ /\ Poll(r)
            /\ observed'[r] = IF engine[r] = "success" THEN "succeeded" ELSE "failed"
<1>0. observed \in [Run -> {"nothing", "succeeded", "failed"}]
  BY DEF IInv, TypeOK
<1>1. ASSUME NEW q \in Run, Poll(q)
      PROVE  \/ observed'[r] = observed[r]
             \/ /\ Poll(r)
                /\ observed'[r] = IF engine[r] = "success" THEN "succeeded" ELSE "failed"
  BY <1>0, <1>1 DEF Poll
<1>2. ASSUME NEW q \in Run, MarkPolled(q) \/ PollLost(q)
      PROVE  observed'[r] = observed[r]
  BY <1>0, <1>2 DEF MarkPolled, PollLost
<1>3. \/ \E q \in Run : Poll(q)
      \/ \E q \in Run : MarkPolled(q) \/ PollLost(q)
      \/ UNCHANGED observed
  BY DEF Next, vars, Enqueue, EnqueueCommand, LeaseExpires, BecomesAvailable, Claim,
         Execute, ExecuteFails, Mark, MarkFails, Deliver, Retry, FailCommand,
         SettlementLost, Stop, Restart, EngineWaits, EngineEnds
<1> QED
  BY <1>1, <1>2, <1>3

\* Every step keeps the queue and the runs in agreement.
LEMMA StepQueueInv == IInv /\ [Next]_vars => QueueInv' /\ QueueAgreesWithRun'
<1> SUFFICES ASSUME IInv, [Next]_vars PROVE QueueInv' /\ QueueAgreesWithRun'
  OBVIOUS
<1>0. /\ QueueInv /\ QueueAgreesWithRun /\ RunOf \in [Command -> Run]
      /\ run \in [Run -> RunStatus]
  BY TypeFacts DEF IInv
<1>1. ASSUME NEW c \in Command, cmd'[c].status # "absent"
      PROVE  run'[RunOf[c]] # "absent"
  <2>1. CASE cmd[c].status # "absent"
    BY <1>0, <2>1, RunKept DEF QueueInv
  <2>2. CASE cmd[c].status = "absent"
    <3>1. EnqueueCommand(c) \/ \E r \in Run : Enqueue(r, c)
      BY <1>1, <2>2, CommandChange
    <3>2. CASE EnqueueCommand(c)
      BY <1>0, <3>2, RunKept DEF EnqueueCommand
    <3>3. CASE \E r \in Run : Enqueue(r, c)
      BY <1>0, <3>3 DEF Enqueue, IsStart
    <3> QED
      BY <3>1, <3>2, <3>3
  <2> QED
    BY <2>1, <2>2
<1>2. ASSUME NEW r \in Run, observed'[r] # "nothing"
      PROVE  run'[r] # "absent"
  <2>1. run[r] # "absent"
    BY <1>0, <1>2, ObservedChange DEF QueueInv, Poll
  <2> QED
    BY <2>1, RunKept
<1>3. ASSUME NEW r \in Run, NEW c \in Command, IsStart(c, r)
      PROVE  (run'[r] = "absent") = (cmd'[c].status = "absent")
  <2>1. (run[r] = "absent") = (cmd[c].status = "absent") /\ RunOf[c] = r /\ Kind[c] = "start"
    BY <1>0, <1>3 DEF QueueAgreesWithRun, IsStart
  <2>2. cmd'[c].status # "absent" => run'[r] # "absent"
    BY <1>1, <2>1
  <2>3. ASSUME run'[r] # "absent" PROVE cmd'[c].status # "absent"
    <3>1. CASE run[r] # "absent"
      BY <2>1, <3>1, CommandChange
    <3>2. CASE run[r] = "absent"
      <4>1. PICK d \in Command : Enqueue(r, d)
        BY <2>3, <3>2, RunChange
      <4>2. d = c
        BY <2>1, <4>1, ConstantsAssumption DEF Enqueue, IsStart
      <4> QED
        BY <4>1, <4>2, InsertedRow
    <3> QED
      BY <3>1, <3>2
  <2> QED
    BY <2>2, <2>3
<1>4. ASSUME NEW c \in Command, cmd'[c].status = "failed" PROVE Terminal(RunOf[c])'
  <2>1. CASE cmd[c].status = "failed"
    BY <1>0, <2>1, RunKept DEF QueueAgreesWithRun, Terminal
  <2>2. CASE cmd[c].status # "failed"
    <3>1. PICK w \in Worker : FailCommand(w, c) /\ Holds(w, c)
      BY <1>4, <2>2, CommandChange
    <3>2. MarkRun(RunOf[c], "failed") /\ RunOf[c] \in Run
      BY <1>0, <3>1 DEF FailCommand, FailRun
    <3> QED
      BY <1>0, <3>2, MarkRunEffect DEF RunStatus, Terminal, TerminalStatus
  <2> QED
    BY <2>1, <2>2
<1> QED
  BY <1>1, <1>2, <1>3, <1>4 DEF QueueInv, QueueAgreesWithRun, IsStart

\* How an attempt comes to the steps before its settlement.
LEMMA AttemptChange ==
  ASSUME IInv, [Next]_vars, NEW w \in Worker, NEW c \in Command
  PROVE  /\ job'[w][c].pc = "mark" =>
              job[w][c].pc = "mark" \/ Execute(w, c)
         /\ job'[w][c].pc = "deliver" =>
              job[w][c].pc = "deliver" \/ Mark(w, c)
<1>0. job \in Jobs /\ cmd \in Commands /\ LeaseColumns
  BY TypeFacts DEF IInv
<1>a. Idle.pc = "idle"
  BY DEF Idle
<1>1. ASSUME NEW v \in Worker, NEW d \in Command, Execute(v, d)
      PROVE  /\ job'[w][c].pc = "mark" => job[w][c].pc = "mark" \/ Execute(w, c)
             /\ job'[w][c].pc = "deliver" => job[w][c].pc = "deliver"
  <2>1. Goto(v, d, "mark")
    BY <1>1 DEF Execute
  <2> QED
    BY <1>0, <1>1, <2>1, GotoPc DEF Pc
<1>2. ASSUME NEW v \in Worker, NEW d \in Command, Mark(v, d)
      PROVE  /\ job'[w][c].pc = "mark" => job[w][c].pc = "mark"
             /\ job'[w][c].pc = "deliver" => job[w][c].pc = "deliver" \/ Mark(w, c)
  <2>1. Goto(v, d, "deliver")
    BY <1>2 DEF Mark
  <2> QED
    BY <1>0, <1>2, <2>1, GotoPc DEF Pc
<1>3. ASSUME NEW v \in Worker, NEW d \in Command, ExecuteFails(v, d) \/ MarkFails(v, d)
      PROVE  /\ job'[w][c].pc = "mark" => job[w][c].pc = "mark"
             /\ job'[w][c].pc = "deliver" => job[w][c].pc = "deliver"
  <2>1. Goto(v, d, "broken")
    BY <1>3 DEF ExecuteFails, MarkFails
  <2> QED
    BY <1>0, <2>1, GotoPc DEF Pc
<1>4. ASSUME NEW v \in Worker, NEW d \in Command, Settles(v, d) \/ SettlementLost(v, d)
      PROVE  job'[w][c].pc = job[w][c].pc \/ job'[w][c].pc = "idle"
  <2>1. Finish(v, d)
    BY <1>4 DEF Settles, Deliver, Retry, FailCommand, SettlementLost
  <2> QED
    BY <1>0, <1>a, <2>1, FinishEffect
<1>5. ASSUME NEW v \in Worker, Stop(v)
      PROVE  job'[w][c].pc = job[w][c].pc \/ job'[w][c].pc = "idle"
  BY <1>0, <1>a, <1>5, StopEffect
<1>6. ASSUME NEW v \in Worker, NEW S \in SUBSET Command, Claim(v, S)
      PROVE  job'[w][c].pc = job[w][c].pc \/ job'[w][c].pc \in {"idle", "execute"}
  <2>1. \/ \A u \in Worker, d \in Command :
             job'[u][d] = IF u # v THEN job[u][d]
                          ELSE IF d \in S
                          THEN [pc |-> "execute", attempts |-> cmd[d].attempts + 1,
                                token |-> FreshToken(d)]
                          ELSE Idle
        \/ job' = job
    BY <1>0, <1>6, ClaimEffect
  <2>2. CASE job' = job
    BY <2>2
  <2>3. CASE job' # job
    <3>1. job'[w][c] = IF w # v THEN job[w][c]
                       ELSE IF c \in S
                       THEN [pc |-> "execute", attempts |-> cmd[c].attempts + 1,
                             token |-> FreshToken(c)]
                       ELSE Idle
      BY <2>1, <2>3
    <3> QED
      BY <1>a, <3>1
  <2> QED
    BY <2>2, <2>3
<1>7. \/ \E v \in Worker, d \in Command : Execute(v, d)
      \/ \E v \in Worker, d \in Command : Mark(v, d)
      \/ \E v \in Worker, d \in Command : ExecuteFails(v, d) \/ MarkFails(v, d)
      \/ \E v \in Worker, d \in Command : Settles(v, d) \/ SettlementLost(v, d)
      \/ \E v \in Worker : Stop(v)
      \/ \E v \in Worker, S \in SUBSET Command : Claim(v, S)
      \/ UNCHANGED job
  BY DEF Next, vars, Settles, Enqueue, EnqueueCommand, LeaseExpires, BecomesAvailable,
         Restart, EngineWaits, EngineEnds, Poll, MarkPolled, PollLost
<1>8. CASE UNCHANGED job
  BY <1>8
<1>9. CASE \E v \in Worker, S \in SUBSET Command : Claim(v, S)
  <2>1. PICK v \in Worker, S \in SUBSET Command : Claim(v, S)
    BY <1>9
  <2> QED
    BY <1>6, <2>1
<1> QED
  BY <1>1, <1>2, <1>3, <1>4, <1>5, <1>7, <1>8, <1>9

\* Every step keeps what an attempt's position says it has done so far.
LEMMA StepProgressInv == IInv /\ [Next]_vars => ProgressInv' /\ DeliveredMeansDone'
<1> SUFFICES ASSUME IInv, [Next]_vars PROVE ProgressInv' /\ DeliveredMeansDone'
  OBVIOUS
<1>0. /\ ProgressInv /\ DeliveredMeansDone /\ RunOf \in [Command -> Run]
      /\ run \in [Run -> RunStatus] /\ engine \in [Run -> EngineStatus]
  BY TypeFacts DEF IInv
<1>1. ASSUME NEW r \in Run, engine[r] # "none" PROVE engine'[r] # "none"
  BY <1>1, ExecutionChange
<1>2. ASSUME NEW w \in Worker, NEW c \in Command,
             job'[w][c].pc \in {"mark", "deliver"}, Kind[c] = "start"
      PROVE  engine'[RunOf[c]] # "none"
  <2>1. CASE job[w][c].pc \in {"mark", "deliver"}
    BY <1>0, <1>1, <1>2, <2>1 DEF ProgressInv
  <2>2. CASE Execute(w, c)
    BY <1>0, <1>2, <2>2 DEF Execute, EngineCall
  <2>3. CASE Mark(w, c)
    BY <1>0, <1>1, <1>2, <2>3 DEF Mark, ProgressInv
  <2> QED
    BY <1>2, <2>1, <2>2, <2>3, AttemptChange
<1>3. ASSUME NEW w \in Worker, NEW c \in Command, job'[w][c].pc = "deliver"
      PROVE  /\ run'[RunOf[c]] # "pending"
             /\ Kind[c] = "cancel" => Terminal(RunOf[c])'
  <2>1. CASE job[w][c].pc = "deliver"
    <3>1. /\ run[RunOf[c]] \notin {"absent", "pending"}
          /\ Kind[c] = "cancel" => Terminal(RunOf[c])
      BY <1>0, <2>1, AttemptedExists DEF ProgressInv
    <3> QED
      BY <1>0, <3>1, RunKept DEF Terminal
  <2>2. CASE Mark(w, c)
    <3>1. MarkRun(RunOf[c], MarkStatus(c)) /\ MarkStatus(c) \in RunStatus
      BY <2>2 DEF Mark, MarkStatus, RunStatus
    <3>2. run'[RunOf[c]] = IF ~Terminal(RunOf[c]) THEN MarkStatus(c) ELSE run[RunOf[c]]
      BY <1>0, <3>1, MarkRunEffect
    <3> QED
      BY <3>2 DEF MarkStatus, Terminal, TerminalStatus
  <2> QED
    BY <1>3, <2>1, <2>2, AttemptChange
<1>4. ASSUME NEW c \in Command, cmd'[c].status = "delivered"
      PROVE  /\ run'[RunOf[c]] # "pending"
             /\ Kind[c] = "start" => engine'[RunOf[c]] # "none"
             /\ Kind[c] = "cancel" => Terminal(RunOf[c])'
  <2>1. /\ run[RunOf[c]] \notin {"absent", "pending"}
        /\ Kind[c] = "start" => engine[RunOf[c]] # "none"
        /\ Kind[c] = "cancel" => Terminal(RunOf[c])
    <3>1. CASE cmd[c].status = "delivered"
      BY <1>0, <3>1 DEF DeliveredMeansDone, IInv, QueueInv
    <3>2. CASE cmd[c].status # "delivered"
      <4>1. PICK w \in Worker : Deliver(w, c)
        BY <1>4, <3>2, CommandChange
      <4>2. job[w][c].pc = "deliver"
        BY <4>1 DEF Deliver
      <4> QED
        BY <1>0, <4>2, AttemptedExists DEF ProgressInv
    <3> QED
      BY <3>1, <3>2
  <2> QED
    BY <1>0, <1>1, <2>1, RunKept DEF Terminal
<1> QED
  BY <1>2, <1>3, <1>4 DEF ProgressInv, DeliveredMeansDone

\* Every step keeps the causes of the outcomes and of what the reconciler holds.
LEMMA StepOutcomeInv == IInv /\ [Next]_vars => ObservedInv' /\ OutcomeJustified'
<1> SUFFICES ASSUME IInv, [Next]_vars, NEW r \in Run
             PROVE  /\ observed'[r] = "succeeded" => engine'[r] = "success"
                    /\ observed'[r] = "failed" => engine'[r] \in {"failure", "corrupt"}
                    /\ run'[r] = "succeeded" => engine'[r] = "success"
                    /\ run'[r] = "failed" =>
                         \/ engine'[r] \in {"failure", "corrupt"}
                         \/ \E c \in Command : RunOf[c] = r /\ cmd'[c].status = "failed"
                    /\ run'[r] = "cancelled" =>
                         \E c \in Command :
                           RunOf[c] = r /\ Kind[c] = "cancel" /\ cmd'[c].attempts > 0
  BY DEF ObservedInv, OutcomeJustified
<1>0. /\ ObservedInv /\ OutcomeJustified
      /\ observed[r] \in {"nothing", "succeeded", "failed"}
  BY DEF IInv, TypeOK
<1>1. Ended(r) => engine'[r] = engine[r]
  BY ExecutionChange DEF Ended
<1>2. observed'[r] # "nothing" =>
        /\ observed'[r] = "succeeded" => engine'[r] = "success"
        /\ observed'[r] = "failed" => engine'[r] \in {"failure", "corrupt"}
  BY <1>0, <1>1, ObservedChange DEF ObservedInv, Poll, PolledEnd, Ended
<1>3. ASSUME NEW c \in Command
      PROVE  /\ cmd[c].status = "failed" => cmd'[c].status = "failed"
             /\ cmd[c].attempts > 0 => cmd'[c].attempts > 0
  <2>1. cmd[c].status = "absent" => cmd[c].attempts = 0
    BY DEF IInv, LeaseInv, LeaseAt
  <2>2. cmd[c].attempts \in Nat /\ cmd'[c].attempts \in Nat
    BY TypeFacts, StepTypeOK DEF IInv, TypeOK, CommandRow
  <2> QED
    BY <2>1, <2>2, CommandChange
<1>4. CASE run'[r] = run[r]
  BY <1>0, <1>1, <1>2, <1>3, <1>4 DEF OutcomeJustified, Ended
<1>5. CASE run'[r] # run[r]
  <2>1. CASE run'[r] = "pending"
    BY <1>2, <2>1
  <2>2. ASSUME NEW w \in Worker, NEW c \in Command, RunOf[c] = r, job[w][c].pc = "mark",
               run'[r] = MarkStatus(c), UNCHANGED cmd
        PROVE  /\ run'[r] \in {"running", "cancelled"}
               /\ run'[r] = "cancelled" => Kind[c] = "cancel" /\ cmd'[c].attempts > 0
    <3>1. cmd[c].token > 0 /\ cmd[c].attempts = cmd[c].token
      BY <2>2, AttemptedExists DEF IInv, LeaseInv, LeaseAt
    <3> QED
      BY <2>2, <3>1 DEF MarkStatus
  <2>3. ASSUME NEW w \in Worker, NEW c \in Command, FailCommand(w, c), Holds(w, c)
        PROVE  cmd'[c].status = "failed"
    <3>1. ~Deliver(w, c) /\ ~Retry(w, c)
      BY <2>3 DEF FailCommand, Deliver, Retry
    <3> QED
      BY <2>3, <3>1, SettlesEffect DEF Settles
  <2>4. CASE MarkPolled(r) /\ run'[r] = observed[r]
    <3>1. engine'[r] = engine[r] /\ observed[r] \in {"succeeded", "failed"}
      BY <1>0, <2>4 DEF MarkPolled
    <3> QED
      BY <1>0, <1>2, <2>4, <3>1 DEF ObservedInv
  <2> QED
    BY <1>2, <1>5, <2>1, <2>2, <2>3, <2>4, RunChange
<1> QED
  BY <1>4, <1>5

--------------------------------------------------------------------------------
(* The invariants as theorems of the specification *)

\* Init establishes the inductive invariant.
LEMMA InitIInv == Init => IInv
<1> SUFFICES ASSUME Init PROVE IInv
  OBVIOUS
<1>1. TypeOK
  BY InitTypeOK
<1>2. /\ \A c \in Command : cmd[c] = NoCommand
      /\ \A w \in Worker, c \in Command : job[w][c] = Idle
      /\ \A r \in Run : run[r] = "absent" /\ observed[r] = "nothing" /\ engine[r] = "none"
      /\ faults = 0
  BY DEF Init
<1>3. /\ NoCommand.status = "absent" /\ NoCommand.attempts = 0 /\ NoCommand.token = 0
      /\ Idle.pc = "idle"
  BY DEF NoCommand, Idle
<1>4. MaxAttempts \in Nat /\ RunOf \in [Command -> Run]
  BY ConstantsAssumption
<1>5. LeaseInv /\ BudgetInv
  BY <1>2, <1>3, <1>4 DEF LeaseInv, LeaseAt, BudgetInv, BudgetAt
<1>6. QueueInv /\ QueueAgreesWithRun
  BY <1>2, <1>3, <1>4 DEF QueueInv, QueueAgreesWithRun
<1>7. ProgressInv /\ DeliveredMeansDone
  BY <1>2, <1>3, <1>4 DEF ProgressInv, DeliveredMeansDone
<1>8. ObservedInv /\ OutcomeJustified
  BY <1>2 DEF ObservedInv, OutcomeJustified
<1> QED
  BY <1>1, <1>5, <1>6, <1>7, <1>8 DEF IInv

\* The inductive invariant holds in every reachable state.
THEOREM Inductive == Spec => []IInv
<1>1. IInv /\ [Next]_vars => IInv'
  <2>1. IInv => TypeOK
    BY DEF IInv
  <2>2. ASSUME IInv, [Next]_vars PROVE IInv'
    <3>1. TypeOK' /\ LeaseInv' /\ BudgetInv'
      BY <2>1, <2>2, StepTypeOK, StepLeaseInv, StepBudgetInv
    <3>2. /\ QueueInv' /\ QueueAgreesWithRun' /\ ProgressInv' /\ DeliveredMeansDone'
          /\ ObservedInv' /\ OutcomeJustified'
      BY <2>2, StepQueueInv, StepProgressInv, StepOutcomeInv
    <3> QED
      BY <3>1, <3>2 DEF IInv
  <2> QED
    BY <2>2
<1> QED
  BY <1>1, InitIInv, PTL DEF Spec

\* No two attempts that are still being made can settle the same command,
\* however often leases run out (claim and settleCommand of store.ts).
THEOREM Fencing == Spec => []TokensFence
<1>1. IInv => TokensFence
  BY DEF IInv, LeaseInv, LeaseAt, TokensFence
<1> QED
  BY <1>1, Inductive, PTL

\* max_attempts bounds the attempts up to those lost to faults.
THEOREM BudgetHolds == Spec => []AttemptBudget
<1>1. IInv => AttemptBudget
  BY DEF IInv, BudgetInv, BudgetAt, AttemptBudget
<1> QED
  BY <1>1, Inductive, PTL

\* enqueue and failCommand never part a run from its commands.
THEOREM QueueAgrees == Spec => []QueueAgreesWithRun
<1>1. IInv => QueueAgreesWithRun
  BY DEF IInv
<1> QED
  BY <1>1, Inductive, PTL

\* A command is only marked delivered when it has had its effect.
THEOREM Delivery == Spec => []DeliveredMeansDone
<1>1. IInv => DeliveredMeansDone
  BY DEF IInv
<1> QED
  BY <1>1, Inductive, PTL

\* Every outcome of a run has a cause.
THEOREM Justification == Spec => []OutcomeJustified
<1>1. IInv => OutcomeJustified
  BY DEF IInv
<1> QED
  BY <1>1, Inductive, PTL

--------------------------------------------------------------------------------
(* The action properties *)

\* A settled row is never written again (claim and settleCommand of store.ts).
THEOREM Settled == Spec => SettledIsFinal
<1>1. ASSUME IInv, [Next]_vars, NEW c \in Command, cmd[c].status \in {"delivered", "failed"}
      PROVE  cmd'[c] = cmd[c]
  <2>1. ASSUME NEW d \in Command,
               EnqueueCommand(d) \/ \E r \in Run : Enqueue(r, d)
        PROVE  cmd'[c] = cmd[c]
    BY <1>1, <2>1, InsertsNew, InsertedRow
  <2>2. ASSUME NEW d \in Command, LeaseExpires(d) \/ BecomesAvailable(d)
        PROVE  cmd'[c] = cmd[c]
    <3>1. d # c
      BY <1>1, <2>2 DEF LeaseExpires, BecomesAvailable
    <3> QED
      BY <1>1, <2>2, <3>1, TypeFacts, TimeEffect DEF IInv
  <2>3. ASSUME NEW w \in Worker, NEW S \in SUBSET Command, Claim(w, S)
        PROVE  cmd'[c] = cmd[c]
    <3>1. c \notin S
      BY <1>1, <2>3 DEF Claim, OldestBatch, Claimable
    <3> QED
      BY <1>1, <2>3, <3>1, TypeFacts, ClaimEffect DEF IInv
  <2>4. ASSUME NEW w \in Worker, NEW d \in Command, Settles(w, d)
        PROVE  cmd'[c] = cmd[c]
    <3>1. c # d \/ ~Holds(w, d)
      BY <1>1 DEF Holds
    <3> QED
      BY <1>1, <2>4, <3>1, SettlesEffect
  <2>5. \/ \E d \in Command : EnqueueCommand(d) \/ \E r \in Run : Enqueue(r, d)
        \/ \E d \in Command : LeaseExpires(d) \/ BecomesAvailable(d)
        \/ \E w \in Worker, S \in SUBSET Command : Claim(w, S)
        \/ \E w \in Worker, d \in Command : Settles(w, d)
        \/ UNCHANGED cmd
    BY <1>1 DEF Next, vars, Settles, Execute, ExecuteFails, Mark, MarkFails, SettlementLost,
           Stop, Restart, EngineWaits, EngineEnds, Poll, MarkPolled, PollLost
  <2> QED
    BY <2>1, <2>2, <2>3, <2>4, <2>5
<1>2. IInv /\ [Next]_vars =>
        [\A c \in Command :
           cmd[c].status \in {"delivered", "failed"} => cmd'[c] = cmd[c]]_vars
  BY <1>1
<1> QED
  BY <1>2, Inductive, PTL DEF Spec, SettledIsFinal

\* A command leaves "delivering" by the attempt whose token its row carries.
THEOREM HolderSettles == Spec => OnlyHolderSettles
<1>1. ASSUME IInv, [Next]_vars, NEW c \in Command,
             cmd[c].status = "delivering", cmd'[c].status # "delivering"
      PROVE  \E w \in Worker :
               /\ cmd[c].owner = w
               /\ job[w][c].pc \in {"deliver", "broken"}
               /\ job[w][c].token = cmd[c].token
               /\ job'[w][c].pc = "idle"
  <2>1. PICK w \in Worker : Settles(w, c) /\ Holds(w, c)
    BY <1>1, CommandChange
  <2>2. /\ job[w][c].pc \in {"deliver", "broken"}
        /\ \A v \in Worker, d \in Command :
             job'[v][d] = IF v = w /\ d = c THEN Idle ELSE job[v][d]
    BY <1>1, <2>1, SettledAttempt, SettlesEffect
  <2>3. job'[w][c].pc = "idle"
    BY <2>2 DEF Idle
  <2> QED
    BY <2>1, <2>2, <2>3 DEF Holds
<1>2. IInv /\ [Next]_vars =>
        [\A c \in Command :
           cmd[c].status = "delivering" /\ cmd'[c].status # "delivering" =>
             \E w \in Worker :
               /\ cmd[c].owner = w
               /\ job[w][c].pc \in {"deliver", "broken"}
               /\ job[w][c].token = cmd[c].token
               /\ job'[w][c].pc = "idle"]_vars
  BY <1>1
<1> QED
  BY <1>2, Inductive, PTL DEF Spec, OnlyHolderSettles

--------------------------------------------------------------------------------
(* The implementation of the contract *)

\* The refinement mapping, run by run.
Outcome(r) == IF run[r] \in {"pending", "running"} THEN "accepted" ELSE run[r]
Execution(r) ==
  CASE engine[r] = "none" -> "idle"
    [] engine[r] \in {"active", "waiting"} -> "live"
    [] engine[r] = "success" -> "success"
    [] OTHER -> "failure"
OutcomeMap == [r \in Run |-> Outcome(r)]
ExecutionMap == [r \in Run |-> Execution(r)]

\* At most one run and, of it, only the outcome or only the execution changes.
LEMMA OneRun ==
  ASSUME IInv, [Next]_vars
  PROVE  \/ UNCHANGED <<run, engine>>
         \/ UNCHANGED engine /\ \E r \in Run : \A q \in Run \ {r} : run'[q] = run[q]
         \/ UNCHANGED run /\ \E r \in Run : \A q \in Run \ {r} : engine'[q] = engine[q]
<1>0. run \in [Run -> RunStatus] /\ engine \in [Run -> EngineStatus]
      /\ RunOf \in [Command -> Run]
  BY TypeFacts DEF IInv
<1>1. ASSUME NEW r \in Run, NEW c \in Command, Enqueue(r, c)
      PROVE  UNCHANGED engine /\ \E p \in Run : \A q \in Run \ {p} : run'[q] = run[q]
  BY <1>0, <1>1 DEF Enqueue
<1>2. ASSUME NEW w \in Worker, NEW c \in Command,
             Mark(w, c) \/ MarkFails(w, c) \/ FailCommand(w, c)
      PROVE  UNCHANGED engine /\ \E p \in Run : \A q \in Run \ {p} : run'[q] = run[q]
  <2>1. /\ UNCHANGED engine
        /\ \/ UNCHANGED run
           \/ MarkRun(RunOf[c], MarkStatus(c))
           \/ MarkRun(RunOf[c], "failed")
    BY <1>2 DEF Mark, MarkFails, FailCommand, FailRun
  <2>2. \A q \in Run \ {RunOf[c]} : run'[q] = run[q]
    BY <1>0, <2>1, MarkRunEffect DEF MarkStatus, RunStatus
  <2> QED
    BY <1>0, <2>1, <2>2
<1>3. ASSUME NEW r \in Run, MarkPolled(r)
      PROVE  UNCHANGED engine /\ \E p \in Run : \A q \in Run \ {p} : run'[q] = run[q]
  BY <1>0, <1>3 DEF MarkPolled, MarkRun
<1>4. ASSUME NEW w \in Worker, NEW c \in Command, Execute(w, c) \/ ExecuteFails(w, c)
      PROVE  UNCHANGED run /\ \E p \in Run : \A q \in Run \ {p} : engine'[q] = engine[q]
  <2>1. UNCHANGED run /\ (EngineCall(c) \/ UNCHANGED engine)
    BY <1>4 DEF Execute, ExecuteFails
  <2>2. \A q \in Run \ {RunOf[c]} : engine'[q] = engine[q]
    BY <1>0, <2>1 DEF EngineCall
  <2> QED
    BY <1>0, <2>1, <2>2
<1>5. ASSUME NEW r \in Run, EngineWaits(r) \/ EngineEnds(r)
      PROVE  UNCHANGED run /\ \E p \in Run : \A q \in Run \ {p} : engine'[q] = engine[q]
  BY <1>0, <1>5 DEF EngineWaits, EngineEnds
<1>6. \/ \E r \in Run, c \in Command : Enqueue(r, c)
      \/ \E w \in Worker, c \in Command :
           Mark(w, c) \/ MarkFails(w, c) \/ FailCommand(w, c)
      \/ \E r \in Run : MarkPolled(r)
      \/ \E w \in Worker, c \in Command : Execute(w, c) \/ ExecuteFails(w, c)
      \/ \E r \in Run : EngineWaits(r) \/ EngineEnds(r)
      \/ UNCHANGED <<run, engine>>
  BY DEF Next, vars, EnqueueCommand, LeaseExpires, BecomesAvailable, Claim, Deliver,
         Retry, SettlementLost, Stop, Restart, Poll, PollLost
<1> QED
  BY <1>1, <1>2, <1>3, <1>4, <1>5, <1>6

\* Every step of the queue, its workers and the reconciler is a step of the
\* contract or leaves the contract's state alone.
LEMMA StepContract ==
  ASSUME IInv, [Next]_vars
  PROVE  Contract!Next \/ UNCHANGED <<OutcomeMap, ExecutionMap>>
<1>0. run \in [Run -> RunStatus] /\ engine \in [Run -> EngineStatus]
      /\ \A r \in Run : observed[r] \in {"nothing", "succeeded", "failed"}
  BY TypeFacts DEF IInv, TypeOK
<1>1. CASE UNCHANGED <<run, engine>>
  BY <1>1 DEF OutcomeMap, ExecutionMap, Outcome, Execution
<1>2. ASSUME UNCHANGED engine, NEW r \in Run, \A q \in Run \ {r} : run'[q] = run[q]
      PROVE  Contract!Next \/ UNCHANGED <<OutcomeMap, ExecutionMap>>
  <2>1. UNCHANGED ExecutionMap
    BY <1>2 DEF ExecutionMap, Execution
  <2>2. OutcomeMap' = [OutcomeMap EXCEPT ![r] = Outcome(r)']
    BY <1>2 DEF OutcomeMap, Outcome
  <2>3. CASE run'[r] = run[r]
    BY <1>2, <2>1, <2>3 DEF OutcomeMap, Outcome
  <2>4. CASE run'[r] # run[r]
    <3>1. CASE run[r] = "absent" /\ run'[r] = "pending"
      <4>1. OutcomeMap[r] = "absent" /\ Outcome(r)' = "accepted"
        BY <3>1 DEF OutcomeMap, Outcome
      <4>2. Contract!Accept(r)
        BY <2>1, <2>2, <4>1 DEF Contract!Accept, OutcomeMap, ExecutionMap, Outcome, Execution
      <4> QED
        BY <4>2 DEF Contract!Next
    <3>2. CASE run[r] \in {"pending", "running"} /\ run'[r] = "running"
      <4>1. Outcome(r)' = Outcome(r)
        BY <3>2 DEF Outcome
      <4> QED
        BY <2>1, <2>2, <4>1 DEF OutcomeMap
    <3>3. CASE run[r] \in {"pending", "running"} /\ run'[r] \in {"failed", "cancelled"}
      <4>1. OutcomeMap[r] = "accepted" /\ Outcome(r)' \in {"failed", "cancelled"}
        BY <3>3 DEF OutcomeMap, Outcome
      <4>2. Contract!ReportEnd(r)
        BY <2>1, <2>2, <4>1 DEF Contract!ReportEnd, OutcomeMap, ExecutionMap, Outcome, Execution
      <4> QED
        BY <4>2 DEF Contract!Next
    <3>4. CASE run[r] \in {"pending", "running"} /\ run'[r] = "succeeded" /\ engine[r] = "success"
      <4>1. OutcomeMap[r] = "accepted" /\ Outcome(r)' = "succeeded" /\ ExecutionMap[r] = "success"
        BY <3>4 DEF OutcomeMap, Outcome, ExecutionMap, Execution
      <4>2. Contract!ReportSuccess(r)
        BY <2>1, <2>2, <4>1
        DEF Contract!ReportSuccess, OutcomeMap, ExecutionMap, Outcome, Execution
      <4> QED
        BY <4>2 DEF Contract!Next
    <3>5. ~Terminal(r) /\ run[r] # "absent" => run[r] \in {"pending", "running"}
      BY <1>0 DEF RunStatus, Terminal, TerminalStatus
    <3>6. MarkPolled(r) => observed[r] \in {"succeeded", "failed"}
      BY <1>0 DEF MarkPolled
    <3>7. observed[r] = "succeeded" => engine[r] = "success"
      BY DEF IInv, ObservedInv
    <3> QED
      BY <2>4, <3>1, <3>2, <3>3, <3>4, <3>5, <3>6, <3>7, RunChange DEF MarkStatus
  <2> QED
    BY <2>3, <2>4
<1>3. ASSUME UNCHANGED run, NEW r \in Run, \A q \in Run \ {r} : engine'[q] = engine[q]
      PROVE  Contract!Next \/ UNCHANGED <<OutcomeMap, ExecutionMap>>
  <2>1. UNCHANGED OutcomeMap
    BY <1>3 DEF OutcomeMap, Outcome
  <2>2. ExecutionMap' = [ExecutionMap EXCEPT ![r] = Execution(r)']
    BY <1>3 DEF ExecutionMap, Execution
  <2>3. CASE engine'[r] = engine[r] \/ engine[r] = "waiting" \/ engine'[r] = "waiting"
    <3>1. Execution(r)' = Execution(r)
      BY <2>3, ExecutionChange DEF Execution
    <3> QED
      BY <2>1, <2>2, <3>1 DEF ExecutionMap
  <2>4. CASE engine[r] = "none" /\ engine'[r] = "active" /\ run[r] # "absent"
    <3>1. ExecutionMap[r] = "idle" /\ Execution(r)' = "live" /\ OutcomeMap[r] # "absent"
      BY <2>4 DEF ExecutionMap, Execution, OutcomeMap, Outcome
    <3>2. Contract!Begin(r)
      BY <2>1, <2>2, <3>1 DEF Contract!Begin, OutcomeMap, ExecutionMap, Outcome, Execution
    <3> QED
      BY <3>2 DEF Contract!Next
  <2>5. CASE engine[r] = "active" /\ engine'[r] \in {"success", "failure", "corrupt"}
    <3>1. ExecutionMap[r] = "live" /\ Execution(r)' \in {"success", "failure"}
      BY <2>5 DEF ExecutionMap, Execution
    <3>2. Contract!Conclude(r)
      BY <2>1, <2>2, <3>1 DEF Contract!Conclude, OutcomeMap, ExecutionMap, Outcome, Execution
    <3> QED
      BY <3>2 DEF Contract!Next
  <2> QED
    BY <2>3, <2>4, <2>5, ExecutionChange
<1> QED
  BY <1>1, <1>2, <1>3, OneRun

\* The queue, its dispatchers and the reconciler keep the promise made to the
\* caller of the runtime.
THEOREM Implements == Spec => ImplementsContract
<1>1. Init => Contract!Init
  BY DEF Init, Contract!Init
<1>2. IInv /\ [Next]_vars => [Contract!Next]_(Contract!contractVars)
  <2> SUFFICES ASSUME IInv, [Next]_vars
               PROVE  Contract!Next \/ UNCHANGED Contract!contractVars
    OBVIOUS
  <2>1. Contract!Next \/ UNCHANGED <<OutcomeMap, ExecutionMap>>
    BY StepContract
  <2>2. UNCHANGED <<OutcomeMap, ExecutionMap>> => UNCHANGED Contract!contractVars
    BY DEF OutcomeMap, ExecutionMap, Outcome, Execution, Contract!contractVars
  <2> QED
    BY <2>1, <2>2
<1> QED
  BY <1>1, <1>2, Inductive, PTL DEF Spec, ImplementsContract, Contract!Spec

================================================================================
