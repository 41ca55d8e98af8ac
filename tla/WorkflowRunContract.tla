-------------------------- MODULE WorkflowRunContract --------------------------
(***************************************************************************)
(* What a caller of the durable workflow runtime is promised about a run:  *)
(* once accepted it keeps its identity, it ends at most once, and what it  *)
(* ends with is final ("Terminal Outcome", src/CONTEXT.md).  A run can     *)
(* only be reported as succeeded when its execution did succeed.  The      *)
(* queue, leases, workers and retries that deliver this are in             *)
(* WorkflowDispatch, which is shown to implement this specification.       *)
(***************************************************************************)

CONSTANT Run

VARIABLES
  outcome,     \* outcome[r]: what the caller can read about r
  execution    \* execution[r]: what the durable execution of r has done

contractVars == <<outcome, execution>>

Outcomes == {"absent", "accepted", "succeeded", "failed", "cancelled"}
Executions == {"idle", "live", "success", "failure"}

Init ==
  /\ outcome = [r \in Run |-> "absent"]
  /\ execution = [r \in Run |-> "idle"]

Accept(r) ==
  /\ outcome[r] = "absent"
  /\ outcome' = [outcome EXCEPT ![r] = "accepted"]
  /\ UNCHANGED execution

Begin(r) ==
  /\ outcome[r] # "absent"
  /\ execution[r] = "idle"
  /\ execution' = [execution EXCEPT ![r] = "live"]
  /\ UNCHANGED outcome

Conclude(r) ==
  /\ execution[r] = "live"
  /\ \E e \in {"success", "failure"} :
       execution' = [execution EXCEPT ![r] = e]
  /\ UNCHANGED outcome

ReportSuccess(r) ==
  /\ outcome[r] = "accepted"
  /\ execution[r] = "success"
  /\ outcome' = [outcome EXCEPT ![r] = "succeeded"]
  /\ UNCHANGED execution

\* A failure may be that of the execution or of a command that exhausted its
\* attempts; a cancellation is decided by the run's owner.
ReportEnd(r) ==
  /\ outcome[r] = "accepted"
  /\ \E o \in {"failed", "cancelled"} :
       outcome' = [outcome EXCEPT ![r] = o]
  /\ UNCHANGED execution

Next ==
  \E r \in Run :
    Accept(r) \/ Begin(r) \/ Conclude(r) \/ ReportSuccess(r) \/ ReportEnd(r)

Spec == Init /\ [][Next]_contractVars

================================================================================
