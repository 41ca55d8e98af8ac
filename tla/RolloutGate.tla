------------------------------ MODULE RolloutGate ------------------------------
(***************************************************************************)
(* The Rollout Gate of sheet-workflows and its caller in sheet-bot: control *)
(* changes guarded by a revision and audited, evaluations that record one   *)
(* decision per invocation, and a caller that takes the legacy path when    *)
(* no decision reaches it.                                                  *)
(*                                                                         *)
(* Both operations are READ COMMITTED transactions: each statement is a    *)
(* step that sees what is committed, a writer of a key waits for the       *)
(* uncommitted writer before it, and nothing is seen before the commit.    *)
(***************************************************************************)
EXTENDS Naturals, Sequences, FiniteSets

CONSTANTS
  Gate,        \* gate keys (scopeKey)
  Invocation,  \* invocation ids
  Request,     \* evaluate requests; an invocation's request may arrive twice
  Change,      \* change requests of operators
  InvocationOf,\* invocation of a request
  GateOf,      \* gate key of a change
  Candidates,  \* evaluationControlKeys of an invocation, most specific first
  None,        \* no gate
  MaxFaults    \* bound: storage errors and lost commits of a behaviour

ASSUME ConstantsAssumption ==
  /\ IsFiniteSet(Change)
  /\ None \notin Gate
  /\ InvocationOf \in [Request -> Invocation]
  /\ GateOf \in [Change -> Gate]
  /\ Candidates \in [Invocation -> Seq(Gate)]
  /\ MaxFaults \in Nat

VARIABLES
  control,     \* control[g]: the stored control, revision 0 when there is none
  audit,       \* control change audit records
  evaluation,  \* evaluation[i]: the recorded decision of an invocation
  request,     \* request[q]: evaluation q
  change,      \* change[c]: change c
  caller,      \* caller[i]: the Execution Path the caller has taken
  retired,     \* invocations whose evaluation has been cleaned up
  faults

vars == <<control, audit, evaluation, request, change, caller, retired, faults>>

Path == {"legacy", "replacement"}
Revision == 0..Cardinality(Change)

Control == [revision : Revision, path : Path]
Audit == [gate : Gate, revision : Revision, path : Path, by : Change]
Decision ==
  [source : {"none", "control", "unconfigured", "unavailable"},
   gate : Gate \union {None}, revision : Revision, path : Path]

NoControl == [revision |-> 0, path |-> "legacy"]
Fallback(source) == [source |-> source, gate |-> None, revision |-> 0, path |-> "legacy"]
NoDecision == Fallback("none")

Configured == {g \in Gate : control[g] # NoControl}
Recorded(i) == evaluation[i] # NoDecision

Init ==
  /\ control = [g \in Gate |-> NoControl]
  /\ audit = {}
  /\ evaluation = [i \in Invocation |-> NoDecision]
  /\ request = [q \in Request |-> [pc |-> "idle", decision |-> NoDecision, known |-> {}]]
  /\ change = [c \in Change |->
                 [pc |-> "idle", expected |-> 0, path |-> "legacy", revision |-> 0]]
  /\ caller = [i \in Invocation |-> "idle"]
  /\ retired = {}
  /\ faults = 0

Fault ==
  /\ faults < MaxFaults
  /\ faults' = faults + 1

--------------------------------------------------------------------------------
(* change *)

Proceed(c, pc) == change' = [change EXCEPT ![c].pc = pc]

Propose(c) ==
  /\ change[c].pc = "idle"
  /\ \E expected \in Revision, path \in Path :
       change' = [change EXCEPT ![c] =
                    [pc |-> "validate", expected |-> expected, path |-> path, revision |-> 0]]
  /\ UNCHANGED <<control, audit, evaluation, request, caller, retired, faults>>

Validate(c) ==
  /\ change[c].pc = "validate"
  /\ Proceed(c, IF control[GateOf[c]].revision = change[c].expected
                THEN "upsert" ELSE "conflict")
  /\ UNCHANGED <<control, audit, evaluation, request, caller, retired, faults>>

\* Another change of the control holds its row until it commits.
Locked(c) == \E d \in Change \ {c} : change[d].pc = "audit" /\ GateOf[d] = GateOf[c]

\* Mutant: an existing control is updated whatever its revision.
MatchesAlways(c) == change[c].pc = "upsert"

\* A missing control is inserted, an existing one updated at the expected
\* revision only.
Matches(c) ==
  \/ control[GateOf[c]] = NoControl
  \/ control[GateOf[c]].revision = change[c].expected

\* Mutant: the upsert commits on its own, before the audit record is written.
UpsertCommits(c) ==
  /\ change[c].pc = "upsert"
  /\ ~Locked(c)
  /\ IF Matches(c)
     THEN LET revision == control[GateOf[c]].revision + 1 IN
            /\ control' = [control EXCEPT ![GateOf[c]] =
                             [revision |-> revision, path |-> change[c].path]]
            /\ change' = [change EXCEPT ![c].pc = "audit", ![c].revision = revision]
     ELSE Proceed(c, "conflict") /\ UNCHANGED control
  /\ UNCHANGED <<audit, evaluation, request, caller, retired, faults>>

Upsert(c) ==
  /\ change[c].pc = "upsert"
  /\ ~Locked(c)
  /\ IF Matches(c)
     THEN change' = [change EXCEPT ![c].pc = "audit",
                       ![c].revision = control[GateOf[c]].revision + 1]
     ELSE Proceed(c, "conflict")
  /\ UNCHANGED <<control, audit, evaluation, request, caller, retired, faults>>

\* The audit record is inserted and the transaction commits; the operator may
\* learn of a failure all the same.
CommitChange(c) ==
  LET revision == change[c].revision
      path == change[c].path IN
  /\ change[c].pc = "audit"
  /\ control' = [control EXCEPT ![GateOf[c]] = [revision |-> revision, path |-> path]]
  /\ audit' = audit \union
       {[gate |-> GateOf[c], revision |-> revision, path |-> path, by |-> c]}
  /\ \/ Proceed(c, "changed") /\ UNCHANGED faults
     \/ Proceed(c, "failed") /\ Fault
  /\ UNCHANGED <<evaluation, request, caller, retired>>

ChangeFails(c) ==
  /\ change[c].pc \in {"validate", "upsert", "audit"}
  /\ Fault
  /\ Proceed(c, "failed")
  /\ UNCHANGED <<control, audit, evaluation, request, caller, retired>>

--------------------------------------------------------------------------------
(* evaluate *)

Step(q, pc) == request' = [request EXCEPT ![q].pc = pc]
Answer(q, decision) ==
  request' = [request EXCEPT ![q].pc = "answered", ![q].decision = decision]

\* Mutant: the least specific control wins.
LeastSpecific(i) ==
  LET matching == {n \in DOMAIN Candidates[i] : Candidates[i][n] \in Configured} IN
  {n \in matching : \A k \in matching : k <= n}

\* The first candidate key with a control: its place in Candidates[i], or nothing.
FirstMatch(i) ==
  LET matching == {n \in DOMAIN Candidates[i] : Candidates[i][n] \in Configured} IN
  {n \in matching : \A k \in matching : n <= k}

Selected(i) ==
  IF FirstMatch(i) = {} THEN Fallback("unconfigured")
  ELSE LET g == Candidates[i][CHOOSE n \in FirstMatch(i) : TRUE] IN
       [source |-> "control", gate |-> g,
        revision |-> control[g].revision, path |-> control[g].path]

\* An invocation's request reaches the service within days of being sent.
Arrive(q) ==
  /\ request[q].pc = "idle"
  /\ caller[InvocationOf[q]] # "idle"
  /\ InvocationOf[q] \notin retired
  /\ request' = [request EXCEPT ![q].pc = "existing", ![q].known = Configured]
  /\ UNCHANGED <<control, audit, evaluation, change, caller, retired, faults>>

ReadExisting(q) ==
  /\ request[q].pc = "existing"
  /\ IF Recorded(InvocationOf[q])
     THEN Answer(q, evaluation[InvocationOf[q]])
     ELSE Step(q, "select")
  /\ UNCHANGED <<control, audit, evaluation, change, caller, retired, faults>>

\* One statement reads all the candidates.
Select(q) ==
  /\ request[q].pc = "select"
  /\ request' = [request EXCEPT ![q].pc = "insert",
                   ![q].decision = Selected(InvocationOf[q])]
  /\ UNCHANGED <<control, audit, evaluation, change, caller, retired, faults>>

\* Another evaluation of the invocation holds the unique key until it commits.
KeyHeld(q) ==
  \E r \in Request \ {q} :
    request[r].pc = "commit" /\ InvocationOf[r] = InvocationOf[q]

\* Mutant: a recorded decision is overwritten.
InsertOverwrites(q) ==
  /\ request[q].pc = "insert"
  /\ ~KeyHeld(q)
  /\ Step(q, "commit")
  /\ UNCHANGED <<control, audit, evaluation, change, caller, retired, faults>>

\* ON CONFLICT DO NOTHING.
Insert(q) ==
  /\ request[q].pc = "insert"
  /\ ~KeyHeld(q)
  /\ Step(q, IF Recorded(InvocationOf[q]) THEN "reread" ELSE "commit")
  /\ UNCHANGED <<control, audit, evaluation, change, caller, retired, faults>>

Reread(q) ==
  /\ request[q].pc = "reread"
  /\ Answer(q, IF Recorded(InvocationOf[q])
               THEN evaluation[InvocationOf[q]] ELSE Fallback("unavailable"))
  /\ UNCHANGED <<control, audit, evaluation, change, caller, retired, faults>>

\* A commit that succeeds but looks failed selects the legacy path.
CommitEvaluation(q) ==
  /\ request[q].pc = "commit"
  /\ evaluation' = [evaluation EXCEPT ![InvocationOf[q]] = request[q].decision]
  /\ \/ Answer(q, request[q].decision) /\ UNCHANGED faults
     \/ Answer(q, Fallback("unavailable")) /\ Fault
  /\ UNCHANGED <<control, audit, change, caller, retired>>

Evaluating(q) == request[q].pc \in {"existing", "select", "insert", "reread", "commit"}

\* Mutant: the decision that could not be recorded is answered.
UnavailableUnrecorded(q) ==
  /\ Evaluating(q)
  /\ Fault
  /\ Answer(q, request[q].decision)
  /\ UNCHANGED <<control, audit, evaluation, change, caller, retired>>

\* Mutant: the fallback decision is recorded.
UnavailableRecorded(q) ==
  /\ Evaluating(q)
  /\ Fault
  /\ Answer(q, Fallback("unavailable"))
  /\ evaluation' = [evaluation EXCEPT ![InvocationOf[q]] = Fallback("unavailable")]
  /\ UNCHANGED <<control, audit, change, caller, retired>>

\* Any storage error rolls back and selects the legacy path.
Unavailable(q) ==
  /\ Evaluating(q)
  /\ Fault
  /\ Answer(q, Fallback("unavailable"))
  /\ UNCHANGED <<control, audit, evaluation, change, caller, retired>>

\* Evaluations are deleted after rolloutGateEvaluationRetentionDays.
Cleanup(i) ==
  /\ Recorded(i)
  /\ \A q \in Request : InvocationOf[q] = i => ~Evaluating(q)
  /\ caller[i] \in Path
  /\ evaluation' = [evaluation EXCEPT ![i] = NoDecision]
  /\ retired' = retired \union {i}
  /\ UNCHANGED <<control, audit, request, change, caller, faults>>

--------------------------------------------------------------------------------
(* enqueueStatus of sheet-bot *)

Take(i, path) ==
  /\ caller' = [caller EXCEPT ![i] = path]
  /\ UNCHANGED <<control, audit, evaluation, request, change, retired, faults>>

Ask(i) == caller[i] = "idle" /\ Take(i, "asking")

\* The decision arrives and its path is dispatched.
Follow(i) ==
  /\ caller[i] = "asking"
  /\ \E q \in Request :
       /\ InvocationOf[q] = i /\ request[q].pc = "answered"
       /\ Take(i, request[q].decision.path)

\* No answer within statusRolloutGateEvaluationTimeout, or an error.
GiveUp(i) == caller[i] = "asking" /\ Take(i, "legacy")

Changing(c) ==
  Propose(c) \/ Validate(c) \/ Upsert(c) \/ CommitChange(c) \/ ChangeFails(c)
Evaluation(q) ==
  \/ Arrive(q) \/ ReadExisting(q) \/ Select(q) \/ Insert(q) \/ Reread(q)
  \/ CommitEvaluation(q) \/ Unavailable(q)
Calling(i) == Ask(i) \/ Follow(i) \/ GiveUp(i) \/ Cleanup(i)

Next ==
  \/ \E c \in Change : Changing(c)
  \/ \E q \in Request : Evaluation(q)
  \/ \E i \in Invocation : Calling(i)

Spec == Init /\ [][Next]_vars

--------------------------------------------------------------------------------
(* Properties *)

\* Types, and what a decision of each source carries.
TypeOK ==
  /\ control \in [Gate -> Control]
  /\ audit \subseteq Audit
  /\ evaluation \in [Invocation -> Decision]
  /\ request \in [Request ->
       [pc : {"idle", "existing", "select", "insert", "reread", "commit", "answered"},
        decision : Decision, known : SUBSET Gate]]
  /\ change \in [Change ->
       [pc : {"idle", "validate", "upsert", "audit", "changed", "conflict", "failed"},
        expected : Revision, path : Path, revision : Revision]]
  /\ caller \in [Invocation -> Path \union {"idle", "asking"}]
  /\ retired \subseteq Invocation
  /\ faults \in 0..MaxFaults
  /\ \A i \in Invocation : evaluation[i].source # "unavailable"
  /\ \A q \in Request : request[q].pc = "answered" => request[q].decision.source # "none"

\* "Every control change has an audit record" (upsertControl, insertDecision):
\* the records of a control number its revisions without gap or repetition, and
\* the last one says what the control says.
ChangesAudited ==
  \A g \in Gate :
    LET records == {a \in audit : a.gate = g} IN
    /\ {a.revision : a \in records} = 1..control[g].revision
    /\ Cardinality(records) = control[g].revision
    /\ control[g] # NoControl =>
         \E a \in records : a.revision = control[g].revision /\ a.path = control[g].path

\* An accepted change follows the revision its operator knew, and no other
\* change took the same revision (validateExpectedRevision, the upsert's WHERE).
NoLostChange ==
  \A c \in Change :
    change[c].pc = "changed" =>
      {a.by : a \in {b \in audit : b.gate = GateOf[c] /\ b.revision = change[c].expected + 1}}
        = {c}

\* Evaluations of one invocation never disagree, however their transactions and
\* control changes interleave: the first recorded decision is everyone's, or
\* the control was unavailable (insertEvaluation's ON CONFLICT, readEvaluation).
EvaluationsAgree ==
  \A q, r \in Request :
    /\ InvocationOf[q] = InvocationOf[r]
    /\ request[q].pc = "answered" /\ request[r].pc = "answered"
    /\ "unavailable" \notin {request[q].decision.source, request[r].decision.source}
    => request[q].decision = request[r].decision

\* A decision is an audited control change of a candidate gate, and no control
\* that the evaluation could see when it began is more specific.
DecisionsJustified ==
  \A q \in Request :
    LET i == InvocationOf[q]
        d == request[q].decision
        Known(n) == Candidates[i][n] \in request[q].known
    IN
    /\ d.source = "control" =>
         \E n \in DOMAIN Candidates[i] :
           /\ d.gate = Candidates[i][n]
           /\ \E a \in audit : a.gate = d.gate /\ a.revision = d.revision /\ a.path = d.path
           /\ request[q].pc \in {"insert", "commit"} => \A k \in 1..(n - 1) : ~Known(k)
    /\ d.source = "unconfigured" /\ request[q].pc \in {"insert", "commit"} =>
         \A n \in DOMAIN Candidates[i] : ~Known(n)

\* "The replacement path is selected only by a matching, durable control
\* record": a caller on it has a recorded evaluation and an audited change.
ReplacementIsDurable ==
  \A i \in Invocation :
    caller[i] = "replacement" =>
      /\ i \in retired \/ evaluation[i].path = "replacement"
      /\ \E n \in DOMAIN Candidates[i] :
           \E a \in audit : a.gate = Candidates[i][n] /\ a.path = "replacement"

================================================================================
