--------------------------- MODULE RolloutGateProofs ---------------------------
(***************************************************************************)
(* Proofs about RolloutGate, for any gates, invocations, requests, changes *)
(* and candidates.                                                         *)
(*                                                                         *)
(* A change counts one record of the audit, and the records of a gate      *)
(* count its revisions: so a revision never leaves Revision.  Decisions    *)
(* rest on the audit, which only grows, and on the recorded evaluation,    *)
(* which only the first commit writes.                                     *)
(***************************************************************************)
EXTENDS RolloutGate, FiniteSetTheorems, WellFoundedInduction, NaturalsInduction, TLAPS

(* The audit numbers the revisions of a gate; every record is of one change. *)
Records(g) == {a \in audit : a.gate = g}
AuditCounts ==
  /\ IsFiniteSet(audit)
  /\ \A a, b \in audit : a.by = b.by => a = b
  /\ \A a, b \in audit : a.gate = b.gate /\ a.revision = b.revision => a = b
  /\ \A a \in audit : change[a.by].pc \in {"changed", "failed"}
  /\ \A g \in Gate : {a.revision : a \in Records(g)} = 1..control[g].revision
  /\ \A g \in Gate : Cardinality(Records(g)) = control[g].revision
  /\ \A g \in Gate : control[g] # NoControl =>
       \E a \in Records(g) : a.revision = control[g].revision /\ a.path = control[g].path

(* A change that holds the row writes the revision its operator asked for.  *)
ChangeOf(c) ==
  /\ change[c].pc = "upsert" => change[c].expected <= control[GateOf[c]].revision
  /\ change[c].pc = "audit" =>
       /\ change[c].revision = control[GateOf[c]].revision + 1
       /\ change[c].revision = change[c].expected + 1
       /\ ~Locked(c)
  /\ change[c].pc = "changed" =>
       \E a \in audit :
         a.by = c /\ a.gate = GateOf[c] /\ a.revision = change[c].expected + 1

ChangeInv == AuditCounts /\ \A c \in Change : ChangeOf(c)

(* What a decision for invocation i rests on.                               *)
Backed(i, d) ==
  /\ d.path = "replacement" => d.source = "control"
  /\ d.source = "control" =>
       \E n \in DOMAIN Candidates[i] :
         /\ d.gate = Candidates[i][n]
         /\ \E a \in audit : a.gate = d.gate /\ a.revision = d.revision /\ a.path = d.path

(* No control the evaluation knew of is more specific than the one decided. *)
MostSpecific(q) ==
  LET i == InvocationOf[q]
      d == request[q].decision
  IN  /\ d.source \in {"control", "unconfigured"}
      /\ d.source = "control" =>
           \E n \in DOMAIN Candidates[i] :
             /\ d.gate = Candidates[i][n]
             /\ \A k \in 1..(n - 1) : Candidates[i][k] \notin request[q].known
      /\ d.source = "unconfigured" =>
           \A n \in DOMAIN Candidates[i] : Candidates[i][n] \notin request[q].known

InvocationInv(i) ==
  /\ Recorded(i) => evaluation[i].source \in {"control", "unconfigured"}
  /\ Backed(i, evaluation[i])
  /\ caller[i] = "replacement" =>
       /\ i \in retired \/ evaluation[i].path = "replacement"
       /\ \E n \in DOMAIN Candidates[i] :
            \E a \in audit : a.gate = Candidates[i][n] /\ a.path = "replacement"

RequestInv(q) ==
  /\ Backed(InvocationOf[q], request[q].decision)
  /\ request[q].known \subseteq Configured
  /\ request[q].pc \in {"insert", "commit"} => MostSpecific(q)
  /\ request[q].pc = "commit" => ~Recorded(InvocationOf[q]) /\ ~KeyHeld(q)
  /\ Evaluating(q) => InvocationOf[q] \notin retired
  /\ /\ request[q].pc = "answered"
     /\ request[q].decision.source # "unavailable"
     /\ InvocationOf[q] \notin retired
     => evaluation[InvocationOf[q]] = request[q].decision

EvaluationInv ==
  /\ \A i \in Invocation : InvocationInv(i)
  /\ \A q \in Request : RequestInv(q)
  /\ EvaluationsAgree

IInv == TypeOK /\ ChangeInv /\ EvaluationInv

--------------------------------------------------------------------------------
(* The most specific of the matching candidates exists.                     *)
LEMMA LeastExists ==
  ASSUME NEW T, T \subseteq Nat, T # {}
  PROVE  \E x \in T : \A y \in T : x <= y
<1>1. PICK x \in T : \A y \in T : ~ (<<y, x>> \in OpToRel(<, Nat))
  BY NatLessThanWellFounded, WFMin, Zenon
<1>2. \A y \in T : ~ (<<y, x>> \in {ss \in Nat \X Nat : ss[1] < ss[2]})
  BY <1>1, Zenon DEF OpToRel
<1>3. \A y \in T : ~ (y < x)
  BY <1>2
<1> QED
  BY <1>3

LEMMA InitInv == Init => IInv
<1> SUFFICES ASSUME Init
             PROVE  IInv
  OBVIOUS
<1> USE ConstantsAssumption
<1>1. 0 \in Revision
  BY FS_CardinalityType DEF Revision
<1>2. TypeOK
  BY <1>1 DEF Init, TypeOK, Control, Decision, NoControl, NoDecision, Fallback, Path
<1>3. AuditCounts
  <2>1. audit = {} /\ \A g \in Gate : control[g] = NoControl /\ Records(g) = {}
    BY DEF Init, Records
  <2>2. \A g \in Gate : {a.revision : a \in Records(g)} = 1..control[g].revision
    BY <2>1 DEF NoControl
  <2>3. \A g \in Gate : Cardinality(Records(g)) = control[g].revision
    <3>1. \A g \in Gate : Cardinality(Records(g)) = 0
      BY <2>1, FS_EmptySet, Zenon
    <3> QED
      BY <2>1, <3>1 DEF NoControl
  <2> QED
    BY <2>1, <2>2, <2>3, FS_EmptySet DEF AuditCounts
<1>4. ChangeInv
  BY <1>3 DEF ChangeInv, ChangeOf, Init
<1>5. EvaluationInv
  BY DEF Init, EvaluationInv, InvocationInv, RequestInv, EvaluationsAgree, Recorded, Backed,
         Evaluating, NoDecision, Fallback
<1> QED
  BY <1>2, <1>4, <1>5 DEF IInv

--------------------------------------------------------------------------------
(* Changes.                                                                 *)

(* A change that is not over has no record yet, so one more fits.           *)
LEMMA RevisionFits ==
  ASSUME TypeOK, ChangeInv, NEW c \in Change, change[c].pc = "upsert"
  PROVE  control[GateOf[c]].revision + 1 \in Revision
<1> USE ConstantsAssumption
<1> DEFINE g == GateOf[c]
           others == Change \ {c}
           f == [a \in Records(g) |-> a.by]
<1>1. IsFiniteSet(others) /\ Cardinality(others) = Cardinality(Change) - 1
      /\ Cardinality(Change) \in Nat
  BY FS_RemoveElement, FS_CardinalityType
<1>2. f \in Injection(Records(g), others)
  <2>1. \A a \in Records(g) : a.by \in others
    BY DEF ChangeInv, AuditCounts, Records, TypeOK, Audit
  <2>2. \A a, b \in Records(g) : a.by = b.by => a = b
    BY DEF ChangeInv, AuditCounts, Records
  <2> QED
    BY <2>1, <2>2 DEF Injection, IsInjective
<1>3. Cardinality(Records(g)) <= Cardinality(others)
  <2> HIDE DEF f, others, g
  <2>1. \A S, T : \A h \in Injection(S, T) :
          IsFiniteSet(T) => Cardinality(S) <= Cardinality(T)
    BY FS_Injection
  <2> QED
    BY <1>1, <1>2, <2>1
<1>4. g \in Gate
  OBVIOUS
<1>5. Cardinality(Records(g)) = control[g].revision /\ control[g].revision \in Nat
  BY <1>1, <1>4 DEF ChangeInv, AuditCounts, TypeOK, Control, Revision
<1>6. Cardinality(Records(g)) <= Cardinality(Change) - 1
  BY <1>1, <1>3
<1> HIDE DEF g
<1>7. control[g].revision + 1 \in 0..Cardinality(Change)
  BY <1>1, <1>5, <1>6
<1> QED
  BY <1>7 DEF Revision, g

(* What the evaluations rest on is kept while the audit grows.              *)
LEMMA EvaluationFrame ==
  ASSUME IInv, UNCHANGED <<evaluation, request, caller, retired>>,
         audit \subseteq audit', Configured \subseteq Configured'
  PROVE  EvaluationInv'
<1>1. \A i \in Invocation, d \in Decision : Backed(i, d) => Backed(i, d)'
  BY DEF Backed
<1>2. \A i \in Invocation : InvocationInv(i)'
  <2> SUFFICES ASSUME NEW i \in Invocation
               PROVE  InvocationInv(i)'
    OBVIOUS
  <2>1. evaluation[i] \in Decision /\ InvocationInv(i)
    BY DEF IInv, EvaluationInv, TypeOK
  <2> QED
    BY <1>1, <2>1 DEF InvocationInv, Recorded
<1>3. \A q \in Request : RequestInv(q)'
  <2> SUFFICES ASSUME NEW q \in Request
               PROVE  RequestInv(q)'
    OBVIOUS
  <2>1. /\ request[q].decision \in Decision /\ InvocationOf[q] \in Invocation
        /\ RequestInv(q)
    BY ConstantsAssumption DEF IInv, EvaluationInv, TypeOK
  <2> QED
    BY <1>1, <2>1 DEF RequestInv, Recorded, Evaluating, KeyHeld, MostSpecific
<1>4. EvaluationsAgree'
  BY DEF IInv, EvaluationInv, EvaluationsAgree
<1> QED
  BY <1>2, <1>3, <1>4 DEF EvaluationInv

(* The step of a change alone.                                              *)
ChangeState ==
  [pc : {"idle", "validate", "upsert", "audit", "changed", "conflict", "failed"},
   expected : Revision, path : Path, revision : Revision]
LEMMA ProceedType ==
  ASSUME TypeOK, NEW c \in Change,
         NEW pc \in {"upsert", "changed", "conflict", "failed"}, Proceed(c, pc)
  PROVE  /\ change' \in [Change -> ChangeState]
         /\ change'[c] = [change[c] EXCEPT !.pc = pc]
         /\ \A d \in Change \ {c} : change'[d] = change[d]
  BY DEF Proceed, TypeOK, ChangeState
LEMMA FaultType ==
  ASSUME TypeOK, Fault
  PROVE  faults' \in 0..MaxFaults
  BY ConstantsAssumption DEF TypeOK, Fault

(* A change that takes a step short of its commit.                          *)
LEMMA PendingChange ==
  ASSUME IInv, NEW c \in Change,
         Propose(c) \/ Validate(c) \/ Upsert(c) \/ ChangeFails(c)
  PROVE  TypeOK' /\ ChangeInv'
<1> USE ConstantsAssumption
<1>0. TypeOK /\ ChangeInv /\ 0 \in Revision
  BY FS_CardinalityType DEF IInv, Revision
<1>1. UNCHANGED <<control, audit, evaluation, request, caller, retired>>
  BY DEF Propose, Validate, Upsert, ChangeFails, Proceed
<1>2. /\ change' \in [Change -> ChangeState]
      /\ faults' \in 0..MaxFaults
      /\ \A d \in Change \ {c} : change'[d] = change[d]
  <2>1. CASE Propose(c)
    BY <1>0, <2>1 DEF Propose, TypeOK, ChangeState
  <2>2. CASE Validate(c)
    <3>1. faults' = faults /\ (Proceed(c, "upsert") \/ Proceed(c, "conflict"))
      BY <2>2 DEF Validate
    <3> QED
      BY <1>0, <3>1, ProceedType DEF TypeOK
  <2>3. CASE Upsert(c)
    <3>1. CASE ~Matches(c)
      <4>1. Proceed(c, "conflict") /\ faults' = faults
        BY <2>3, <3>1 DEF Upsert
      <4> QED
        BY <1>0, <4>1, ProceedType DEF TypeOK
    <3>2. CASE Matches(c)
      <4>1. change[c].pc = "upsert" /\ control[GateOf[c]].revision + 1 \in Revision
        BY <1>0, <2>3, RevisionFits DEF Upsert
      <4>2. /\ change' = [change EXCEPT ![c].pc = "audit",
                            ![c].revision = control[GateOf[c]].revision + 1]
            /\ faults' = faults
        BY <2>3, <3>2 DEF Upsert
      <4>3. change \in [Change -> ChangeState] /\ faults \in 0..MaxFaults
        BY <1>0 DEF TypeOK, ChangeState
      <4>4. /\ change'[c] = [change[c] EXCEPT !.pc = "audit",
                                 !.revision = control[GateOf[c]].revision + 1]
            /\ \A d \in Change \ {c} : change'[d] = change[d]
        BY <4>2, <4>3
      <4>5. change'[c] \in ChangeState
        BY <4>1, <4>3, <4>4 DEF ChangeState
      <4>6. change' \in [Change -> ChangeState]
        BY <4>2, <4>3, <4>4, <4>5
      <4> QED
        BY <4>2, <4>3, <4>4, <4>6
    <3> QED
      BY <3>1, <3>2
  <2>4. CASE ChangeFails(c)
    BY <1>0, <2>4, ProceedType, FaultType DEF ChangeFails
  <2> QED
    BY <2>1, <2>2, <2>3, <2>4
<1>3. TypeOK'
  BY <1>0, <1>1, <1>2 DEF TypeOK, ChangeState
<1>4. change[c].pc \notin {"changed", "failed"}
  BY DEF Propose, Validate, Upsert, ChangeFails
<1>5. AuditCounts'
  <2>1. \A a \in audit : a.by # c /\ a.by \in Change
    BY <1>0, <1>4 DEF ChangeInv, AuditCounts, TypeOK, Audit
  <2>2. \A a \in audit : change'[a.by].pc \in {"changed", "failed"}
    BY <1>0, <1>2, <2>1 DEF ChangeInv, AuditCounts
  <2>3. \A g \in Gate : Records(g)' = Records(g)
    BY <1>1 DEF Records
  <2> QED
    BY <1>0, <1>1, <2>2, <2>3 DEF ChangeInv, AuditCounts
<1>6. ChangeOf(c)' /\ (change'[c].pc = "audit" => change[c].pc = "upsert" /\ ~Locked(c))
  <2>1. CASE Propose(c)
    BY <1>0, <2>1 DEF Propose, TypeOK, ChangeOf
  <2>2. CASE Validate(c)
    <3>1. change'[c].pc = "conflict" \/ (change'[c].pc = "upsert" /\
            change'[c].expected = control'[GateOf[c]].revision)
      BY <1>0, <1>1, <2>2 DEF Validate, Proceed, TypeOK
    <3>2. control'[GateOf[c]].revision \in Nat
      BY <1>3, <1>0, FS_CardinalityType DEF TypeOK, Control, Revision
    <3> QED
      BY <3>1, <3>2 DEF ChangeOf
  <2>3. CASE Upsert(c)
    <3>1. CASE ~Matches(c)
      BY <1>0, <2>3, <3>1 DEF Upsert, Proceed, TypeOK, ChangeOf
    <3>2. CASE Matches(c)
      <4>1. /\ change'[c].pc = "audit" /\ change'[c].expected = change[c].expected
            /\ change'[c].revision = control[GateOf[c]].revision + 1
        BY <1>0, <2>3, <3>2 DEF Upsert, TypeOK
      <4>2. change[c].expected = control[GateOf[c]].revision
        <5>1. change[c].expected \in Nat /\ control[GateOf[c]].revision \in Nat
          BY <1>0, FS_CardinalityType DEF TypeOK, Control, Revision
        <5>2. change[c].expected <= control[GateOf[c]].revision
          BY <1>0, <2>3 DEF ChangeInv, ChangeOf, Upsert
        <5>3. control[GateOf[c]] = NoControl => control[GateOf[c]].revision = 0
          BY DEF NoControl
        <5> QED
          BY <3>2, <5>1, <5>2, <5>3 DEF Matches
      <4>3. ~Locked(c) /\ change[c].pc = "upsert" /\ ~Locked(c)'
        BY <1>2, <2>3 DEF Upsert, Locked
      <4> QED
        BY <1>1, <4>1, <4>2, <4>3 DEF ChangeOf
    <3> QED
      BY <3>1, <3>2
  <2>4. CASE ChangeFails(c)
    BY <1>0, <2>4 DEF ChangeFails, Proceed, TypeOK, ChangeOf
  <2> QED
    BY <2>1, <2>2, <2>3, <2>4
<1>7. \A d \in Change \ {c} : ChangeOf(d)'
  <2> SUFFICES ASSUME NEW d \in Change \ {c}
               PROVE  ChangeOf(d)'
    OBVIOUS
  <2>1. change'[d] = change[d] /\ ChangeOf(d)
    BY <1>0, <1>2 DEF ChangeInv
  <2>2. change[d].pc = "audit" => ~Locked(d)'
    BY <1>2, <1>6, <2>1 DEF ChangeOf, Locked
  <2> QED
    BY <1>1, <2>1, <2>2 DEF ChangeOf
<1> QED
  BY <1>3, <1>5, <1>6, <1>7 DEF ChangeInv

(* The commit of a change adds one record, of the next revision.            *)
LEMMA CommitStep ==
  ASSUME IInv, NEW c \in Change, CommitChange(c)
  PROVE  /\ TypeOK' /\ ChangeInv'
         /\ audit \subseteq audit' /\ Configured \subseteq Configured'
<1> USE ConstantsAssumption
<1> DEFINE g == GateOf[c]
           n == change[c].revision
           new == [gate |-> g, revision |-> n, path |-> change[c].path, by |-> c]
<1>0. TypeOK /\ ChangeInv /\ change[c].pc = "audit" /\ g \in Gate
  BY DEF IInv, CommitChange
<1>1. /\ n = control[g].revision + 1 /\ n = change[c].expected + 1
      /\ control[g].revision \in Nat /\ n \in Revision /\ n \in Nat /\ ~Locked(c)
  BY <1>0, FS_CardinalityType DEF ChangeInv, ChangeOf, TypeOK, Control, Revision
<1>2. /\ control' = [control EXCEPT ![g] = [revision |-> n, path |-> change[c].path]]
      /\ audit' = audit \union {new}
      /\ UNCHANGED <<evaluation, request, caller, retired>>
  BY DEF CommitChange
<1>3. /\ change' \in [Change -> ChangeState]
      /\ change'[c].pc \in {"changed", "failed"}
      /\ change'[c].expected = change[c].expected
      /\ \A d \in Change \ {c} : change'[d] = change[d]
  <2>1. change[c] \in ChangeState
    BY <1>0 DEF TypeOK, ChangeState
  <2>2. PICK pc \in {"changed", "failed"} : Proceed(c, pc)
    BY DEF CommitChange
  <2>3. change'[c] = [change[c] EXCEPT !.pc = pc]
    BY <1>0, <2>2, ProceedType
  <2>4. change'[c].pc = pc /\ change'[c].expected = change[c].expected
    BY <2>1, <2>3 DEF ChangeState
  <2> QED
    BY <1>0, <2>2, <2>4, ProceedType
<1>4. /\ control'[g] = [revision |-> n, path |-> change[c].path]
      /\ \A h \in Gate \ {g} : control'[h] = control[h]
  BY <1>0, <1>2 DEF TypeOK
<1>5. new \in Audit /\ change[c].path \in Path
  BY <1>0, <1>1 DEF Audit, TypeOK
<1>6. TypeOK'
  <2>1. control' \in [Gate -> Control]
    BY <1>0, <1>1, <1>2, <1>5 DEF TypeOK, Control
  <2>2. audit' \subseteq Audit
    BY <1>0, <1>2, <1>5 DEF TypeOK
  <2> QED
    <3>1. faults' \in 0..MaxFaults
      BY <1>0, FaultType DEF CommitChange, TypeOK
    <3> QED
      BY <1>0, <1>2, <1>3, <2>1, <2>2, <3>1 DEF TypeOK, ChangeState
<1>7. Configured \subseteq Configured'
  <2>1. control'[g].revision # 0
    BY <1>1, <1>4
  <2>2. control'[g] # NoControl
    BY <2>1 DEF NoControl
  <2> HIDE DEF g
  <2> QED
    BY <1>4, <2>2 DEF Configured
<1>8. \A a \in audit : a.by # c /\ a.by \in Change /\ (a.gate = g => a.revision # n)
  <2> SUFFICES ASSUME NEW a \in audit
               PROVE  a.by # c /\ a.by \in Change /\ (a.gate = g => a.revision # n)
    OBVIOUS
  <2>1. a.by # c /\ a.by \in Change
    BY <1>0 DEF ChangeInv, AuditCounts, TypeOK, Audit
  <2>2. ASSUME a.gate = g
        PROVE  a.revision # n
    <3>1. a \in Records(g)
      BY <2>2 DEF Records
    <3>2. a.revision \in 1..control[g].revision
      BY <1>0, <3>1 DEF ChangeInv, AuditCounts
    <3> QED
      BY <1>1, <3>2
  <2> QED
    BY <2>1, <2>2
<1>9. AuditCounts'
  <2>1. IsFiniteSet(audit')
    BY <1>0, <1>2, FS_AddElement DEF ChangeInv, AuditCounts
  <2>2. /\ \A a, b \in audit' : a.by = b.by => a = b
        /\ \A a, b \in audit' : a.gate = b.gate /\ a.revision = b.revision => a = b
    BY <1>0, <1>2, <1>8 DEF ChangeInv, AuditCounts
  <2>3. \A a \in audit' : change'[a.by].pc \in {"changed", "failed"}
    <3>1. \A a \in audit : change'[a.by].pc \in {"changed", "failed"}
      BY <1>0, <1>3, <1>8 DEF ChangeInv, AuditCounts
    <3> QED
      BY <1>2, <1>3, <3>1
  <2>4. \A h \in Gate \ {g} : Records(h)' = Records(h)
    BY <1>2 DEF Records
  <2>5. Records(g)' = Records(g) \union {new} /\ new \notin Records(g)
    BY <1>2, <1>8 DEF Records
  <2>6. \A h \in Gate : {a.revision : a \in Records(h)'} = 1..control'[h].revision
    <3>1. {a.revision : a \in Records(g)} = 1..control[g].revision
      BY <1>0 DEF ChangeInv, AuditCounts
    <3>2. {a.revision : a \in Records(g)'} = {a.revision : a \in Records(g)} \union {n}
      BY <2>5
    <3>3. 1..n = (1..control[g].revision) \union {n}
      BY <1>1
    <3>4. control'[g].revision = n
      BY <1>4
    <3>5. {a.revision : a \in Records(g)'} = 1..control'[g].revision
      BY <3>1, <3>2, <3>3, <3>4, Zenon
    <3> QED
      BY <1>0, <1>4, <2>4, <3>5 DEF ChangeInv, AuditCounts
  <2>7. \A h \in Gate : Cardinality(Records(h)') = control'[h].revision
    <3>1. IsFiniteSet(Records(g)) /\ Cardinality(Records(g)) = control[g].revision
      BY <1>0, FS_Subset DEF ChangeInv, AuditCounts, Records
    <3>2. Cardinality(Records(g)') = control[g].revision + 1
      BY <2>5, <3>1, FS_AddElement
    <3> QED
      BY <1>0, <1>1, <1>4, <2>4, <3>2 DEF ChangeInv, AuditCounts
  <2>8. \A h \in Gate : control'[h] # NoControl =>
          \E a \in Records(h)' : a.revision = control'[h].revision /\ a.path = control'[h].path
    BY <1>0, <1>4, <2>4, <2>5 DEF ChangeInv, AuditCounts
  <2>9. (/\ \A h \in Gate : {a.revision : a \in Records(h)} = 1..control[h].revision
         /\ \A h \in Gate : Cardinality(Records(h)) = control[h].revision)'
    BY <2>6, <2>7
  <2> QED
    BY <2>1, <2>2, <2>3, <2>8, <2>9, Zenon DEF AuditCounts
<1>10. ChangeOf(c)'
  <2>1. change'[c].pc \notin {"upsert", "audit"}
    BY <1>3
  <2>2. new \in audit' /\ new.by = c /\ new.gate = GateOf[c]
        /\ new.revision = change'[c].expected + 1
    BY <1>1, <1>2, <1>3
  <2> QED
    BY <2>1, <2>2 DEF ChangeOf
<1>11. \A d \in Change \ {c} : ChangeOf(d)'
  <2> SUFFICES ASSUME NEW d \in Change \ {c}
               PROVE  ChangeOf(d)'
    OBVIOUS
  <2>1. change'[d] = change[d] /\ ChangeOf(d) /\ GateOf[d] \in Gate
    BY <1>0, <1>3 DEF ChangeInv
  <2>2. change[d].pc = "audit" => ~Locked(d)' /\ GateOf[d] # g
    BY <1>0, <1>1, <1>3, <2>1 DEF ChangeOf, Locked
  <2>3. change[d].pc = "upsert" => change[d].expected <= control'[GateOf[d]].revision
    <3>1. change[d].expected \in Nat /\ control[GateOf[d]].revision \in Nat
      BY <1>0, <2>1, FS_CardinalityType DEF TypeOK, Control, Revision
    <3>2. CASE GateOf[d] = g
      BY <1>1, <1>4, <2>1, <3>1, <3>2 DEF ChangeOf
    <3>3. CASE GateOf[d] # g
      BY <1>4, <2>1, <3>3 DEF ChangeOf
    <3> QED
      BY <3>2, <3>3
  <2>4. change[d].pc = "audit" => control'[GateOf[d]] = control[GateOf[d]]
    BY <1>4, <2>1, <2>2
  <2> QED
    BY <1>2, <2>1, <2>2, <2>3, <2>4 DEF ChangeOf
<1> QED
  BY <1>2, <1>6, <1>7, <1>9, <1>10, <1>11 DEF ChangeInv

LEMMA ChangingInv ==
  ASSUME IInv, NEW c \in Change, Changing(c)
  PROVE  IInv'
<1>1. CASE Propose(c) \/ Validate(c) \/ Upsert(c) \/ ChangeFails(c)
  <2>1. UNCHANGED <<control, audit, evaluation, request, caller, retired>>
    BY <1>1 DEF Propose, Validate, Upsert, ChangeFails, Proceed
  <2>2. EvaluationInv'
    BY <2>1, EvaluationFrame DEF Configured
  <2> QED
    BY <1>1, <2>2, PendingChange DEF IInv
<1>2. CASE CommitChange(c)
  <2>1. UNCHANGED <<evaluation, request, caller, retired>>
    BY <1>2 DEF CommitChange
  <2> QED
    BY <1>2, <2>1, CommitStep, EvaluationFrame DEF IInv
<1> QED
  BY <1>1, <1>2 DEF Changing

--------------------------------------------------------------------------------
(* Evaluations.                                                             *)
RequestState ==
  [pc : {"idle", "existing", "select", "insert", "reread", "commit", "answered"},
   decision : Decision, known : SUBSET Gate]

LEMMA StepType ==
  ASSUME TypeOK, NEW q \in Request,
         NEW pc \in {"select", "insert", "reread", "commit"}, Step(q, pc)
  PROVE  /\ request' \in [Request -> RequestState]
         /\ request'[q] = [request[q] EXCEPT !.pc = pc]
         /\ request'[q].pc = pc /\ request'[q].decision = request[q].decision
         /\ request'[q].known = request[q].known
         /\ \A r \in Request \ {q} : request'[r] = request[r]
  BY DEF Step, TypeOK, RequestState

LEMMA AnswerType ==
  ASSUME TypeOK, NEW q \in Request, NEW d \in Decision, Answer(q, d)
  PROVE  /\ request' \in [Request -> RequestState]
         /\ request'[q].pc = "answered" /\ request'[q].decision = d
         /\ request'[q].known = request[q].known
         /\ \A r \in Request \ {q} : request'[r] = request[r]
  BY DEF Answer, TypeOK, RequestState

(* A fallback decision is a decision, and rests on nothing.                 *)
LEMMA FallbackIsDecision ==
  ASSUME NEW source \in {"none", "unconfigured", "unavailable"}
  PROVE  /\ Fallback(source) \in Decision /\ Fallback(source).source = source
         /\ \A i : Backed(i, Fallback(source))
<1>1. 0 \in Revision
  BY ConstantsAssumption, FS_CardinalityType DEF Revision
<1> QED
  BY <1>1 DEF Fallback, Decision, Backed, Path

(* A step of an evaluation short of its commit.                             *)
LEMMA EvaluationMoves ==
  ASSUME IInv, NEW q \in Request, request[q].pc # "answered",
         UNCHANGED <<control, audit, evaluation, change, caller, retired>>,
         faults' \in 0..MaxFaults,
         request' \in [Request -> RequestState],
         \A r \in Request \ {q} : request'[r] = request[r],
         RequestInv(q)',
         request'[q].pc = "commit" => ~KeyHeld(q),
         request'[q].pc = "answered" =>
           /\ Evaluating(q)
           /\ request'[q].decision.source # "none"
           /\ \/ request'[q].decision.source = "unavailable"
              \/ request'[q].decision = evaluation[InvocationOf[q]]
  PROVE  IInv'
<1> USE ConstantsAssumption
<1>0. TypeOK /\ ChangeInv /\ EvaluationInv
  BY DEF IInv
<1>1. TypeOK'
  BY <1>0 DEF TypeOK, RequestState
<1>2. ChangeInv'
  BY <1>0 DEF ChangeInv, AuditCounts, ChangeOf, Records, Locked
<1>3. \A i \in Invocation : InvocationInv(i)'
  BY <1>0 DEF EvaluationInv, InvocationInv, Recorded, Backed
<1>4. \A r \in Request : RequestInv(r)'
  <2> SUFFICES ASSUME NEW r \in Request \ {q}
               PROVE  RequestInv(r)'
    OBVIOUS
  <2>1. RequestInv(r) /\ request'[r] = request[r]
    BY <1>0 DEF EvaluationInv
  <2>2. request[r].pc = "commit" => ~KeyHeld(r)'
    BY <2>1 DEF RequestInv, KeyHeld
  <2> QED
    BY <2>1, <2>2 DEF RequestInv, Backed, Configured, MostSpecific, Recorded, Evaluating
<1>5. EvaluationsAgree'
  <2> SUFFICES ASSUME NEW r \in Request, NEW s \in Request,
                      InvocationOf[r] = InvocationOf[s],
                      request'[r].pc = "answered", request'[s].pc = "answered",
                      "unavailable" \notin
                        {request'[r].decision.source, request'[s].decision.source}
               PROVE  request'[r].decision = request'[s].decision
    BY DEF EvaluationsAgree
  <2>1. CASE r # q /\ s # q
    <3>1. request'[r] = request[r] /\ request'[s] = request[s]
      BY <2>1
    <3>2. EvaluationsAgree
      BY <1>0 DEF EvaluationInv
    <3> QED
      BY <3>1, <3>2 DEF EvaluationsAgree
  <2>2. CASE r = q \/ s = q
    <3>1. InvocationOf[q] \notin retired
          /\ request'[q].decision = evaluation[InvocationOf[q]]
      BY <1>0, <2>2 DEF EvaluationInv, RequestInv
    <3>2. \A t \in {r, s} \ {q} : request[t].decision = evaluation[InvocationOf[q]]
      BY <1>0, <2>2, <3>1 DEF EvaluationInv, RequestInv
    <3> QED
      BY <2>2, <3>1, <3>2
  <2> QED
    BY <2>1, <2>2
<1> QED
  BY <1>1, <1>2, <1>3, <1>4, <1>5 DEF IInv, EvaluationInv

(* An answer that is the recorded decision, or a fallback.                  *)
LEMMA AnswerInv ==
  ASSUME IInv, NEW q \in Request, Evaluating(q), NEW d \in Decision, Answer(q, d),
         UNCHANGED <<control, audit, evaluation, change, caller, retired>>,
         faults' \in 0..MaxFaults,
         \/ d = Fallback("unavailable")
         \/ d = evaluation[InvocationOf[q]] /\ Recorded(InvocationOf[q])
  PROVE  IInv'
<1> USE ConstantsAssumption
<1>0. TypeOK /\ RequestInv(q) /\ InvocationInv(InvocationOf[q])
  BY DEF IInv, EvaluationInv
<1>1. /\ request' \in [Request -> RequestState]
      /\ request'[q].pc = "answered" /\ request'[q].decision = d
      /\ request'[q].known = request[q].known
      /\ \A r \in Request \ {q} : request'[r] = request[r]
  BY <1>0, AnswerType
<1>2. Backed(InvocationOf[q], d) /\ d.source # "none"
      /\ (d.source = "unavailable" \/ d = evaluation[InvocationOf[q]])
  BY <1>0, FallbackIsDecision DEF InvocationInv
<1>3. RequestInv(q)'
  <2>1. Backed(InvocationOf[q], request[q].decision)'
    BY <1>1, <1>2 DEF Backed
  <2>2. request'[q].known \subseteq Configured'
    BY <1>0, <1>1 DEF RequestInv, Configured
  <2> QED
    BY <1>1, <1>2, <2>1, <2>2 DEF RequestInv, Evaluating
<1> QED
  BY <1>1, <1>2, <1>3, EvaluationMoves DEF Evaluating

LEMMA ArriveInv ==
  ASSUME IInv, NEW q \in Request, Arrive(q)
  PROVE  IInv'
<1> USE ConstantsAssumption
<1>0. TypeOK /\ RequestInv(q) /\ request[q].pc = "idle"
  BY DEF IInv, EvaluationInv, Arrive
<1>1. /\ request' \in [Request -> RequestState]
      /\ request'[q].pc = "existing" /\ request'[q].decision = request[q].decision
      /\ request'[q].known = Configured
      /\ \A r \in Request \ {q} : request'[r] = request[r]
  <2> DEFINE arrived == [request[q] EXCEPT !.pc = "existing", !.known = Configured]
  <2>1. request \in [Request -> RequestState] /\ request[q] \in RequestState
    <3>1. request \in [Request -> RequestState]
      BY <1>0, Zenon DEF TypeOK, RequestState
    <3> QED
      BY <3>1
  <2>2. Configured \in SUBSET Gate
    BY DEF Configured
  <2>3. /\ arrived \in RequestState /\ arrived.pc = "existing"
        /\ arrived.decision = request[q].decision /\ arrived.known = Configured
    BY <2>1, <2>2 DEF RequestState
  <2>4. request' = [request EXCEPT ![q] = arrived]
    BY <2>1 DEF Arrive, RequestState
  <2> HIDE DEF arrived
  <2> QED
    BY <2>1, <2>3, <2>4
<1>2. UNCHANGED <<control, audit, evaluation, change, caller, retired, faults>>
  BY DEF Arrive
<1>3. RequestInv(q)'
  BY <1>0, <1>1, <1>2 DEF Arrive, RequestInv, Backed, Configured, Evaluating
<1> QED
  BY <1>0, <1>1, <1>2, <1>3, EvaluationMoves DEF TypeOK

LEMMA ReadExistingInv ==
  ASSUME IInv, NEW q \in Request, ReadExisting(q)
  PROVE  IInv'
<1> USE ConstantsAssumption
<1> DEFINE i == InvocationOf[q]
<1>0. TypeOK /\ RequestInv(q) /\ request[q].pc = "existing" /\ Evaluating(q)
      /\ evaluation[i] \in Decision
  BY DEF IInv, EvaluationInv, ReadExisting, Evaluating, TypeOK
<1>1. UNCHANGED <<control, audit, evaluation, change, caller, retired, faults>>
      /\ faults' \in 0..MaxFaults
  BY <1>0 DEF ReadExisting, TypeOK
<1>2. CASE Recorded(i)
  BY <1>0, <1>1, <1>2, AnswerInv DEF ReadExisting
<1>3. CASE ~Recorded(i)
  <2>1. Step(q, "select")
    BY <1>3 DEF ReadExisting
  <2>2. /\ request' \in [Request -> RequestState]
        /\ request'[q].pc = "select" /\ request'[q].decision = request[q].decision
        /\ request'[q].known = request[q].known
        /\ \A r \in Request \ {q} : request'[r] = request[r]
    BY <1>0, <2>1, StepType
  <2>3. RequestInv(q)'
    BY <1>0, <1>1, <2>2 DEF RequestInv, Backed, Configured, Evaluating
  <2> QED
    BY <1>0, <1>1, <2>2, <2>3, EvaluationMoves
<1> QED
  BY <1>2, <1>3

(* What is selected is stored, or there is nothing to select.               *)
LEMMA SelectedBacked ==
  ASSUME IInv, NEW i \in Invocation
  PROVE  /\ Selected(i) \in Decision /\ Backed(i, Selected(i))
         /\ Selected(i).source \in {"control", "unconfigured"}
         /\ Selected(i).source = "control" =>
              \E n \in DOMAIN Candidates[i] :
                /\ Selected(i).gate = Candidates[i][n]
                /\ \A k \in 1..(n - 1) : Candidates[i][k] \notin Configured
         /\ Selected(i).source = "unconfigured" =>
              \A n \in DOMAIN Candidates[i] : Candidates[i][n] \notin Configured
<1> USE ConstantsAssumption
<1> DEFINE C == Candidates[i]
           matching == {n \in DOMAIN C : C[n] \in Configured}
<1>0. TypeOK /\ ChangeInv
  BY DEF IInv
<1>1. C \in Seq(Gate) /\ DOMAIN C = 1..Len(C) /\ Len(C) \in Nat
      /\ \A n \in DOMAIN C : C[n] \in Gate
  OBVIOUS
<1>2. FirstMatch(i) = {n \in matching : \A k \in matching : n <= k}
  BY DEF FirstMatch
<1>3. CASE FirstMatch(i) = {}
  <2>1. matching = {}
    <3>1. matching \subseteq Nat
      BY <1>1
    <3> QED
      BY <1>2, <1>3, <3>1, LeastExists
  <2>2. Selected(i) = Fallback("unconfigured")
    BY <1>3 DEF Selected
  <2> QED
    BY <2>1, <2>2, FallbackIsDecision
<1>4. CASE FirstMatch(i) # {}
  <2> DEFINE n == CHOOSE n \in FirstMatch(i) : TRUE
             g == C[n]
  <2>1. n \in FirstMatch(i)
    BY <1>4
  <2>2. n \in DOMAIN C /\ g \in Configured /\ g \in Gate
        /\ \A k \in matching : n <= k
    BY <1>1, <1>2, <2>1
  <2>3. Selected(i) = [source |-> "control", gate |-> g,
                       revision |-> control[g].revision, path |-> control[g].path]
    BY <1>4 DEF Selected
  <2>4. Selected(i) \in Decision
    BY <1>0, <2>2, <2>3 DEF Decision, TypeOK, Control
  <2>5. \E a \in audit : a.gate = g /\ a.revision = control[g].revision
                        /\ a.path = control[g].path
    BY <1>0, <2>2 DEF ChangeInv, AuditCounts, Configured, Records
  <2> HIDE DEF n
  <2>6. \A k \in 1..(n - 1) : C[k] \notin Configured
    <3> SUFFICES ASSUME NEW k \in 1..(n - 1), C[k] \in Configured
                 PROVE  FALSE
      OBVIOUS
    <3>1. k \in DOMAIN C /\ k \in Nat /\ n \in Nat /\ k < n
      BY <1>1, <2>2
    <3>2. k \in matching
      BY <3>1
    <3> QED
      BY <2>2, <3>1, <3>2
  <2> HIDE DEF g
  <2> QED
    BY <2>2, <2>3, <2>4, <2>5, <2>6 DEF Backed, g
<1> QED
  BY <1>3, <1>4

LEMMA SelectInv ==
  ASSUME IInv, NEW q \in Request, Select(q)
  PROVE  IInv'
<1> USE ConstantsAssumption
<1> DEFINE i == InvocationOf[q]
<1>0. TypeOK /\ RequestInv(q) /\ request[q].pc = "select" /\ Evaluating(q)
      /\ i \in Invocation
  BY DEF IInv, EvaluationInv, Select, Evaluating
<1>1. UNCHANGED <<control, audit, evaluation, change, caller, retired, faults>>
      /\ faults' \in 0..MaxFaults
  BY <1>0 DEF Select, TypeOK
<1>2. /\ request' \in [Request -> RequestState]
      /\ request'[q].pc = "insert" /\ request'[q].decision = Selected(i)
      /\ request'[q].known = request[q].known
      /\ \A r \in Request \ {q} : request'[r] = request[r]
  <2>1. request \in [Request -> RequestState]
    BY <1>0 DEF TypeOK, RequestState
  <2>2. request' = [request EXCEPT ![q].pc = "insert", ![q].decision = Selected(i)]
    BY DEF Select
  <2>3. request'[q] = [request[q] EXCEPT !.pc = "insert", !.decision = Selected(i)]
        /\ \A r \in Request \ {q} : request'[r] = request[r]
    BY <2>1, <2>2
  <2>4. Selected(i) \in Decision
    BY <1>0, SelectedBacked
  <2>5. request'[q] \in RequestState
    BY <2>1, <2>3, <2>4 DEF RequestState
  <2>6. request' \in [Request -> RequestState]
    BY <2>1, <2>2, <2>3, <2>5
  <2> QED
    BY <2>1, <2>3, <2>6 DEF RequestState
<1>3. MostSpecific(q)'
  <2>1. request[q].known \subseteq Configured
    BY <1>0 DEF RequestInv
  <2> QED
    BY <1>0, <1>2, <2>1, SelectedBacked DEF MostSpecific
<1>4. RequestInv(q)'
  <2>1. Backed(i, Selected(i))
    BY <1>0, SelectedBacked
  <2>2. Backed(InvocationOf[q], request[q].decision)'
    BY <1>1, <1>2, <2>1 DEF Backed
  <2> QED
    BY <1>0, <1>1, <1>2, <1>3, <2>2 DEF RequestInv, Configured, Evaluating
<1> QED
  BY <1>0, <1>1, <1>2, <1>4, EvaluationMoves

LEMMA InsertInv ==
  ASSUME IInv, NEW q \in Request, Insert(q)
  PROVE  IInv'
<1> USE ConstantsAssumption
<1>0. TypeOK /\ RequestInv(q) /\ request[q].pc = "insert" /\ Evaluating(q)
  BY DEF IInv, EvaluationInv, Insert, Evaluating
<1>1. UNCHANGED <<control, audit, evaluation, change, caller, retired, faults>>
      /\ faults' \in 0..MaxFaults
  BY <1>0 DEF Insert, TypeOK
<1>2. PICK pc \in {"reread", "commit"} :
        Step(q, pc) /\ (pc = "commit" => ~Recorded(InvocationOf[q]) /\ ~KeyHeld(q))
  BY DEF Insert
<1>3. /\ request' \in [Request -> RequestState]
      /\ request'[q].pc = pc /\ request'[q].decision = request[q].decision
      /\ request'[q].known = request[q].known
      /\ \A r \in Request \ {q} : request'[r] = request[r]
  BY <1>0, <1>2, StepType
<1>4. RequestInv(q)'
  <2>1. MostSpecific(q)'
    BY <1>0, <1>3 DEF RequestInv, MostSpecific
  <2>2. pc = "commit" => ~KeyHeld(q)' /\ ~Recorded(InvocationOf[q])'
    BY <1>1, <1>2, <1>3 DEF KeyHeld, Recorded
  <2> QED
    BY <1>0, <1>1, <1>3, <2>1, <2>2 DEF RequestInv, Backed, Configured, Evaluating
<1> QED
  BY <1>0, <1>1, <1>2, <1>3, <1>4, EvaluationMoves

LEMMA RereadInv ==
  ASSUME IInv, NEW q \in Request, Reread(q) \/ Unavailable(q)
  PROVE  IInv'
<1> USE ConstantsAssumption
<1>0. TypeOK /\ Evaluating(q) /\ evaluation[InvocationOf[q]] \in Decision
  BY DEF IInv, Reread, Unavailable, Evaluating, TypeOK
<1>1. UNCHANGED <<control, audit, evaluation, change, caller, retired>>
      /\ faults' \in 0..MaxFaults
  BY <1>0, FaultType DEF Reread, Unavailable, TypeOK
<1>2. CASE Reread(q) /\ Recorded(InvocationOf[q])
  BY <1>0, <1>1, <1>2, AnswerInv DEF Reread
<1>3. CASE Answer(q, Fallback("unavailable"))
  BY <1>0, <1>1, <1>3, AnswerInv, FallbackIsDecision
<1> QED
  BY <1>2, <1>3 DEF Reread, Unavailable

(* The first commit of an invocation is what everybody answers from then on. *)
LEMMA CommitEvaluationInv ==
  ASSUME IInv, NEW q \in Request, CommitEvaluation(q)
  PROVE  IInv'
<1> USE ConstantsAssumption
<1> DEFINE i == InvocationOf[q]
           d == request[q].decision
<1>0. /\ TypeOK /\ ChangeInv /\ EvaluationInv /\ RequestInv(q)
      /\ request[q].pc = "commit" /\ i \in Invocation /\ d \in Decision
  BY DEF IInv, EvaluationInv, CommitEvaluation, TypeOK
<1>1. /\ ~Recorded(i) /\ ~KeyHeld(q) /\ i \notin retired /\ Backed(i, d)
      /\ d.source \in {"control", "unconfigured"}
  BY <1>0 DEF RequestInv, MostSpecific, Evaluating
<1>2. /\ UNCHANGED <<control, audit, change, caller, retired>>
      /\ evaluation' = [evaluation EXCEPT ![i] = d]
      /\ evaluation'[i] = d
      /\ \A j \in Invocation \ {i} : evaluation'[j] = evaluation[j]
  BY <1>0 DEF CommitEvaluation, TypeOK
<1>3. PICK e \in {d, Fallback("unavailable")} : Answer(q, e)
  BY DEF CommitEvaluation
<1>4. e \in Decision /\ Backed(i, e) /\ e.source # "none"
      /\ (e.source = "unavailable" \/ e = d)
  BY <1>0, <1>1, <1>3, FallbackIsDecision
<1>5. /\ request' \in [Request -> RequestState]
      /\ request'[q].pc = "answered" /\ request'[q].decision = e
      /\ request'[q].known = request[q].known
      /\ \A r \in Request \ {q} : request'[r] = request[r]
  BY <1>0, <1>3, <1>4, AnswerType
<1>6. TypeOK'
  <2>1. faults' \in 0..MaxFaults
    BY <1>0, FaultType DEF CommitEvaluation, TypeOK
  <2>2. /\ evaluation' \in [Invocation -> Decision]
        /\ \A j \in Invocation : evaluation'[j].source # "unavailable"
    BY <1>0, <1>1, <1>2 DEF TypeOK
  <2>3. \A r \in Request : request'[r].pc = "answered" => request'[r].decision.source # "none"
    BY <1>0, <1>4, <1>5 DEF TypeOK
  <2> QED
    BY <1>0, <1>2, <1>5, <2>1, <2>2, <2>3 DEF TypeOK, RequestState
<1>7. ChangeInv'
  BY <1>0, <1>2 DEF ChangeInv, AuditCounts, ChangeOf, Records, Locked
<1>8. evaluation[i] = NoDecision
  BY <1>1 DEF Recorded
<1>9. \A j \in Invocation : InvocationInv(j)'
  <2>1. \A j \in Invocation \ {i} : InvocationInv(j)'
    BY <1>0, <1>2 DEF EvaluationInv, InvocationInv, Recorded, Backed
  <2>2. InvocationInv(i)'
    <3>1. caller[i] # "replacement"
      BY <1>0, <1>1, <1>8 DEF EvaluationInv, InvocationInv, NoDecision, Fallback
    <3>2. Backed(i, evaluation[i])'
      BY <1>1, <1>2 DEF Backed
    <3> QED
      BY <1>1, <1>2, <3>1, <3>2 DEF InvocationInv
  <2> QED
    BY <2>1, <2>2
<1>10. \A r \in Request : InvocationOf[r] = i => request[r].pc # "answered"
                         \/ request[r].decision.source = "unavailable"
  <2> SUFFICES ASSUME NEW r \in Request, InvocationOf[r] = i, request[r].pc = "answered",
                      request[r].decision.source # "unavailable"
               PROVE  FALSE
    OBVIOUS
  <2>1. request[r].decision = NoDecision
    BY <1>0, <1>1, <1>8 DEF EvaluationInv, RequestInv
  <2> QED
    BY <1>0, <2>1 DEF TypeOK, NoDecision, Fallback
<1>11. \A r \in Request : RequestInv(r)'
  <2>1. RequestInv(q)'
    <3>1. Backed(InvocationOf[q], request[q].decision)'
      BY <1>2, <1>4, <1>5 DEF Backed
    <3>2. (request[q].known \subseteq Configured)'
      BY <1>0, <1>2, <1>5 DEF RequestInv, Configured
    <3> QED
      BY <1>2, <1>4, <1>5, <3>1, <3>2 DEF RequestInv, Evaluating
  <2>2. ASSUME NEW r \in Request \ {q}
        PROVE  RequestInv(r)'
    <3>1. RequestInv(r) /\ request'[r] = request[r] /\ InvocationOf[r] \in Invocation
      BY <1>0, <1>5 DEF EvaluationInv
    <3>2. request[r].pc = "commit" => ~KeyHeld(r)' /\ InvocationOf[r] # i
      BY <1>0, <1>1, <1>5, <3>1 DEF RequestInv, KeyHeld
    <3>3. request[r].pc = "commit" => ~Recorded(InvocationOf[r])'
      BY <1>2, <3>1, <3>2 DEF RequestInv, Recorded
    <3>4. Backed(InvocationOf[r], request[r].decision)'
      BY <1>2, <3>1 DEF RequestInv, Backed
    <3>5. request[r].pc = "answered" /\ request[r].decision.source # "unavailable"
            => evaluation'[InvocationOf[r]] = evaluation[InvocationOf[r]]
      BY <1>2, <1>10, <3>1
    <3>6. request[r].pc \in {"insert", "commit"} => MostSpecific(r)'
      BY <3>1 DEF RequestInv, MostSpecific
    <3> QED
      BY <1>2, <3>1, <3>2, <3>3, <3>4, <3>5, <3>6 DEF RequestInv, Configured, Evaluating
  <2> QED
    BY <2>1, <2>2
<1>12. EvaluationsAgree'
  <2>1. \A r \in Request \ {q} : InvocationOf[r] = i => request'[r].pc # "answered"
                               \/ request'[r].decision.source = "unavailable"
    BY <1>5, <1>10
  <2>2. EvaluationsAgree
    BY <1>0 DEF EvaluationInv
  <2> SUFFICES ASSUME NEW r \in Request, NEW s \in Request,
                      InvocationOf[r] = InvocationOf[s],
                      request'[r].pc = "answered", request'[s].pc = "answered",
                      "unavailable" \notin
                        {request'[r].decision.source, request'[s].decision.source}
               PROVE  request'[r].decision = request'[s].decision
    BY DEF EvaluationsAgree
  <2>3. CASE r = q \/ s = q
    <3>1. InvocationOf[r] = i /\ InvocationOf[s] = i
      BY <1>1, <2>3
    <3>2. r = q /\ s = q
      BY <2>1, <2>3, <3>1
    <3> QED
      BY <3>2
  <2>4. CASE r # q /\ s # q
    <3>1. request'[r] = request[r] /\ request'[s] = request[s]
      BY <1>5, <2>4
    <3> QED
      BY <2>2, <3>1 DEF EvaluationsAgree
  <2> QED
    BY <2>3, <2>4
<1> QED
  BY <1>6, <1>7, <1>9, <1>11, <1>12 DEF IInv, EvaluationInv

(* The caller, and the cleanup of what it has used.                         *)
LEMMA CallerInv ==
  ASSUME IInv, NEW i \in Invocation, Ask(i) \/ Follow(i) \/ GiveUp(i)
  PROVE  IInv'
<1> USE ConstantsAssumption
<1>0. TypeOK /\ ChangeInv /\ EvaluationInv /\ InvocationInv(i)
  BY DEF IInv, EvaluationInv
<1>1. UNCHANGED <<control, audit, evaluation, request, change, retired, faults>>
  BY DEF Ask, Follow, GiveUp, Take
<1>2. PICK path \in Path \union {"asking"} :
        /\ caller' = [caller EXCEPT ![i] = path]
        /\ path = "replacement" =>
             \E q \in Request : /\ InvocationOf[q] = i /\ request[q].pc = "answered"
                                /\ request[q].decision.path = "replacement"
  <2>1. CASE Follow(i)
    BY <1>0, <2>1 DEF Follow, Take, TypeOK, Decision, Path
  <2>2. CASE Ask(i) \/ GiveUp(i)
    BY <2>2 DEF Ask, GiveUp, Take, Path
  <2> QED
    BY <2>1, <2>2
<1>3. TypeOK'
  BY <1>0, <1>1, <1>2 DEF TypeOK, Path
<1>4. ChangeInv'
  BY <1>0, <1>1 DEF ChangeInv, AuditCounts, ChangeOf, Records, Locked
<1>5. InvocationInv(i)'
  <2>1. ASSUME path = "replacement"
        PROVE  /\ i \in retired \/ evaluation[i].path = "replacement"
               /\ \E n \in DOMAIN Candidates[i] :
                    \E a \in audit : a.gate = Candidates[i][n] /\ a.path = "replacement"
    <3>1. PICK q \in Request : /\ InvocationOf[q] = i /\ request[q].pc = "answered"
                               /\ request[q].decision.path = "replacement"
      BY <1>2, <2>1
    <3>2. RequestInv(q)
      BY <1>0 DEF EvaluationInv
    <3>3. request[q].decision.source = "control"
      BY <3>1, <3>2 DEF RequestInv, Backed
    <3> QED
      BY <3>1, <3>2, <3>3 DEF RequestInv, Backed
  <2>2. caller'[i] = path
    BY <1>0, <1>2 DEF TypeOK
  <2> QED
    BY <1>0, <1>1, <2>1, <2>2 DEF InvocationInv, Recorded, Backed
<1>6. \A j \in Invocation \ {i} : InvocationInv(j)'
  <2>1. \A j \in Invocation \ {i} : caller'[j] = caller[j]
    BY <1>0, <1>2 DEF TypeOK
  <2> QED
    BY <1>0, <1>1, <2>1 DEF EvaluationInv, InvocationInv, Recorded, Backed
<1>7. \A q \in Request : RequestInv(q)'
  BY <1>0, <1>1
     DEF EvaluationInv, RequestInv, Backed, Configured, MostSpecific, Recorded, KeyHeld, Evaluating
<1>8. EvaluationsAgree'
  BY <1>0, <1>1 DEF EvaluationInv, EvaluationsAgree
<1> QED
  BY <1>3, <1>4, <1>5, <1>6, <1>7, <1>8 DEF IInv, EvaluationInv

LEMMA CleanupInv ==
  ASSUME IInv, NEW i \in Invocation, Cleanup(i)
  PROVE  IInv'
<1> USE ConstantsAssumption
<1>0. TypeOK /\ ChangeInv /\ EvaluationInv /\ InvocationInv(i)
  BY DEF IInv, EvaluationInv
<1>1. /\ UNCHANGED <<control, audit, request, change, caller, faults>>
      /\ retired' = retired \union {i}
      /\ evaluation' = [evaluation EXCEPT ![i] = NoDecision]
      /\ evaluation'[i] = NoDecision
      /\ \A j \in Invocation \ {i} : evaluation'[j] = evaluation[j]
  BY <1>0 DEF Cleanup, TypeOK
<1>2. /\ NoDecision \in Decision /\ NoDecision.source # "unavailable"
      /\ Backed(i, NoDecision)
  BY FallbackIsDecision DEF NoDecision
<1>3. TypeOK'
  BY <1>0, <1>1, <1>2 DEF TypeOK
<1>4. ChangeInv'
  BY <1>0, <1>1 DEF ChangeInv, AuditCounts, ChangeOf, Records, Locked
<1>5. \A j \in Invocation : InvocationInv(j)'
  <2>1. InvocationInv(i)'
    <3>1. Backed(i, evaluation[i])'
      BY <1>1, <1>2 DEF Backed
    <3> QED
      BY <1>0, <1>1, <3>1 DEF InvocationInv, Recorded
  <2>2. \A j \in Invocation \ {i} : InvocationInv(j)'
    BY <1>0, <1>1 DEF EvaluationInv, InvocationInv, Recorded, Backed
  <2> QED
    BY <2>1, <2>2
<1>6. \A q \in Request : RequestInv(q)'
  <2> SUFFICES ASSUME NEW q \in Request
               PROVE  RequestInv(q)'
    OBVIOUS
  <2>1. RequestInv(q) /\ InvocationOf[q] \in Invocation
    BY <1>0 DEF EvaluationInv
  <2>2. Evaluating(q) => InvocationOf[q] # i
    BY DEF Cleanup
  <2> QED
    BY <1>1, <2>1, <2>2
       DEF RequestInv, Backed, Configured, MostSpecific, Recorded, KeyHeld, Evaluating
<1>7. EvaluationsAgree'
  BY <1>0, <1>1 DEF EvaluationInv, EvaluationsAgree
<1> QED
  BY <1>3, <1>4, <1>5, <1>6, <1>7 DEF IInv, EvaluationInv

LEMMA StutterInv == IInv /\ UNCHANGED vars => IInv'
<1> SUFFICES ASSUME IInv, UNCHANGED vars
             PROVE  IInv'
  OBVIOUS
<1> USE DEF vars, IInv
<1>1. TypeOK'
  BY DEF TypeOK
<1>2. ChangeInv'
  BY DEF ChangeInv, AuditCounts, ChangeOf, Records, Locked
<1>3. EvaluationInv'
  BY DEF EvaluationInv, InvocationInv, RequestInv, EvaluationsAgree, Backed, Configured,
         MostSpecific, Recorded, KeyHeld, Evaluating
<1> QED
  BY <1>1, <1>2, <1>3

LEMMA NextInv == IInv /\ [Next]_vars => IInv'
<1> SUFFICES ASSUME IInv, [Next]_vars
             PROVE  IInv'
  OBVIOUS
<1>1. CASE \E c \in Change : Changing(c)
  BY <1>1, ChangingInv
<1>2. CASE \E q \in Request : Evaluation(q)
  BY <1>2, ArriveInv, ReadExistingInv, SelectInv, InsertInv, RereadInv, CommitEvaluationInv
     DEF Evaluation
<1>3. CASE \E i \in Invocation : Calling(i)
  BY <1>3, CallerInv, CleanupInv DEF Calling
<1>4. CASE UNCHANGED vars
  BY <1>4, StutterInv
<1> QED
  BY <1>1, <1>2, <1>3, <1>4 DEF Next

--------------------------------------------------------------------------------
(* The invariant the other theorems rest on.                                *)
THEOREM Inductive == Spec => []IInv
  BY InitInv, NextInv, PTL DEF Spec

(* Types; a revision never exceeds the number of changes (upsertControl).   *)
THEOREM TypeCorrect == Spec => []TypeOK
<1>1. IInv => TypeOK
  BY DEF IInv
<1> QED
  BY <1>1, Inductive, PTL

(* Every revision of a control has its one audit record (insertDecision of
   the control change).                                                     *)
THEOREM Audited == Spec => []ChangesAudited
<1>1. IInv => ChangesAudited
  <2> SUFFICES ASSUME IInv, NEW g \in Gate
               PROVE  LET records == {a \in audit : a.gate = g} IN
                      /\ {a.revision : a \in records} = 1..control[g].revision
                      /\ Cardinality(records) = control[g].revision
                      /\ control[g] # NoControl =>
                           \E a \in records :
                             a.revision = control[g].revision /\ a.path = control[g].path
    BY DEF ChangesAudited
  <2> QED
    BY Zenon DEF IInv, ChangeInv, AuditCounts, Records
<1> QED
  BY <1>1, Inductive, PTL

(* An accepted change follows the revision its operator knew, and is the only
   one that does (validateExpectedRevision).                                *)
THEOREM NoneLost == Spec => []NoLostChange
<1>1. IInv => NoLostChange
  <2> SUFFICES ASSUME IInv, NEW c \in Change, change[c].pc = "changed"
               PROVE  {a.by : a \in {b \in audit : /\ b.gate = GateOf[c]
                                                   /\ b.revision = change[c].expected + 1}}
                        = {c}
    BY DEF NoLostChange
  <2> QED
    BY DEF IInv, ChangeInv, AuditCounts, ChangeOf
<1> QED
  BY <1>1, Inductive, PTL

(* Evaluations of one invocation agree (insertEvaluation, readEvaluation).  *)
THEOREM EvaluationsAlwaysAgree == Spec => []EvaluationsAgree
<1>1. IInv => EvaluationsAgree
  BY DEF IInv, EvaluationInv
<1> QED
  BY <1>1, Inductive, PTL

(* A decision is an audited control of a candidate gate, and the most specific
   one known (evaluationControlKeys, selectControl).                        *)
THEOREM DecisionsAreJustified == Spec => []DecisionsJustified
<1>1. IInv => DecisionsJustified
  <2> SUFFICES ASSUME IInv, NEW q \in Request
               PROVE  LET i == InvocationOf[q]
                          d == request[q].decision
                          Known(n) == Candidates[i][n] \in request[q].known
                      IN
                      /\ d.source = "control" =>
                           \E n \in DOMAIN Candidates[i] :
                             /\ d.gate = Candidates[i][n]
                             /\ \E a \in audit : /\ a.gate = d.gate
                                                 /\ a.revision = d.revision
                                                 /\ a.path = d.path
                             /\ request[q].pc \in {"insert", "commit"} =>
                                  \A k \in 1..(n - 1) : ~Known(k)
                      /\ d.source = "unconfigured" /\ request[q].pc \in {"insert", "commit"} =>
                           \A n \in DOMAIN Candidates[i] : ~Known(n)
    BY DEF DecisionsJustified
  <2>1. RequestInv(q)
    BY DEF IInv, EvaluationInv
  <2> QED
    BY <2>1 DEF RequestInv, Backed, MostSpecific
<1> QED
  BY <1>1, Inductive, PTL

(* The replacement path is taken only by a durable decision of an audited
   change (enqueueStatus).                                                  *)
THEOREM ReplacementDurable == Spec => []ReplacementIsDurable
<1>1. IInv => ReplacementIsDurable
  BY DEF IInv, EvaluationInv, InvocationInv, ReplacementIsDurable
<1> QED
  BY <1>1, Inductive, PTL

================================================================================
