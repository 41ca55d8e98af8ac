------------------------------- MODULE BotDelivery -------------------------------
(***************************************************************************)
(* One Delivery Key of sheet-bot: the reservation that makes a write to    *)
(* Discord happen at most once (executeDelivery), the Recovery Command an  *)
(* operator runs when its outcome is unknown (reconcileDelivery), and the  *)
(* index of unresolved reservations the alerts are computed from (the      *)
(* marker, its metric scan and its backfill).                              *)
(*                                                                         *)
(* Each storage operation is one step: setIfAbsent, compare-and-set,       *)
(* compare-and-remove and single reads and writes are atomic, everything   *)
(* between them interleaves.  A compare-and-set compares whole records.    *)
(***************************************************************************)
EXTENDS Naturals, FiniteSets

CONSTANTS
  Call,       \* requests that carry the Delivery Key; a request reserves once
  Operator,   \* Recovery Commands
  Legacy,     \* the reservation of a release without timestamps and markers
  None,       \* no reservation, operator, input or receipt
  InputOf,    \* operation and input hash of a request
  Attempts,   \* deliveryTransitionAttempts
  MaxFaults   \* bound: interruptions, crashes and storage errors of a behaviour

Origin == Call \union {Legacy}
Input == {InputOf[k] : k \in Call}

ASSUME ConstantsAssumption ==
  /\ IsFiniteSet(Call)
  /\ Legacy \notin Call
  /\ None \notin Origin \union Operator \union Input
  /\ DOMAIN InputOf = Call
  /\ Attempts \in Nat \ {0}
  /\ MaxFaults \in Nat

VARIABLES
  record,      \* what is stored under the Delivery Key
  marker,      \* the key is in the index of unresolved reservations
  call,        \* call[k]: request k
  op,          \* op[o]: Recovery Command o
  aged,        \* reservations at least pendingSafeRetryMinimumAgeMs old
  scan,        \* what the background fiber is about to do
  applied,     \* reservations whose write Discord has made
  granted,     \* Recovery Commands that released a reservation for a retry
  staleGrant,  \* one of them released another reservation than it looked at
  faults

vars == <<record, marker, call, op, aged, scan, applied, granted, staleGrant, faults>>

Record ==
  [state : {"absent", "pending", "ambiguous", "retryable", "completed"},
   input : Input \union {None},
   id : Origin \union {None},            \* reservationId
   note : Operator \union {None},        \* reconciliation
   receipt : Origin \union {None}]
Request ==
  [pc : {"idle", "reserve", "read", "claim", "mark", "release", "effect", "complete",
         "recheck", "clear", "remove", "clearRemoved", "blur", "done"},
   attempt : 1..Attempts,
   held : Record,                        \* the record a compare-and-set expects
   result : {"none", "rejected", "unavailable", "changed", "failed", "error",
             "interrupted", "receipt"},
   receipt : Origin \union {None}]
Recovery ==
  [pc : {"idle", "read", "mark", "write", "clear", "done"},
   resolution : {"Confirmed", "SafeRetry", "Unresolved"},
   about : Origin \union {None},         \* the reservation that was inspected
   receipt : Origin \union {None},
   attempt : 1..Attempts,
   seen : Record]

NoRecord ==
  [state |-> "absent", input |-> None, id |-> None, note |-> None, receipt |-> None]
Pending(k, note) ==
  [state |-> "pending", input |-> InputOf[k], id |-> k, note |-> note, receipt |-> None]

Unresolved(rec) == rec.state \in {"pending", "ambiguous"}
Resolved(rec) == rec.state \in {"absent", "retryable", "completed"}
Running(k) == call[k].pc \notin {"idle", "done"}

\* A fresh key, or one that an older release reserved and never answered; the
\* process starts with its backfill.
Init ==
  /\ \/ record = NoRecord /\ applied = {}
     \/ /\ \E k \in Call : record = [Pending(k, None) EXCEPT !.id = Legacy]
        /\ applied \in {{}, {Legacy}}
  /\ marker = FALSE
  /\ call = [k \in Call |-> [pc |-> "idle", attempt |-> 1, held |-> NoRecord,
                             result |-> "none", receipt |-> None]]
  /\ op = [o \in Operator |-> [pc |-> "idle", resolution |-> "Unresolved", about |-> None,
                               receipt |-> None, attempt |-> 1, seen |-> NoRecord]]
  /\ aged = {Legacy}
  /\ scan = "backfill"
  /\ granted = {}
  /\ staleGrant = FALSE
  /\ faults = 0

Fault ==
  /\ faults < MaxFaults
  /\ faults' = faults + 1

\* Compare-and-set: what is stored afterwards.
Swapped(expected, new) == IF record = expected THEN new ELSE record

--------------------------------------------------------------------------------
(* executeDelivery: a request, by the storage operation it is about to make. *)

Goto(k, pc) == call' = [call EXCEPT ![k].pc = pc]
Hold(k, pc, rec) == call' = [call EXCEPT ![k].pc = pc, ![k].held = rec]
Return(k, result, receipt) ==
  call' = [call EXCEPT ![k] =
             [pc |-> "done", attempt |-> 1, held |-> NoRecord,
              result |-> result, receipt |-> receipt]]
Fail(k, result) == Return(k, result, None)

\* The next turn of the transition loop, or the end of it.
TryAgain(k) ==
  IF call[k].attempt < Attempts
  THEN call' = [call EXCEPT ![k].pc = "reserve", ![k].attempt = @ + 1]
  ELSE Fail(k, "unavailable")

Begin(k) ==
  /\ call[k].pc = "idle"
  /\ Goto(k, "reserve")
  /\ UNCHANGED <<record, marker, op, aged, scan, applied, granted, staleGrant, faults>>

\* Mutants: the record's input is not compared with the request's; whoever
\* read a retryable record takes it; an unknown outcome is taken for a
\* definitive failure, or recorded without its reservation.
SameInputAlways(k) == TRUE
ClaimableEver(k) == record # NoRecord
ReleasedWhenUnknown(k) == NoRecord
AmbiguousUnowned(k) ==
  [state |-> "ambiguous", input |-> InputOf[k], id |-> None,
   note |-> call[k].held.note, receipt |-> None]

SameInput(k) == record.input = InputOf[k]

\* The record is still the retryable one that was read.
StillClaimable(k) == record = call[k].held

CompletedRecord(k) ==
  [state |-> "completed", input |-> InputOf[k], id |-> None,
   note |-> call[k].held.note, receipt |-> k]

AmbiguousRecord(k) ==
  [state |-> "ambiguous", input |-> InputOf[k], id |-> k,
   note |-> call[k].held.note, receipt |-> None]

\* What is stored once the request's storage operation has been made.
Stored(k) ==
  CASE call[k].pc = "reserve"  -> Swapped(NoRecord, Pending(k, None))
    [] call[k].pc = "claim"    -> IF StillClaimable(k)
                                  THEN Pending(k, call[k].held.note) ELSE record
    [] call[k].pc = "complete" -> Swapped(call[k].held, CompletedRecord(k))
    [] call[k].pc = "blur"     -> Swapped(call[k].held, AmbiguousRecord(k))
    [] call[k].pc \in {"remove", "release"} -> Swapped(call[k].held, NoRecord)
    [] OTHER -> record

Reserve(k) ==
  /\ call[k].pc = "reserve"
  /\ record' = Stored(k)
  /\ IF record = NoRecord THEN Hold(k, "mark", Pending(k, None)) ELSE Goto(k, "read")
  /\ UNCHANGED <<marker, op, aged, scan, applied, granted, staleGrant, faults>>

Read(k) ==
  /\ call[k].pc = "read"
  /\ \/ record = NoRecord /\ TryAgain(k)
     \/ record # NoRecord /\ ~SameInput(k) /\ Fail(k, "rejected")
     \/ /\ record # NoRecord /\ SameInput(k)
        /\ \/ record.state = "completed" /\ Return(k, "receipt", record.receipt)
           \/ Unresolved(record) /\ Fail(k, "unavailable")
           \/ record.state = "retryable" /\ Hold(k, "claim", record)
  /\ UNCHANGED <<record, marker, op, aged, scan, applied, granted, staleGrant, faults>>

\* A retryable record is claimed for one attempt; its reconciliation is kept.
Claim(k) ==
  /\ call[k].pc = "claim"
  /\ record' = Stored(k)
  /\ IF StillClaimable(k)
     THEN Hold(k, "mark", Pending(k, call[k].held.note))
     ELSE TryAgain(k)
  /\ UNCHANGED <<marker, op, aged, scan, applied, granted, staleGrant, faults>>

\* markUnresolved, before the provider is called; when it fails the
\* reservation is given back, whether the marker was written or not.
Mark(k) ==
  /\ call[k].pc = "mark"
  /\ \/ marker' = TRUE /\ Goto(k, "effect") /\ UNCHANGED faults
     \/ marker' \in {marker, TRUE} /\ Goto(k, "release") /\ Fault
  /\ UNCHANGED <<record, op, aged, scan, applied, granted, staleGrant>>

Release(k) ==
  /\ call[k].pc = "release"
  /\ record' = Stored(k)
  /\ Fail(k, "error")
  /\ UNCHANGED <<marker, op, aged, scan, applied, granted, staleGrant, faults>>

\* The provider call: done, definitely not done, or unknown.
Effect(k) ==
  /\ call[k].pc = "effect"
  /\ \/ applied' = applied \union {k} /\ Goto(k, "complete")
     \/ UNCHANGED applied /\ Goto(k, "remove")
     \/ applied' \in {applied, applied \union {k}} /\ Goto(k, "blur")
  /\ UNCHANGED <<record, marker, op, aged, scan, granted, staleGrant, faults>>

Complete(k) ==
  /\ call[k].pc = "complete"
  /\ record' = Stored(k)
  /\ IF record = call[k].held
     THEN call' = [call EXCEPT ![k].pc = "clear", ![k].receipt = k]
     ELSE Goto(k, "recheck")
  /\ UNCHANGED <<marker, op, aged, scan, applied, granted, staleGrant, faults>>

\* The reservation was reconciled meanwhile: a receipt that an operator
\* recorded is returned, anything else is reported as a change.
Recheck(k) ==
  /\ call[k].pc = "recheck"
  /\ IF record.state = "completed"
     THEN call' = [call EXCEPT ![k].pc = "clear", ![k].receipt = record.receipt]
     ELSE Fail(k, "changed")
  /\ UNCHANGED <<record, marker, op, aged, scan, applied, granted, staleGrant, faults>>

\* clearUnresolved ignores its errors.
ClearUnresolved ==
  \/ marker' = FALSE /\ UNCHANGED faults
  \/ UNCHANGED marker /\ Fault

Clear(k) ==
  /\ call[k].pc = "clear"
  /\ ClearUnresolved
  /\ Return(k, "receipt", call[k].receipt)
  /\ UNCHANGED <<record, op, aged, scan, applied, granted, staleGrant>>

Remove(k) ==
  /\ call[k].pc = "remove"
  /\ record' = Stored(k)
  /\ IF record = call[k].held THEN Goto(k, "clearRemoved") ELSE Fail(k, "failed")
  /\ UNCHANGED <<marker, op, aged, scan, applied, granted, staleGrant, faults>>

ClearRemoved(k) ==
  /\ call[k].pc = "clearRemoved"
  /\ ClearUnresolved
  /\ Fail(k, "failed")
  /\ UNCHANGED <<record, op, aged, scan, applied, granted, staleGrant>>

\* The unknown outcome is recorded, unless the reservation changed meanwhile.
Blur(k) ==
  /\ call[k].pc = "blur"
  /\ record' = Stored(k)
  /\ Fail(k, "failed")
  /\ UNCHANGED <<marker, op, aged, scan, applied, granted, staleGrant, faults>>

\* A storage operation answers with an error, before or after it took effect.
StorageFails(k) ==
  /\ call[k].pc \in {"reserve", "read", "claim", "release", "complete", "recheck",
                     "remove", "blur"}
  /\ Fault
  /\ record' \in {record, Stored(k)}
  /\ Fail(k, "error")
  /\ UNCHANGED <<marker, op, aged, scan, applied, granted, staleGrant>>

\* The writes that Discord may still have made for requests that were cut off.
CutOff(ks) ==
  \E made \in SUBSET {k \in ks : call[k].pc = "effect"} : applied' = applied \union made

\* A request's fiber is interrupted: nothing it would have done happens.
Interrupt(k) ==
  /\ Running(k)
  /\ Fault
  /\ CutOff({k})
  /\ Fail(k, "interrupted")
  /\ UNCHANGED <<record, marker, op, aged, scan, granted, staleGrant>>

--------------------------------------------------------------------------------
(* reconcileDelivery: an operator looks at the reservation and at Discord, and *)
(* then runs the Recovery Command with what was found.                         *)

GotoOp(o, pc) == op' = [op EXCEPT ![o].pc = pc]
Finish(o) ==
  op' = [op EXCEPT ![o] =
           [pc |-> "done", resolution |-> op[o].resolution, about |-> op[o].about,
            receipt |-> op[o].receipt, attempt |-> 1, seen |-> NoRecord]]

\* The runbook: a receipt is confirmed when Discord shows the write, a retry is
\* safe when Discord shows none and the attempt cannot still be active.
Inspect(o) ==
  /\ op[o].pc = "idle"
  /\ Unresolved(record)
  /\ \E resolution \in {"Confirmed", "SafeRetry", "Unresolved"}, receipt \in applied \union {None} :
       /\ resolution = "Confirmed" <=> receipt # None
       /\ resolution = "SafeRetry" =>
            applied = {} /\ (record.id \in Call => ~Running(record.id))
       /\ op' = [op EXCEPT ![o] =
                   [pc |-> "read", resolution |-> resolution, about |-> record.id,
                    receipt |-> receipt, attempt |-> 1, seen |-> NoRecord]]
  /\ UNCHANGED <<record, marker, call, aged, scan, applied, granted, staleGrant, faults>>

\* Confirmed and retryable records keep their outcome.
Decided(rec) == rec.state \in {"completed", "retryable"}

TooRecent(o) ==
  op[o].resolution = "SafeRetry" /\ record.state = "pending" /\ record.id \notin aged

OpRead(o) ==
  /\ op[o].pc = "read"
  /\ \/ record = NoRecord /\ Finish(o)
     \/ Decided(record) /\ GotoOp(o, "clear")
     \/ /\ record # NoRecord /\ ~Decided(record)
        /\ IF TooRecent(o)
           THEN Finish(o)
           ELSE op' = [op EXCEPT ![o].seen = record,
                         ![o].pc = IF op[o].resolution = "Unresolved" THEN "mark" ELSE "write"]
  /\ UNCHANGED <<record, marker, call, aged, scan, applied, granted, staleGrant, faults>>

\* A reservation that stays unresolved is marked before it is annotated.
OpMark(o) ==
  /\ op[o].pc = "mark"
  /\ \/ marker' = TRUE /\ GotoOp(o, "write") /\ UNCHANGED faults
     \/ marker' \in {marker, TRUE} /\ Finish(o) /\ Fault
  /\ UNCHANGED <<record, call, aged, scan, applied, granted, staleGrant>>

ReconciledRecord(o) ==
  LET seen == op[o].seen IN
  CASE op[o].resolution = "Unresolved" ->
         [state |-> seen.state, input |-> seen.input, id |-> seen.id,
          note |-> o, receipt |-> seen.receipt]
    [] op[o].resolution = "Confirmed" ->
         [state |-> "completed", input |-> seen.input, id |-> None,
          note |-> o, receipt |-> op[o].receipt]
    [] op[o].resolution = "SafeRetry" ->
         [state |-> "retryable", input |-> seen.input, id |-> None,
          note |-> o, receipt |-> None]

\* The record is still the one that was read.
Reconcilable(o) == record = op[o].seen

Reconcile(o) ==
  /\ record' = IF Reconcilable(o) THEN ReconciledRecord(o) ELSE record
  /\ LET grants == Reconcilable(o) /\ op[o].resolution = "SafeRetry" IN
       /\ granted' = IF grants THEN granted \union {o} ELSE granted
       /\ staleGrant' = (staleGrant \/ (grants /\ record.id # op[o].about))

OpWrite(o) ==
  /\ op[o].pc = "write"
  /\ Reconcile(o)
  /\ \/ Reconcilable(o) /\ op[o].resolution = "Unresolved" /\ Finish(o)
     \/ Reconcilable(o) /\ op[o].resolution # "Unresolved" /\ GotoOp(o, "clear")
     \/ ~Reconcilable(o) /\ op[o].attempt = Attempts /\ Finish(o)
     \/ /\ ~Reconcilable(o) /\ op[o].attempt < Attempts
        /\ op' = [op EXCEPT ![o].pc = "read", ![o].attempt = @ + 1]
  /\ UNCHANGED <<marker, call, aged, scan, applied, faults>>

\* The answer to the write is lost; or the command is cut off at any point.
OpWriteLost(o) ==
  /\ op[o].pc = "write"
  /\ Fault
  /\ Reconcile(o)
  /\ Finish(o)
  /\ UNCHANGED <<marker, call, aged, scan, applied>>

OpStops(o) ==
  /\ op[o].pc \notin {"idle", "done"}
  /\ Fault
  /\ Finish(o)
  /\ UNCHANGED <<record, marker, call, aged, scan, applied, granted, staleGrant>>

OpClear(o) ==
  /\ op[o].pc = "clear"
  /\ ClearUnresolved
  /\ Finish(o)
  /\ UNCHANGED <<record, call, aged, scan, applied, granted, staleGrant>>

--------------------------------------------------------------------------------
(* The background fiber: a backfill of the index at process start, then a      *)
(* metric scan every observabilityRefreshInterval.                             *)

GotoScan(pc) ==
  /\ scan' = pc
  /\ UNCHANGED <<record, call, op, aged, applied, granted, staleGrant>>

\* Mutant: the reservations that were never answered are not indexed.
BackfillAmbiguous ==
  /\ scan = "backfill"
  /\ GotoScan(IF record.state = "ambiguous" THEN "mark" ELSE "idle")
  /\ UNCHANGED <<marker, faults>>

Backfill ==
  /\ scan = "backfill"
  /\ \/ GotoScan(IF Unresolved(record) THEN "mark" ELSE "idle") /\ UNCHANGED faults
     \/ GotoScan("idle") /\ Fault
  /\ UNCHANGED marker

\* A failed write is logged and skipped.
BackfillMark ==
  /\ scan = "mark"
  /\ \/ marker' = TRUE /\ UNCHANGED faults
     \/ marker' \in {marker, TRUE} /\ Fault
  /\ GotoScan("idle")

\* inspectUnresolvedMarker: the marker of a resolved reservation goes.
Scan ==
  /\ scan = "idle" /\ marker
  /\ Resolved(record)
  /\ GotoScan("remove")
  /\ UNCHANGED <<marker, faults>>

ScanRemove ==
  /\ scan = "remove"
  /\ ClearUnresolved
  /\ GotoScan("idle")

\* The reservation becomes pendingSafeRetryMinimumAgeMs old.
Age ==
  /\ record.state = "pending" /\ record.id \notin aged
  /\ aged' = aged \union {record.id}
  /\ UNCHANGED <<record, marker, call, op, scan, applied, granted, staleGrant, faults>>

\* The process dies with its requests and commands and starts again.
Crash ==
  /\ Fault
  /\ CutOff(Call)
  /\ call' = [k \in Call |->
                IF Running(k)
                THEN [pc |-> "done", attempt |-> 1, held |-> NoRecord,
                      result |-> "interrupted", receipt |-> None]
                ELSE call[k]]
  /\ op' = [o \in Operator |->
              IF op[o].pc = "idle" THEN op[o] ELSE [op[o] EXCEPT !.pc = "done"]]
  /\ scan' = "backfill"
  /\ UNCHANGED <<record, marker, aged, granted, staleGrant>>

Attempting(k) ==
  \/ Begin(k) \/ Reserve(k) \/ Read(k) \/ Claim(k) \/ Mark(k) \/ Release(k)
  \/ Effect(k) \/ Complete(k) \/ Recheck(k) \/ Clear(k) \/ Remove(k)
  \/ ClearRemoved(k) \/ Blur(k) \/ StorageFails(k) \/ Interrupt(k)
Recovering(o) ==
  \/ Inspect(o) \/ OpRead(o) \/ OpMark(o) \/ OpWrite(o) \/ OpWriteLost(o)
  \/ OpStops(o) \/ OpClear(o)
Observing == Backfill \/ BackfillMark \/ Scan \/ ScanRemove

Next ==
  \/ \E k \in Call : Attempting(k)
  \/ \E o \in Operator : Recovering(o)
  \/ Observing
  \/ Age
  \/ Crash

Spec == Init /\ [][Next]_vars

\* The background fiber is scheduled; requests and operators may never act.
FairSpec == Spec /\ WF_vars(Observing)

\* The receipt that each request has been given.
Given == [k \in Call |-> IF call[k].result = "receipt" THEN call[k].receipt ELSE None]

--------------------------------------------------------------------------------
(* Properties *)

\* Types, and what each state of a stored record carries.
TypeOK ==
  /\ record \in Record
  /\ record.state = "absent" <=> record = NoRecord
  /\ Unresolved(record) <=> record.id # None
  /\ record.state = "completed" <=> record.receipt # None
  /\ record.state = "retryable" => record.note # None
  /\ marker \in BOOLEAN
  /\ call \in [Call -> Request]
  /\ op \in [Operator -> Recovery]
  /\ aged \subseteq Origin
  /\ scan \in {"backfill", "mark", "idle", "remove"}
  /\ applied \subseteq Origin
  /\ granted \subseteq Operator
  /\ staleGrant \in BOOLEAN
  /\ faults \in 0..MaxFaults

\* Discord sees the intended write at most once, whatever fails and however
\* requests and Recovery Commands interleave (executeDelivery), as long as no
\* command released another reservation than the one its operator looked at.
NoDuplicate == ~staleGrant => Cardinality(applied) <= 1

\* Every write after the first was released by a Recovery Command of its own,
\* even by mistaken ones: a release is good for one attempt (the claim's CAS).
AppliedNeedsGrant == Cardinality(applied) <= 1 + Cardinality(granted)

\* While a request is about to call Discord the stored reservation is its own:
\* nobody can have claimed or released it meanwhile.
AttemptOwnsReservation ==
  \A k \in Call :
    ~staleGrant /\ call[k].pc \in {"mark", "effect"} =>
      record.state = "pending" /\ record.id = k

\* A request that returns a receipt returns the stored one, which Discord
\* really made, for the input the request carries: a request that finds its
\* reservation reconciled does not compare inputs, but only a stale release
\* lets another input in meanwhile.
ReceiptsAgree ==
  \A k \in Call :
    call[k].result = "receipt" =>
      /\ record.state = "completed"
      /\ record.receipt = call[k].receipt
      /\ call[k].receipt \in applied
      /\ staleGrant \/ record.input = InputOf[k]

\* No step of a request or a Recovery Command changes or removes a recorded
\* receipt (compare-and-set, and reconcileDelivery's refusals).
CompletedIsFinal == [][record.state = "completed" => record' = record]_vars

\* What the requests of the key are promised (DeliveryContract) is kept by the
\* steps of executeDelivery and reconcileDelivery, however they interleave,
\* fail or are cut off.
Contract == INSTANCE DeliveryContract WITH
  writes <- applied,
  releases <- granted,
  mistaken <- staleGrant,
  receipt <- record.receipt,
  answer <- Given
ImplementsContract == Contract!Spec

\* A reservation an older release left behind enters the index, unless the
\* backfill of this process met an error.
LegacyIsIndexed ==
  (faults = 0 /\ record.id = Legacy) ~> (faults > 0 \/ marker \/ record.id # Legacy)

\* Nobody is about to write the reservation or its marker.
Quiet ==
  /\ \A k \in Call : ~Running(k)
  /\ \A o \in Operator : op[o].pc \in {"idle", "done"}
  /\ scan = "idle"

\* "SheetBotDeliveryReconciliationRequired fires after the oldest unresolved
\* reservation exceeds" its age: the alert is computed from the markers, so a
\* reservation that stays unresolved has one.
UnresolvedIsIndexed == (Quiet /\ faults = 0) => (Unresolved(record) => marker)

\* A safe retry releases "exactly this reservation", the one whose outcome the
\* operator looked up, so truthful operators never let a write happen twice.
AppliedOnce == Cardinality(applied) <= 1

================================================================================
