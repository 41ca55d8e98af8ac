--------------------------- MODULE CheckinProjection ---------------------------
(***************************************************************************)
(* One check-in message and the durable workflows its button starts        *)
(* (checkins.respond).  A workflow commits its member's check-in in the    *)
(* database, and then responds, gives the member a role, announces the     *)
(* member's first check-in and projects the checked-in members onto the    *)
(* message.  Projections of one message go through an entity that runs one *)
(* at a time: it loads the view and edits the message, each in a durable   *)
(* action, whose result is kept when the entity's runner dies.             *)
(***************************************************************************)
EXTENDS FiniteSets, Integers

CONSTANTS
  Member,       \* participants of the check-in message
  Invocation,   \* invocations of checkins.respond
  MemberOf,     \* the member each invocation is by
  HasRole,      \* whether the check-in message has a role (roleId is not null)
  None,         \* no claim
  MaxFaults     \* bound: crashes, lost answers, refusals and removed members

ASSUME ConstantsAssumption ==
  /\ MemberOf \in [Invocation -> Member]
  /\ None \notin Invocation
  /\ HasRole \in BOOLEAN
  /\ MaxFaults \in Nat

Effect == {"respond", "role", "project", "announce"}

VARIABLES
  active,     \* members whose row is not deleted
  claim,      \* checkinClaimId of each member's row, which comes with checkinAt
  pending,    \* commits that timed out and may still be applied
  pc,         \* where each workflow is
  first,      \* invocations whose commit says isFirst
  outcome,    \* what became of each post-commit effect
  applied,    \* effects seen in Discord, by the Delivery Key of their invocation
  view,       \* the members whose check-in the loaded view of an invocation has
  stage,      \* where each projection is
  entity,     \* the invocations whose projections the entity runs
  detached,   \* projections whose edit is under way outside the entity
  shown,      \* the members the message lists as checked in
  dropped,    \* members that a detached edit has taken off the message
  faults

committing == <<claim, pending, first>>
projecting == <<view, stage, entity, detached, shown, dropped>>
vars == <<active, committing, pc, outcome, applied, projecting, faults>>

Outcome == {"skipped", "open", "delivered", "failed"}

TypeOK ==
  /\ active \subseteq Member
  /\ claim \in [Member -> Invocation \union {None}]
  /\ pending \subseteq Invocation
  /\ pc \in [Invocation -> {"authorize", "mutate", "read", "respond", "effects",
                            "succeeded", "failed"}]
  /\ first \subseteq Invocation
  /\ outcome \in [Invocation -> [Effect -> Outcome]]
  /\ applied \subseteq Invocation \X Effect
  /\ view \in [Invocation -> SUBSET Member]
  /\ stage \in [Invocation -> {"send", "load", "edit", "over"}]
  /\ entity \subseteq {i \in Invocation : stage[i] \in {"load", "edit"}}
  /\ detached \subseteq Invocation
  /\ shown \subseteq Member
  /\ dropped \subseteq Member
  /\ faults \in 0..MaxFaults

Init ==
  /\ active = Member
  /\ claim = [m \in Member |-> None]
  /\ pending = {} /\ first = {} /\ applied = {}
  /\ pc = [i \in Invocation |-> "authorize"]
  /\ outcome = [i \in Invocation |-> [e \in Effect |-> "skipped"]]
  /\ view = [i \in Invocation |-> {}]
  /\ stage = [i \in Invocation |-> "send"]
  /\ entity = {} /\ detached = {}
  /\ shown = {} /\ dropped = {}
  /\ faults = 0

Fault == faults < MaxFaults /\ faults' = faults + 1
Go(i, to) == pc' = [pc EXCEPT ![i] = to]
Authorized(i) == MemberOf[i] \in active

-----------------------------------------------------------------------------
(* The commit.                                                             *)

Authorize(i) ==
  /\ pc[i] = "authorize"
  /\ \/ Authorized(i) /\ Go(i, "mutate") /\ UNCHANGED faults
     \/ ~Authorized(i) /\ Go(i, "failed") /\ UNCHANGED faults
     \/ Fault /\ Go(i, "failed")
  /\ UNCHANGED <<active, committing, outcome, applied, projecting>>

CheckInIfUnset(i) ==
  LET m == MemberOf[i]
  IN IF m \in active /\ claim[m] = None THEN [claim EXCEPT ![m] = i] ELSE claim

(* A mutation that is not acknowledged is reconciled by the same read that
   loads the result of one that is; it may be applied after that read.       *)
Mutate(i) ==
  /\ pc[i] = "mutate" /\ Go(i, "read")
  /\ \/ claim' = CheckInIfUnset(i) /\ UNCHANGED <<pending, faults>>
     \/ Fault /\ pending' = pending \union {i} /\ UNCHANGED claim
  /\ UNCHANGED <<active, first, outcome, applied, projecting>>

ApplyLate(i) ==
  /\ i \in pending
  /\ pending' = pending \ {i}
  /\ claim' = CheckInIfUnset(i)
  /\ UNCHANGED <<active, first, pc, outcome, applied, projecting, faults>>

\* Mutant: isFirst is what the row says of any check-in.
FirstOfAny(i) ==
  /\ pc[i] = "read"
  /\ \/ /\ Authorized(i) /\ claim[MemberOf[i]] # None
        /\ Go(i, "respond")
        /\ first' = first \union {i}
        /\ outcome' = [outcome EXCEPT ![i] =
             [e \in Effect |-> IF e = "role" /\ ~HasRole THEN "skipped" ELSE "open"]]
        /\ UNCHANGED faults
     \/ /\ (~Authorized(i) \/ claim[MemberOf[i]] = None) /\ UNCHANGED faults
        /\ Go(i, "failed") /\ UNCHANGED <<first, outcome>>
     \/ Fault /\ Go(i, "failed") /\ UNCHANGED <<first, outcome>>
  /\ UNCHANGED <<active, claim, pending, applied, projecting>>

(* The commit ends with the claim the row has, which is this invocation's or
   an earlier one's of the same member.                                      *)
Conclude(i) ==
  /\ pc[i] = "read"
  /\ \/ /\ Authorized(i) /\ claim[MemberOf[i]] # None
        /\ LET isFirst == claim[MemberOf[i]] = i
               skipped == (IF HasRole THEN {} ELSE {"role"})
                            \union (IF isFirst THEN {} ELSE {"announce"})
           IN /\ first' = IF isFirst THEN first \union {i} ELSE first
              /\ outcome' = [outcome EXCEPT ![i] =
                   [e \in Effect |-> IF e \in skipped THEN "skipped" ELSE "open"]]
        /\ Go(i, "respond") /\ UNCHANGED faults
     \/ /\ ~Authorized(i) \/ claim[MemberOf[i]] = None
        /\ Go(i, "failed") /\ UNCHANGED <<first, outcome, faults>>
     \/ Fault /\ Go(i, "failed") /\ UNCHANGED <<first, outcome>>
  /\ UNCHANGED <<active, claim, pending, applied, projecting>>

(* The runner of the commit dies before its result is kept: it is run again. *)
RestartCommit(i) ==
  /\ pc[i] \in {"mutate", "read"} /\ Fault
  /\ Go(i, "authorize")
  /\ UNCHANGED <<active, committing, outcome, applied, projecting>>

-----------------------------------------------------------------------------
(* The effects after the commit.                                           *)

EndsAs(i, e, result) == outcome' = [outcome EXCEPT ![i][e] = result]

(* An effect is authorized again and delivered; of one that is not
   acknowledged nobody knows whether it was applied.                         *)
Deliver(i, e) ==
  /\ outcome[i][e] = "open"
  /\ \/ /\ Authorized(i)
        /\ applied' = applied \union {<<i, e>>}
        /\ \/ EndsAs(i, e, "delivered") /\ UNCHANGED faults
           \/ Fault /\ (EndsAs(i, e, "failed") \/ UNCHANGED outcome)
     \/ /\ (~Authorized(i) /\ UNCHANGED faults) \/ Fault
        /\ EndsAs(i, e, "failed") /\ UNCHANGED applied

Respond(i) ==
  /\ pc[i] = "respond"
  /\ Deliver(i, "respond")
  /\ Go(i, IF outcome'[i]["respond"] = "open" THEN "respond" ELSE "effects")
  /\ UNCHANGED <<active, committing, projecting>>

SetRole(i) ==
  /\ pc[i] = "effects" /\ Deliver(i, "role")
  /\ UNCHANGED <<active, committing, pc, projecting>>

Announce(i) ==
  /\ pc[i] = "effects" /\ Deliver(i, "announce")
  /\ UNCHANGED <<active, committing, pc, projecting>>

(* The workflow ends when all of its effects have, and succeeds if they all
   have.                                                                     *)
Complete(i) ==
  /\ pc[i] = "effects"
  /\ \A e \in Effect : outcome[i][e] # "open"
  /\ Go(i, IF \A e \in Effect : outcome[i][e] # "failed" THEN "succeeded" ELSE "failed")
  /\ UNCHANGED <<active, committing, outcome, applied, projecting, faults>>

-----------------------------------------------------------------------------
(* The projection.                                                         *)

CheckedIn == {m \in active : claim[m] # None}
StageTo(i, to) == stage' = [stage EXCEPT ![i] = to]

\* Mutant: the entity runs several projections of its message at once.
EnterBeside(i) ==
  /\ pc[i] = "effects" /\ outcome[i]["project"] = "open" /\ stage[i] = "send"
  /\ \/ entity' = entity \union {i} /\ StageTo(i, "load") /\ UNCHANGED <<outcome, faults>>
     \/ Fault /\ StageTo(i, "over") /\ EndsAs(i, "project", "failed") /\ UNCHANGED entity
  /\ UNCHANGED <<active, committing, pc, applied, view, detached, shown, dropped>>

(* The entity takes a projection up, or its mailbox stays full through every
   retry of the workflow.                                                    *)
Enter(i) ==
  /\ pc[i] = "effects" /\ outcome[i]["project"] = "open" /\ stage[i] = "send"
  /\ \/ /\ entity = {} /\ entity' = {i}
        /\ StageTo(i, "load") /\ UNCHANGED <<outcome, faults>>
     \/ Fault /\ StageTo(i, "over") /\ EndsAs(i, "project", "failed") /\ UNCHANGED entity
  /\ UNCHANGED <<active, committing, pc, applied, view, detached, shown, dropped>>

\* Mutant: a projection that is over keeps the entity.
StayIn(i, result) ==
  StageTo(i, "over") /\ EndsAs(i, "project", result) /\ UNCHANGED entity

(* The projection is over and leaves the entity to the next one.            *)
Leave(i, result) ==
  StageTo(i, "over") /\ entity' = entity \ {i} /\ EndsAs(i, "project", result)

LoadView(i) ==
  /\ i \in entity /\ stage[i] = "load"
  /\ \/ /\ Authorized(i)
        /\ view' = [view EXCEPT ![i] = CheckedIn]
        /\ StageTo(i, "edit") /\ UNCHANGED <<entity, outcome, faults>>
     \/ /\ (~Authorized(i) /\ UNCHANGED faults) \/ Fault
        /\ Leave(i, "failed") /\ UNCHANGED view
  /\ UNCHANGED <<active, committing, pc, applied, detached, shown, dropped>>

\* Mutant: the handler does not wait for the edit it starts.
EditUnawaited(i) ==
  /\ i \in entity /\ stage[i] = "edit"
  /\ detached' = detached \union {i}
  /\ Leave(i, "delivered")
  /\ UNCHANGED <<active, committing, pc, applied, view, shown, dropped, faults>>

(* An edit that is not acknowledged may still be under way.                 *)
Edit(i) ==
  /\ i \in entity /\ stage[i] = "edit"
  /\ \/ /\ Authorized(i)
        /\ shown' = view[i] /\ dropped' = dropped \ view[i]
        /\ Leave(i, "delivered") /\ UNCHANGED <<detached, faults>>
     \/ /\ \/ ~Authorized(i) /\ UNCHANGED <<detached, faults>>
           \/ Fault /\ detached' \in {detached, detached \union {i}}
        /\ Leave(i, "failed") /\ UNCHANGED <<shown, dropped>>
  /\ UNCHANGED <<active, committing, pc, applied, view>>

(* The runner of the entity dies.  The workflow sends its projection again: a
   view that was loaded is kept, and its edit goes on beside the entity.     *)
LoseEntity(i) ==
  /\ i \in entity /\ Fault
  /\ entity' = entity \ {i}
  /\ \/ stage[i] = "load" /\ StageTo(i, "send") /\ UNCHANGED detached
     \/ stage[i] = "edit" /\ detached' = detached \union {i} /\ UNCHANGED stage
  /\ UNCHANGED <<active, committing, pc, outcome, applied, view, shown, dropped>>

EditDetached(i) ==
  /\ i \in detached /\ detached' = detached \ {i}
  /\ shown' = view[i]
  /\ dropped' = (dropped \union (shown \ view[i])) \ view[i]
  /\ StageTo(i, "over")
  /\ IF outcome[i]["project"] = "open"
     THEN EndsAs(i, "project", "delivered") ELSE UNCHANGED outcome
  /\ UNCHANGED <<active, committing, pc, applied, view, entity, faults>>

RefuseDetached(i) ==
  /\ i \in detached /\ outcome[i]["project"] = "open"
  /\ (~Authorized(i) /\ UNCHANGED faults) \/ Fault
  /\ detached' = detached \ {i}
  /\ StageTo(i, "over") /\ EndsAs(i, "project", "failed")
  /\ UNCHANGED <<active, committing, pc, applied, view, entity, shown, dropped>>

-----------------------------------------------------------------------------
Remove(m) ==
  /\ m \in active /\ Fault
  /\ active' = active \ {m}
  /\ UNCHANGED <<committing, pc, outcome, applied, projecting>>

CommitStep(i) ==
  Authorize(i) \/ Mutate(i) \/ ApplyLate(i) \/ Conclude(i) \/ RestartCommit(i)
EffectStep(i) == Respond(i) \/ SetRole(i) \/ Announce(i) \/ Complete(i)
ProjectionStep(i) ==
  \/ Enter(i) \/ LoadView(i) \/ Edit(i)
  \/ LoseEntity(i) \/ EditDetached(i) \/ RefuseDetached(i)

Next ==
  \/ \E i \in Invocation : CommitStep(i) \/ EffectStep(i) \/ ProjectionStep(i)
  \/ \E m \in Member : Remove(m)

Spec == Init /\ [][Next]_vars

-----------------------------------------------------------------------------
(* Properties.                                                             *)

(* A member's first check-in is announced by the invocation whose claim its
   row keeps and by no other, whatever answers were lost (committedFrom), and
   one that succeeded with the claim has announced it.                       *)
OneAnnouncement ==
  \A i \in Invocation :
    /\ <<i, "announce">> \in applied => claim[MemberOf[i]] = i
    /\ pc[i] = "succeeded" /\ i \in first => <<i, "announce">> \in applied

(* A member who is checked in, still a participant and on the message is not
   taken off it by an older view (the entity's concurrency of one), unless an
   edit went on beside the entity after its runner died or its answer was
   lost.                                                                     *)
OlderViewNeverLast == [][(shown \ shown') \intersect active \subseteq dropped']_vars

(* The member of an invocation that reports success is checked in and on the
   message, unless removed since or taken off it by such an edit.            *)
SuccessIsShown ==
  \A i \in Invocation :
    pc[i] = "succeeded" /\ Authorized(i) =>
      /\ claim[MemberOf[i]] # None
      /\ MemberOf[i] \in shown \union dropped

=============================================================================
