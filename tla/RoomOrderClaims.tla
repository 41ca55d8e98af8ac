----------------------------- MODULE RoomOrderClaims -----------------------------
(***************************************************************************)
(* One room-order message: its row, whose three claims serialise what may  *)
(* be done to it, and the durable workflows that do it.  A Sender posts    *)
(* the order in the channel and pins what it posted (roomOrders.send), a   *)
(* Pinner pins a tentative order in place (roomOrders.pinTentative), a     *)
(* Navigator turns the page (roomOrders.navigate).                         *)
(*                                                                         *)
(* A mutator is one transaction, and so one operator from row to row.  A   *)
(* workflow runs durable actions: each reads the row, then acts on what it *)
(* read in a later step.  A finished action is memoised, an interrupted    *)
(* one is run again from its start.                                        *)
(***************************************************************************)
EXTENDS Integers, FiniteSets

CONSTANTS
  Sender, Pinner, Navigator,   \* invocations of the three workflows
  None,                        \* no claim, no sent message, no pin
  MaxRank,                     \* pages of the room order; it is created on the first
  MaxFaults,                   \* bound: crashes, errors and withdrawn permissions
  MaxAges                      \* bound: claims that outlive CLAIM_STALE_MS

Committer == Sender \union Pinner
Invocation == Committer \union Navigator
Rank == 1..MaxRank

ASSUME ConstantsAssumption ==
  /\ None \notin Invocation
  /\ Sender \intersect Pinner = {}
  /\ Committer \intersect Navigator = {}
  /\ MaxRank \in Nat \ {0}
  /\ MaxFaults \in Nat
  /\ MaxAges \in Nat

VARIABLES
  row,        \* the row of messageRoomOrder
  pc,         \* where each invocation is
  ctx,        \* what its authorized context, view and commit remember
  rec, fin,   \* the two concurrent parts of a commit: record, and pin or finalize
  posted,     \* posted[s]: the page the message of s shows, 0 before it is posted
  pins,       \* invocations whose message is pinned
  shown,      \* the page the room-order message shows
  lost,       \* invocations whose claim another one took over
  repeated,   \* senders whose send action ran again after it had posted
  faults, ages

effects == <<posted, pins, shown>>
ghosts == <<lost, repeated>>
vars == <<row, pc, ctx, rec, fin, effects, ghosts, faults, ages>>

Row ==
  [rank : Rank,
   tentative : BOOLEAN,
   sendClaim : Sender \union {None},
   updateClaim : Navigator \union {None},
   pinClaim : Pinner \union {None},
   sent : Sender \union {None},           \* sentMessageId
   pinned : Pinner \union {None},         \* tentativePinnedAt
   fresh : SUBSET Invocation]             \* claims younger than CLAIM_STALE_MS
Context ==
  [rank : Rank, tentative : BOOLEAN, target : Rank,
   ref : Committer \union {None}]         \* the message or the pin committed to
Ended == {"denied", "rejected", "partial", "pinned", "updated", "failed"}
Stage ==
  {"claim", "claimMutate", "claimRead", "claimDoubt", "load", "effect", "deliver",
   "commit", "commitRead", "commitDoubt", "project", "edit", "cleanup", "cleanupEdit",
   "release", "releaseDenied", "releaseRejected"} \union Ended
Recording == {"load", "mutate", "reread", "tracked", "untracked", "failed"}
Finishing == {"check", "deliver", "done", "rejected", "failed"}

TypeOK ==
  /\ row \in Row
  /\ pc \in [Invocation -> Stage]
  /\ ctx \in [Invocation -> Context]
  /\ rec \in [Committer -> Recording]
  /\ fin \in [Committer -> Finishing]
  /\ posted \in [Sender -> Rank \union {0}]
  /\ pins \subseteq Committer
  /\ shown \in Rank
  /\ lost \subseteq Invocation
  /\ repeated \subseteq Sender
  /\ faults \in 0..MaxFaults
  /\ ages \in 0..MaxAges

Init ==
  /\ row \in [rank : {1}, tentative : BOOLEAN, sendClaim : {None}, updateClaim : {None},
              pinClaim : {None}, sent : {None}, pinned : {None}, fresh : {{}}]
  /\ pc = [i \in Invocation |-> "claim"]
  /\ ctx = [i \in Invocation |->
              [rank |-> row.rank, tentative |-> row.tentative, target |-> row.rank, ref |-> None]]
  /\ rec = [i \in Committer |-> "load"]
  /\ fin = [i \in Committer |-> "check"]
  /\ posted = [s \in Sender |-> 0]
  /\ pins = {}
  /\ shown = row.rank
  /\ lost = {} /\ repeated = {}
  /\ faults = 0 /\ ages = 0

-----------------------------------------------------------------------------
(* The mutators.                                                           *)

Claims(r) == {r.sendClaim, r.updateClaim, r.pinClaim} \ {None}

ActiveSend(r) == r.sendClaim \in r.fresh
ActiveUpdate(r) == r.updateClaim \in r.fresh
ActivePin(r) == r.pinClaim \in r.fresh
StaleUntrackedSend(r) == r.sendClaim # None /\ r.sent = None /\ ~ActiveSend(r)

\* Mutant: the page the caller started from is not compared.
AnyExpectedRank(r, n, expected) ==
  r.pinned # None \/ ActiveSend(r) \/ (ActiveUpdate(r) /\ r.updateClaim # n) \/ ActivePin(r)

BlocksRankChange(r, n, expected) ==
  \/ r.pinned # None
  \/ r.rank # expected
  \/ ActiveSend(r)
  \/ ActiveUpdate(r) /\ r.updateClaim # n
  \/ ActivePin(r)
BlocksSendClaim(r) ==
  r.sent # None \/ r.pinned # None \/ ActiveSend(r) \/ ActiveUpdate(r) \/ ActivePin(r)
BlocksTentativeClaim(r) ==
  \/ r.pinned # None
  \/ StaleUntrackedSend(r)
  \/ ActiveSend(r) \/ ActivePin(r) \/ ActiveUpdate(r)

\* Mutant: a stale claim of another kind is left in place.
ClaimSendBeside(r, s) ==
  IF BlocksSendClaim(r) THEN r ELSE [r EXCEPT !.sendClaim = s, !.fresh = {s}]

ClaimSend(r, s) ==
  IF BlocksSendClaim(r) THEN r
  ELSE [r EXCEPT !.sendClaim = s, !.updateClaim = None, !.pinClaim = None, !.fresh = {s}]
ClaimUpdate(r, n) ==
  IF BlocksTentativeClaim(r) THEN r
  ELSE [r EXCEPT !.sendClaim = None, !.updateClaim = n, !.pinClaim = None, !.fresh = {n}]
ClaimPin(r, p) ==
  IF BlocksTentativeClaim(r) THEN r
  ELSE [r EXCEPT !.sendClaim = None, !.updateClaim = None, !.pinClaim = p, !.fresh = {p}]

CompleteSend(r, s) ==
  IF r.sendClaim # s THEN r
  ELSE [r EXCEPT !.sendClaim = None, !.sent = s, !.fresh = @ \ {s}]
CompletePin(r, p) ==
  IF r.pinned # None \/ r.pinClaim # p THEN r
  ELSE [r EXCEPT !.pinClaim = None, !.pinned = p, !.fresh = @ \ {p}]

ReleaseSend(r, s) ==
  IF r.sendClaim # s THEN r ELSE [r EXCEPT !.sendClaim = None, !.fresh = @ \ {s}]
\* Mutant: a claim that went stale is not cleared by its owner.
ReleaseActiveUpdate(r, n) ==
  IF r.updateClaim # n \/ ~ActiveUpdate(r) THEN r
  ELSE [r EXCEPT !.updateClaim = None, !.fresh = @ \ {n}]

ReleaseUpdate(r, n) ==
  IF r.updateClaim # n THEN r ELSE [r EXCEPT !.updateClaim = None, !.fresh = @ \ {n}]
ReleasePin(r, p) ==
  IF r.pinned # None \/ r.pinClaim # p THEN r
  ELSE [r EXCEPT !.pinClaim = None, !.fresh = @ \ {p}]

ChangeRank(r, n, expected, delta) ==
  IF BlocksRankChange(r, n, expected) THEN r ELSE [r EXCEPT !.rank = @ + delta]

MarkRowTentative(r) ==
  IF BlocksTentativeClaim(r) \/ BlocksSendClaim(r) THEN r ELSE [r EXCEPT !.tentative = TRUE]

Claim(r, i) ==
  CASE i \in Sender -> ClaimSend(r, i)
    [] i \in Pinner -> ClaimPin(r, i)
    [] i \in Navigator -> ClaimUpdate(r, i)
Complete(r, i) == IF i \in Sender THEN CompleteSend(r, i) ELSE CompletePin(r, i)

-----------------------------------------------------------------------------
(* What the workflows look at, and the shapes of their steps.              *)

Owns(i) == i \in Claims(row)
SameSubject(i) == row.tentative = ctx[i].tentative
Canonical(i) == SameSubject(i) /\ row.rank = ctx[i].rank
(* What a claim action requires of the row it re-reads: a navigator compares
   its keys, which never change, and neither page nor tentativeness.        *)
Matches(i) == i \in Committer => Canonical(i)
(* The message or the pin of i's commit is the one the row tracks.          *)
Tracked(i) ==
  IF i \in Sender THEN row.sent = ctx[i].ref /\ row.sendClaim = None
                  ELSE row.pinned = ctx[i].ref /\ row.pinClaim = None

Go(i, stage) == pc' = [pc EXCEPT ![i] = stage]
Fault == faults < MaxFaults /\ faults' = faults + 1

(* A durable action looks at the row: what it requires holds, or does not, or
   authorization has been withdrawn, or the read fails.                     *)
Look(i, requirement, then, otherwise, error) ==
  /\ \/ /\ \/ requirement /\ Go(i, then)
           \/ ~requirement /\ Go(i, otherwise)
        /\ UNCHANGED faults
     \/ /\ Fault
        /\ Go(i, otherwise) \/ Go(i, error)
  /\ UNCHANGED <<row, ctx, rec, fin, effects, ghosts, ages>>

(* A mutation of i: another's claim that it removes is lost to its owner.   *)
Store(i, new) ==
  /\ row' = new
  /\ lost' = lost \union (Claims(row) \ (Claims(new) \union {i}))
Mutate(i, new, then, doubt) ==
  /\ \/ Store(i, new) /\ Go(i, then) /\ UNCHANGED faults
     \/ /\ Fault
        /\ Store(i, new) \/ UNCHANGED <<row, lost>>
        /\ Go(i, doubt)
  /\ UNCHANGED <<ctx, rec, fin, effects, repeated, ages>>

-----------------------------------------------------------------------------
(* Claiming, the first durable action of every workflow.                   *)

ClaimVerdict(i, unclaimed) ==
  IF i \in Sender /\ row.sent # None THEN "commit"
  ELSE IF Owns(i) \/ (i \in Pinner /\ row.pinned # None) THEN "load"
  ELSE unclaimed
Misplaced(i) ==
  \/ i \in Sender /\ (row.tentative \/ (row.sent = None /\ row.pinned # None))
  \/ i \in Pinner /\ ~row.tentative
CommittedReference(i) ==
  CASE i \in Sender -> row.sent [] i \in Pinner -> row.pinned [] i \in Navigator -> None
Authorize(i) ==
  ctx' = [ctx EXCEPT ![i] = [rank |-> row.rank, tentative |-> row.tentative,
                             target |-> row.rank, ref |-> CommittedReference(i)]]

StartClaim(i) ==
  /\ pc[i] = "claim"
  /\ \/ /\ Authorize(i)
        /\ Go(i, IF Misplaced(i) THEN "denied"
                 ELSE IF i \in Navigator THEN "claimMutate"
                 ELSE ClaimVerdict(i, "claimMutate"))
        /\ UNCHANGED faults
     \/ Fault /\ Go(i, "failed") /\ UNCHANGED ctx
  /\ UNCHANGED <<row, rec, fin, effects, ghosts, ages>>

ClaimMutate(i) ==
  pc[i] = "claimMutate" /\ Mutate(i, Claim(row, i), "claimRead", "claimDoubt")

ClaimDoubt(i) ==
  pc[i] = "claimDoubt" /\ Look(i, Matches(i) /\ Owns(i), "claimRead", "failed", "failed")

ClaimRead(i) ==
  /\ pc[i] = "claimRead"
  /\ \/ /\ Matches(i)
        /\ ctx' = [ctx EXCEPT ![i].ref = CommittedReference(i)]
        /\ Go(i, ClaimVerdict(i, "denied")) /\ UNCHANGED faults
     \/ ~Matches(i) /\ Go(i, "failed") /\ UNCHANGED <<ctx, faults>>
     \/ Fault /\ Go(i, "failed") /\ UNCHANGED ctx
  /\ UNCHANGED <<row, rec, fin, effects, ghosts, ages>>

-----------------------------------------------------------------------------
(* Sending and pinning.                                                    *)

Load(i) ==
  /\ pc[i] = "load"
  /\ IF ctx[i].ref = None
     THEN Look(i, Canonical(i) /\ Owns(i), "effect", "release", "release")
     ELSE Look(i, Canonical(i) /\ row.pinned # None, "commit", "failed", "failed")

StartEffect(i) ==
  /\ pc[i] = "effect"
  /\ Look(i, Canonical(i) /\ Owns(i) /\ (i \in Pinner => row.pinned = None),
          "deliver", IF i \in Sender THEN "release" ELSE "failed", "failed")

(* The Delivery Key of i makes a repeated request have no further effect.   *)
Post(i) ==
  IF i \in Sender
  THEN /\ posted' = [posted EXCEPT ![i] = IF @ = 0 THEN ctx[i].rank ELSE @]
       /\ UNCHANGED <<pins, shown>>
  ELSE pins' = pins \union {i} /\ UNCHANGED <<posted, shown>>

\* Mutant: an effect with an unknown outcome is compensated like a refusal.
DeliverCompensated(i) ==
  /\ pc[i] = "deliver"
  /\ \/ /\ Post(i)
        /\ ctx' = [ctx EXCEPT ![i].ref = i]
        /\ Go(i, "commit") /\ UNCHANGED <<faults, repeated>>
     \/ /\ Fault /\ Post(i) /\ UNCHANGED ctx
        /\ \/ Go(i, "effect") /\ repeated' = repeated \union ({i} \intersect Sender)
           \/ Go(i, IF i \in Sender THEN "release" ELSE "cleanup") /\ UNCHANGED repeated
     \/ /\ \/ Go(i, IF i \in Sender THEN "release" ELSE "cleanup") /\ UNCHANGED faults
           \/ Fault /\ Go(i, "failed")
        /\ UNCHANGED <<ctx, effects, repeated>>
  /\ UNCHANGED <<row, rec, fin, lost, ages>>

(* A receipt; an effect whose answer is lost with the runner or on the way; a
   request that was refused, or has an unknown outcome, without an effect.  *)
Deliver(i) ==
  /\ pc[i] = "deliver"
  /\ \/ /\ Post(i)
        /\ ctx' = [ctx EXCEPT ![i].ref = i]
        /\ Go(i, "commit") /\ UNCHANGED <<faults, repeated>>
     \/ /\ Fault /\ Post(i) /\ UNCHANGED ctx
        /\ \/ Go(i, "effect") /\ repeated' = repeated \union ({i} \intersect Sender)
           \/ Go(i, "failed") /\ UNCHANGED repeated
     \/ /\ \/ Go(i, IF i \in Sender THEN "release" ELSE "cleanup") /\ UNCHANGED faults
           \/ Fault /\ Go(i, "failed")
        /\ UNCHANGED <<ctx, effects, repeated>>
  /\ UNCHANGED <<row, rec, fin, lost, ages>>

(* record-room-order-send and record-tentative-pin, concurrent with the other
   half of the commit; of a message somebody else sent nothing is recorded. *)
RecordTo(i, outcome) == rec' = [rec EXCEPT ![i] = outcome]
RecordStep(i, from) ==
  /\ pc[i] = "commit" /\ rec[i] = from
  /\ UNCHANGED <<pc, ctx, fin, effects, repeated, ages>>

RecordLoad(i) ==
  /\ RecordStep(i, "load")
  /\ \/ /\ \/ i \in Sender /\ ctx[i].ref # i /\ RecordTo(i, "tracked")
           \/ /\ i \in Pinner \/ ctx[i].ref = i
              /\ RecordTo(i, IF ~Canonical(i) THEN "failed"
                             ELSE IF Tracked(i) THEN "tracked"
                             ELSE IF Owns(i) THEN "mutate" ELSE "untracked")
        /\ UNCHANGED faults
     \/ Fault /\ RecordTo(i, "failed")
  /\ UNCHANGED <<row, lost>>

RecordMutate(i) ==
  /\ RecordStep(i, "mutate")
  /\ RecordTo(i, "reread")
  /\ \/ Store(i, Complete(row, i)) /\ UNCHANGED faults
     \/ Fault /\ (Store(i, Complete(row, i)) \/ UNCHANGED <<row, lost>>)

RecordReread(i) ==
  /\ RecordStep(i, "reread")
  /\ \/ /\ RecordTo(i, IF ~Canonical(i) THEN "failed"
                        ELSE IF Tracked(i) THEN "tracked" ELSE "untracked")
        /\ UNCHANGED faults
     \/ Fault /\ (RecordTo(i, "untracked") \/ RecordTo(i, "failed"))
  /\ UNCHANGED <<row, lost>>

(* pin-sent-room-order, and finalize-tentative-room-order of a committed pin. *)
FinishTo(i, outcome) == fin' = [fin EXCEPT ![i] = outcome]
FinishStep(i, from) ==
  /\ pc[i] = "commit" /\ fin[i] = from
  /\ UNCHANGED <<row, pc, ctx, rec, posted, ghosts, ages>>
MayFinish(i) ==
  IF i \in Sender THEN row.sent = ctx[i].ref \/ (ctx[i].ref = i /\ Owns(i))
                  ELSE row.pinned # None \/ Owns(i)
FinishEffect(i) ==
  IF i \in Sender THEN pins' = pins \union {ctx[i].ref} /\ UNCHANGED shown
                  ELSE shown' = ctx[i].rank /\ UNCHANGED pins

FinishCheck(i) ==
  /\ FinishStep(i, "check")
  /\ \/ FinishTo(i, IF Canonical(i) /\ MayFinish(i) THEN "deliver" ELSE "failed")
        /\ UNCHANGED faults
     \/ Fault /\ FinishTo(i, "failed")
  /\ UNCHANGED <<pins, shown>>

FinishDeliver(i) ==
  /\ FinishStep(i, "deliver")
  /\ \/ FinishEffect(i) /\ FinishTo(i, "done") /\ UNCHANGED faults
     \/ Fault /\ FinishEffect(i) /\ (FinishTo(i, "check") \/ FinishTo(i, "failed"))
     \/ /\ \/ i \in Sender /\ FinishTo(i, "rejected") /\ UNCHANGED faults
           \/ Fault /\ FinishTo(i, "failed")
        /\ UNCHANGED <<pins, shown>>

\* Mutant: the outcome ignores whether the commit was recorded.
ConcludeUnrecorded(i) ==
  /\ pc[i] = "commit"
  /\ rec[i] \in {"tracked", "untracked", "failed"}
  /\ fin[i] \in {"done", "rejected", "failed"}
  /\ Go(i, IF fin[i] = "done" THEN "pinned" ELSE "failed")
  /\ UNCHANGED <<row, ctx, rec, fin, effects, ghosts, faults, ages>>

Conclude(i) ==
  /\ pc[i] = "commit"
  /\ rec[i] \in {"tracked", "untracked", "failed"}
  /\ fin[i] \in {"done", "rejected", "failed"}
  /\ Go(i, IF rec[i] = "failed" \/ fin[i] = "failed" THEN "failed"
           ELSE IF rec[i] = "tracked" /\ fin[i] = "done" THEN "pinned" ELSE "partial")
  /\ UNCHANGED <<row, ctx, rec, fin, effects, ghosts, faults, ages>>

(* A pin that Discord refused: the controls are removed, then the claim.    *)
StartCleanup(p) ==
  /\ pc[p] = "cleanup"
  /\ Look(p, Canonical(p) /\ row.pinned = None /\ Owns(p), "cleanupEdit", "failed", "failed")

CleanupEdit(p) ==
  /\ pc[p] = "cleanupEdit"
  /\ \/ shown' = ctx[p].rank /\ Go(p, "releaseRejected") /\ UNCHANGED faults
     \/ Fault /\ shown' = ctx[p].rank /\ (Go(p, "cleanup") \/ Go(p, "failed"))
     \/ Fault /\ Go(p, "failed") /\ UNCHANGED shown
  /\ UNCHANGED <<row, ctx, rec, fin, posted, pins, ghosts, ages>>

(* Compensation of a sender: the invocation fails whatever becomes of it.   *)
SenderRelease(s) ==
  /\ pc[s] = "release"
  /\ Go(s, "failed")
  /\ \/ /\ Store(s, ReleaseSend(row, s))
        /\ UNCHANGED faults \/ Fault
     \/ Fault /\ UNCHANGED <<row, lost>>
  /\ UNCHANGED <<ctx, rec, fin, effects, repeated, ages>>

(* A pin that has been committed may not be released.                       *)
PinnerRelease(p) ==
  /\ pc[p] \in {"release", "releaseRejected"}
  /\ \/ /\ Store(p, ReleasePin(row, p))
        /\ \/ /\ Go(p, IF pc[p] = "releaseRejected" /\ row.pinned = None
                       THEN "rejected" ELSE "failed")
              /\ UNCHANGED faults
           \/ Fault /\ Go(p, "failed")
     \/ Fault /\ Go(p, "failed") /\ UNCHANGED <<row, lost>>
  /\ UNCHANGED <<ctx, rec, fin, effects, repeated, ages>>

-----------------------------------------------------------------------------
(* Turning the page.                                                       *)

Projects(n) == SameSubject(n) /\ row.rank = ctx[n].target

NavigationLoad(n) ==
  /\ pc[n] = "load"
  /\ \/ /\ SameSubject(n) /\ Owns(n)
        /\ \/ /\ row.rank = ctx[n].rank
              /\ \E target \in Rank \intersect {row.rank - 1, row.rank + 1} :
                   ctx' = [ctx EXCEPT ![n].target = target]
              /\ Go(n, "commit")
           \/ /\ row.rank # ctx[n].rank \/ row.rank \in {1, MaxRank}
              /\ Go(n, "releaseDenied") /\ UNCHANGED ctx
        /\ UNCHANGED faults
     \/ ~(SameSubject(n) /\ Owns(n)) /\ Go(n, "failed") /\ UNCHANGED <<ctx, faults>>
     \/ Fault /\ Go(n, "failed") /\ UNCHANGED ctx
  /\ UNCHANGED <<row, rec, fin, effects, ghosts, ages>>

NavigationCommit(n) ==
  /\ pc[n] = "commit"
  /\ \/ /\ SameSubject(n)
        /\ Mutate(n, ChangeRank(row, n, ctx[n].rank, ctx[n].target - ctx[n].rank),
                  "commitRead", "commitDoubt")
     \/ /\ ~SameSubject(n) /\ Go(n, "failed")
        /\ UNCHANGED <<row, ctx, rec, fin, effects, ghosts, faults, ages>>

CommitDoubt(n) ==
  /\ pc[n] = "commitDoubt"
  /\ Look(n, Owns(n) /\ row.rank = ctx[n].target, "commitRead", "failed", "failed")

CommitRead(n) ==
  /\ pc[n] = "commitRead"
  /\ \/ /\ Go(n, IF ~Owns(n) THEN "failed"
                 ELSE IF row.rank = ctx[n].target THEN "project"
                 ELSE IF row.rank = ctx[n].rank THEN "releaseDenied" ELSE "failed")
        /\ UNCHANGED faults
     \/ Fault /\ Go(n, "failed")
  /\ UNCHANGED <<row, ctx, rec, fin, effects, ghosts, ages>>

(* The response to the button, or for a tentative order an edit, shows the
   page committed to.                                                       *)
StartProjection(n) ==
  /\ pc[n] = "project"
  /\ Look(n, Projects(n), "edit", "failed", "failed")

\* Mutant: the claim is released whether or not the page has been shown.
EditUnconfirmed(n) ==
  /\ pc[n] = "edit"
  /\ Go(n, "release")
  /\ \/ shown' = ctx[n].target /\ UNCHANGED faults
     \/ Fault /\ UNCHANGED shown
  /\ UNCHANGED <<row, ctx, rec, fin, posted, pins, ghosts, ages>>

Edit(n) ==
  /\ pc[n] = "edit"
  /\ \/ shown' = ctx[n].target /\ Go(n, "release") /\ UNCHANGED faults
     \/ Fault /\ shown' = ctx[n].target /\ (Go(n, "project") \/ Go(n, "failed"))
     \/ Fault /\ Go(n, "failed") /\ UNCHANGED shown
  /\ UNCHANGED <<row, ctx, rec, fin, posted, pins, ghosts, ages>>

NavigationRelease(n) ==
  /\ pc[n] \in {"release", "releaseDenied"}
  /\ LET permitted == IF pc[n] = "release" THEN Projects(n) ELSE SameSubject(n)
     IN \/ /\ permitted
           /\ Store(n, ReleaseUpdate(row, n))
           /\ \/ Go(n, IF pc[n] = "release" THEN "updated" ELSE "denied") /\ UNCHANGED faults
              \/ Fault /\ Go(n, "failed")
        \/ /\ (~permitted /\ UNCHANGED faults) \/ Fault
           /\ Go(n, "failed") /\ UNCHANGED <<row, lost>>
  /\ UNCHANGED <<ctx, rec, fin, effects, repeated, ages>>

-----------------------------------------------------------------------------
(* What happens around the workflows.                                      *)

MarkTentative ==
  /\ ~row.tentative
  /\ row' = MarkRowTentative(row)
  /\ UNCHANGED <<pc, ctx, rec, fin, effects, ghosts, faults, ages>>

AgeClaim ==
  /\ ages < MaxAges /\ ages' = ages + 1
  /\ \E i \in row.fresh : row' = [row EXCEPT !.fresh = @ \ {i}]
  /\ UNCHANGED <<pc, ctx, rec, fin, effects, ghosts, faults>>

(* The runner dies in the middle of a durable action: it is run again from
   its start.                                                              *)
Restarted(stage) ==
  CASE stage \in {"claimMutate", "claimRead", "claimDoubt"} -> "claim"
    [] stage = "deliver" -> "effect"
    [] stage = "cleanupEdit" -> "cleanup"
    [] stage \in {"commitRead", "commitDoubt"} -> "commit"
    [] stage = "edit" -> "project"
    [] OTHER -> stage
Crash(i) ==
  /\ Fault
  /\ \/ pc[i] # Restarted(pc[i]) /\ Go(i, Restarted(pc[i])) /\ UNCHANGED <<rec, fin>>
     \/ /\ i \in Committer /\ pc[i] = "commit" /\ UNCHANGED pc
        /\ \/ rec[i] \in {"mutate", "reread"} /\ RecordTo(i, "load") /\ UNCHANGED fin
           \/ fin[i] = "deliver" /\ FinishTo(i, "check") /\ UNCHANGED rec
  /\ UNCHANGED <<row, ctx, effects, ghosts, ages>>

ClaimStep(i) == StartClaim(i) \/ ClaimMutate(i) \/ ClaimDoubt(i) \/ ClaimRead(i)
CommitterStep(i) ==
  \/ Load(i) \/ StartEffect(i) \/ Deliver(i)
  \/ RecordLoad(i) \/ RecordMutate(i) \/ RecordReread(i)
  \/ FinishCheck(i) \/ FinishDeliver(i) \/ Conclude(i)
PinnerStep(p) == StartCleanup(p) \/ CleanupEdit(p) \/ PinnerRelease(p)
NavigatorStep(n) ==
  \/ NavigationLoad(n) \/ NavigationCommit(n) \/ CommitDoubt(n) \/ CommitRead(n)
  \/ StartProjection(n) \/ Edit(n) \/ NavigationRelease(n)

Next ==
  \/ MarkTentative \/ AgeClaim
  \/ \E i \in Invocation : ClaimStep(i) \/ Crash(i)
  \/ \E i \in Committer : CommitterStep(i)
  \/ \E s \in Sender : SenderRelease(s)
  \/ \E p \in Pinner : PinnerStep(p)
  \/ \E n \in Navigator : NavigatorStep(n)

Spec == Init /\ [][Next]_vars

-----------------------------------------------------------------------------
(* Properties.                                                             *)

(* The three claims exclude each other, none is held on a pinned order, no
   send claim on a sent one (the claim mutators clear the claims they take
   over, the completing ones clear their own).                              *)
ClaimsExclusive ==
  /\ Cardinality(Claims(row)) <= 1
  /\ row.pinned # None => Claims(row) = {}
  /\ row.sent # None => row.sendClaim = None

(* A room order is posted in the channel once (sendRoomOrderMessage): the row
   keeps the claim or the message of a sender that has posted, so that no other
   sender posts, unless the claim went stale and was taken over, or the send
   action was run again and compensated after the post (compensateAndFail).  *)
OneSend ==
  \A s \in Sender :
    posted[s] # 0 => \/ row.sendClaim = s \/ row.sent = s
                    \/ s \in lost \union repeated

(* A message is tracked as the sent room order only while the row is on the
   page that message shows (completeMessageRoomOrderSend, blocksRankChange),
   unless the send claim went stale.                                        *)
TrackedRankShown ==
  [][\A s \in Sender :
       row.sent # s /\ row'.sent = s /\ s \in row.fresh => posted[s] = row.rank]_vars

(* The room-order message shows the row's page, unless a navigator that has
   turned the page still holds the claim under which it will show it
   (canonicalProjectionConfirmed), or a claim was taken over from its owner. *)
DisplayAgrees ==
  \/ shown = row.rank
  \/ \E n \in Navigator : row.updateClaim = n /\ row.rank = ctx[n].target
  \/ lost \intersect (Navigator \union Pinner) # {}

(* An invocation that reports an outcome other than a failure or a partial
   one holds no claim that would keep others out, except a send claim: a
   sender can take one on an order that is marked tentative between its check
   and its claim (claim and claimMessageRoomOrderSend of sendOperations).    *)
EndedHoldsNothing ==
  \A i \in Invocation :
    pc[i] \in {"denied", "rejected", "pinned", "updated"} /\ Owns(i) =>
      i \in Sender /\ pc[i] = "denied" /\ row.tentative

(* Success is reported only of what is both pinned in Discord and recorded in
   the row (responseFromCommit).                                            *)
OutcomeHonest ==
  /\ \A s \in Sender : pc[s] = "pinned" =>
       row.sent # None /\ posted[row.sent] # 0 /\ row.sent \in pins
  /\ \A p \in Pinner : pc[p] = "pinned" => row.pinned # None /\ row.pinned \in pins

(* What is committed is final: the sent message stays the sent message, and a
   pinned order is neither unpinned nor turned to another page.             *)
CommittedIsFinal ==
  [][/\ row.sent # None => row'.sent = row.sent
     /\ row.pinned # None => row'.pinned = row.pinned /\ row'.rank = row.rank]_vars

=============================================================================
