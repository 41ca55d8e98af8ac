------------------------- MODULE RoomOrderClaimsProofs -------------------------
(***************************************************************************)
(* Proofs about RoomOrderClaims, for any invocations, pages and bounds.    *)
(*                                                                         *)
(* The row changes only by the mutators, each in its place: Moved lists    *)
(* them, and what they keep is proved of it once.  What an invocation has  *)
(* done is proved of the committing ones alone.                            *)
(***************************************************************************)
EXTENDS RoomOrderClaims, FiniteSetTheorems, TLAPS

Exclusive(r) ==
  /\ r.sendClaim # None => r.updateClaim = None /\ r.pinClaim = None
  /\ r.updateClaim # None => r.pinClaim = None
  /\ r.pinned # None => r.sendClaim = None /\ r.updateClaim = None /\ r.pinClaim = None
  /\ r.sent # None => r.sendClaim = None

Held(s) == row.sendClaim = s \/ row.sent = s \/ s \in lost \union repeated
Reference(i) == IF i \in Sender THEN row.sent ELSE row.pinned
Working == {"load", "effect", "deliver"}
Concluded == {"pinned", "partial", "failed"}

(* What a sender has posted shows the page it started from, and its claim or
   its message is in the row.                                               *)
SendingOf(s) ==
  /\ posted[s] # 0 => /\ posted[s] = ctx[s].rank
                      /\ Held(s)
                      /\ \/ pc[s] \in {"commit"} \union Concluded
                         \/ s \in repeated /\ pc[s] \in {"effect", "deliver", "release"}
  /\ pc[s] = "deliver" => Held(s)
  /\ pc[s] \in Working => ctx[s].ref = None
  /\ pc[s] \in Working \union {"commit"} /\ row.sendClaim = s /\ s \in row.fresh =>
       row.rank = ctx[s].rank

(* What a commit refers to is its own or the row's, and has been done.      *)
ReferringOf(i) ==
  ctx[i].ref # None =>
    /\ ctx[i].ref = i \/ ctx[i].ref = Reference(i)
    /\ i \in Sender => ctx[i].ref \in Sender /\ posted[ctx[i].ref] # 0
    /\ i \in Pinner => ctx[i].ref \in Pinner /\ ctx[i].ref \in pins

(* How far the two parts of a commit have come.                             *)
CommittingOf(i) ==
  /\ rec[i] # "load" \/ fin[i] # "check" => pc[i] \in {"commit"} \union Concluded
  /\ pc[i] \notin {"commitRead", "commitDoubt"}
  /\ pc[i] = "commit" => ctx[i].ref # None
  /\ i \in Sender /\ rec[i] \in {"mutate", "reread"} => ctx[i].ref = i
  /\ rec[i] = "tracked" => ctx[i].ref # None /\ Reference(i) = ctx[i].ref
  /\ i \in Sender /\ fin[i] = "done" => ctx[i].ref \in pins
  /\ pc[i] = "pinned" => rec[i] = "tracked" /\ fin[i] = "done"

Own(i) == (i \in Sender => SendingOf(i)) /\ ReferringOf(i) /\ CommittingOf(i)

(* What the row tracks has been done.                                       *)
RowDone ==
  /\ row.sent # None => posted[row.sent] # 0
  /\ row.pinned # None => row.pinned \in pins

IInv == TypeOK /\ Exclusive(row) /\ RowDone /\ \A i \in Committer : Own(i)

-----------------------------------------------------------------------------
(* The mutators.  Every one of them keeps a claim exclusive and what has been
   committed, and no page turns under a fresh send claim.                   *)
Kept(r, new) ==
  /\ new \in Row /\ Exclusive(new)
  /\ r.sent # None => new.sent = r.sent
  /\ r.pinned # None => new.pinned = r.pinned /\ new.rank = r.rank
  /\ r.sendClaim # None /\ r.sendClaim \in r.fresh => new.rank = r.rank

(* All but claiming and completing commit nothing and give no send claim.   *)
Quiet(r, new) ==
  /\ Kept(r, new)
  /\ new.sent = r.sent /\ new.pinned = r.pinned
  /\ new.sendClaim # None => new.sendClaim = r.sendClaim
  /\ new.fresh \intersect Sender \subseteq r.fresh

LEMMA ClaimKeeps ==
  ASSUME NEW r \in Row, Exclusive(r), NEW i \in Invocation, NEW new, new = Claim(r, i)
  PROVE  /\ Kept(r, new)
         /\ new.sent = r.sent /\ new.pinned = r.pinned /\ new.rank = r.rank
         /\ new.sendClaim = i \/ (new.sendClaim # None => new.sendClaim = r.sendClaim)
         /\ i \in Sender /\ r.sendClaim = i => new.sendClaim = i
         /\ new.fresh \intersect Sender \subseteq r.fresh \union {i}
<1> USE ConstantsAssumption DEF Kept, Row, Exclusive, Invocation, Committer
<1>1. CASE new = r
  BY <1>1
<1>2. CASE i \in Sender /\ ~BlocksSendClaim(r)
  BY <1>2 DEF Claim, ClaimSend, BlocksSendClaim
<1>3. CASE i \in Pinner /\ i \notin Sender /\ ~BlocksTentativeClaim(r)
  BY <1>3 DEF Claim, ClaimPin, BlocksTentativeClaim
<1>4. CASE i \in Navigator /\ i \notin Committer /\ ~BlocksTentativeClaim(r)
  BY <1>4 DEF Claim, ClaimUpdate, BlocksTentativeClaim
<1>5. \/ new = r
      \/ i \in Sender /\ ~BlocksSendClaim(r)
      \/ i \in Pinner /\ i \notin Sender /\ ~BlocksTentativeClaim(r)
      \/ i \in Navigator /\ i \notin Committer /\ ~BlocksTentativeClaim(r)
  BY DEF Claim, ClaimSend, ClaimPin, ClaimUpdate
<1> QED
  BY <1>1, <1>2, <1>3, <1>4, <1>5

LEMMA CompleteKeeps ==
  ASSUME NEW r \in Row, Exclusive(r), NEW i \in Committer, NEW new, new = Complete(r, i)
  PROVE  /\ Kept(r, new) /\ new.rank = r.rank
         /\ new.sent # r.sent => i \in Sender /\ new.sent = i /\ r.sendClaim = i
         /\ new.pinned # r.pinned => i \in Pinner /\ new.pinned = i
         /\ new.sendClaim # None => new.sendClaim = r.sendClaim
         /\ i \in Sender /\ r.sendClaim = i => new.sent = i
         /\ new.fresh \subseteq r.fresh
<1> USE ConstantsAssumption DEF Kept, Row, Exclusive, Invocation, Committer
<1>1. CASE new = r
  BY <1>1 DEF Complete, CompleteSend
<1>2. CASE i \in Sender /\ r.sendClaim = i
  BY <1>2 DEF Complete, CompleteSend
<1>3. CASE i \in Pinner /\ i \notin Sender /\ r.pinned = None /\ r.pinClaim = i
  BY <1>3 DEF Complete, CompletePin
<1> QED
  BY <1>1, <1>2, <1>3 DEF Complete, CompleteSend, CompletePin

LEMMA ReleaseKeeps ==
  ASSUME NEW r \in Row, Exclusive(r), NEW i \in Invocation, NEW new,
         \/ new = ReleaseSend(r, i)
         \/ new = ReleasePin(r, i)
         \/ new = ReleaseUpdate(r, i)
  PROVE  Quiet(r, new) /\ (r.sendClaim # i => new.sendClaim = r.sendClaim)
<1> USE ConstantsAssumption DEF Quiet, Kept, Row, Exclusive
<1>1. CASE new = r
  BY <1>1
<1>2. CASE new = [r EXCEPT !.sendClaim = None, !.fresh = @ \ {i}] /\ r.sendClaim = i
  BY <1>2
<1>3. CASE new = [r EXCEPT !.updateClaim = None, !.fresh = @ \ {i}]
  BY <1>3
<1>4. CASE new = [r EXCEPT !.pinClaim = None, !.fresh = @ \ {i}]
  BY <1>4
<1> QED
  BY <1>1, <1>2, <1>3, <1>4 DEF ReleaseSend, ReleasePin, ReleaseUpdate

LEMMA ChangeRankKeeps ==
  ASSUME NEW r \in Row, Exclusive(r), NEW n \in Navigator, NEW from \in Rank, NEW to \in Rank,
         NEW new, new = ChangeRank(r, n, from, to - from)
  PROVE  Quiet(r, new) /\ new.sendClaim = r.sendClaim
<1>1. CASE BlocksRankChange(r, n, from)
  BY <1>1 DEF ChangeRank, Quiet, Kept
<1>2. CASE ~BlocksRankChange(r, n, from)
  <2>1. r.rank = from /\ r.pinned = None /\ ~ActiveSend(r)
    BY <1>2 DEF BlocksRankChange
  <2>2. r.rank + (to - from) = to
    BY <2>1, ConstantsAssumption DEF Rank
  <2>3. new = [r EXCEPT !.rank = to]
    BY <1>2, <2>2 DEF ChangeRank
  <2> QED
    BY <2>1, <2>3 DEF Quiet, Kept, Row, Exclusive, ActiveSend
<1> QED
  BY <1>1, <1>2

LEMMA MarkRowKeeps ==
  ASSUME NEW r \in Row, Exclusive(r), NEW new, new = MarkRowTentative(r)
  PROVE  Quiet(r, new) /\ new.sendClaim = r.sendClaim
  BY DEF MarkRowTentative, Quiet, Kept, Row, Exclusive

LEMMA AgeKeeps ==
  ASSUME NEW r \in Row, Exclusive(r), NEW i, NEW new, new = [r EXCEPT !.fresh = @ \ {i}]
  PROVE  Quiet(r, new) /\ new.sendClaim = r.sendClaim
  BY DEF Quiet, Kept, Row, Exclusive

-----------------------------------------------------------------------------
(* Where the row changes.                                                   *)
ClaimMove(i) == pc[i] = "claimMutate" /\ Store(i, Claim(row, i))
CompleteMove(i) == pc[i] = "commit" /\ rec[i] = "mutate" /\ Store(i, Complete(row, i))
ReleaseMove(i) ==
  \/ i \in Sender /\ pc[i] = "release" /\ Store(i, ReleaseSend(row, i))
  \/ i \in Pinner /\ Store(i, ReleasePin(row, i))
  \/ i \in Navigator /\ Store(i, ReleaseUpdate(row, i))
RankMove(n) == Store(n, ChangeRank(row, n, ctx[n].rank, ctx[n].target - ctx[n].rank))

Moved ==
  \/ row' = row /\ lost' = lost
  \/ \E i \in Invocation : ClaimMove(i) \/ ReleaseMove(i)
  \/ \E i \in Committer : CompleteMove(i)
  \/ \E n \in Navigator : RankMove(n)
  \/ row' = MarkRowTentative(row) /\ lost' = lost
  \/ \E i \in row.fresh : row' = [row EXCEPT !.fresh = @ \ {i}] /\ lost' = lost

(* A step of an invocation that writes the row, or leaves it alone.         *)
LEMMA ClaimStepMoves ==
  ASSUME NEW i \in Invocation, ClaimStep(i)
  PROVE  Moved
<1>1. ClaimMutate(i) => ClaimMove(i) \/ (row' = row /\ lost' = lost)
  BY DEF ClaimMutate, Mutate, ClaimMove
<1>2. StartClaim(i) \/ ClaimDoubt(i) \/ ClaimRead(i) => row' = row /\ lost' = lost
  BY DEF StartClaim, ClaimDoubt, ClaimRead, Look, ghosts
<1> QED
  BY <1>1, <1>2 DEF ClaimStep, Moved

LEMMA CommitterStepMoves ==
  ASSUME NEW i \in Committer, CommitterStep(i)
  PROVE  Moved
<1>1. RecordMutate(i) => CompleteMove(i) \/ (row' = row /\ lost' = lost)
  BY DEF RecordMutate, RecordStep, CompleteMove
<1>2. Load(i) \/ StartEffect(i) \/ Deliver(i) => row' = row /\ lost' = lost
  BY DEF Load, StartEffect, Deliver, Look, ghosts
<1>3. RecordLoad(i) \/ RecordReread(i) => row' = row /\ lost' = lost
  BY DEF RecordLoad, RecordReread
<1>4. FinishCheck(i) \/ FinishDeliver(i) \/ Conclude(i) => row' = row /\ lost' = lost
  BY DEF FinishCheck, FinishDeliver, FinishStep, Conclude, ghosts
<1> QED
  BY <1>1, <1>2, <1>3, <1>4 DEF CommitterStep, Moved

LEMMA PinnerStepMoves ==
  ASSUME NEW p \in Pinner, PinnerStep(p)
  PROVE  Moved
<1>1. PinnerRelease(p) => ReleaseMove(p) \/ (row' = row /\ lost' = lost)
  BY DEF PinnerRelease, ReleaseMove
<1>2. StartCleanup(p) \/ CleanupEdit(p) => row' = row /\ lost' = lost
  BY DEF StartCleanup, CleanupEdit, Look, ghosts
<1> QED
  BY <1>1, <1>2 DEF PinnerStep, Moved, Invocation, Committer

LEMMA NavigatorStepMoves ==
  ASSUME NEW n \in Navigator, NavigatorStep(n)
  PROVE  Moved
<1>1. NavigationCommit(n) => RankMove(n) \/ (row' = row /\ lost' = lost)
  BY DEF NavigationCommit, Mutate, RankMove, ghosts
<1>2. NavigationRelease(n) => ReleaseMove(n) \/ (row' = row /\ lost' = lost)
  BY DEF NavigationRelease, ReleaseMove
<1>3. NavigationLoad(n) \/ CommitDoubt(n) \/ CommitRead(n) => row' = row /\ lost' = lost
  BY DEF NavigationLoad, CommitDoubt, CommitRead, Look, ghosts
<1>4. StartProjection(n) \/ Edit(n) => row' = row /\ lost' = lost
  BY DEF StartProjection, Edit, Look, ghosts
<1> QED
  BY <1>1, <1>2, <1>3, <1>4 DEF NavigatorStep, Moved, Invocation

LEMMA NextMoves == [Next]_vars => Moved
<1> SUFFICES ASSUME [Next]_vars
             PROVE  Moved
  OBVIOUS
<1>1. ASSUME NEW s \in Sender, SenderRelease(s)
      PROVE  Moved
  BY <1>1 DEF SenderRelease, ReleaseMove, Moved, Invocation, Committer
<1>2. ASSUME NEW i \in Invocation, Crash(i)
      PROVE  Moved
  BY <1>2 DEF Crash, ghosts, Moved
<1>3. MarkTentative \/ AgeClaim => Moved
  BY DEF MarkTentative, AgeClaim, ghosts, Moved
<1>4. UNCHANGED vars => Moved
  BY DEF vars, ghosts, Moved
<1> QED
  BY <1>1, <1>2, <1>3, <1>4, ClaimStepMoves, CommitterStepMoves, PinnerStepMoves,
     NavigatorStepMoves DEF Next

-----------------------------------------------------------------------------
(* What every change of the row keeps.                                      *)
RowKeeps ==
  /\ Kept(row, row')
  /\ lost \subseteq lost'
  /\ \A s \in Sender : row.sendClaim = s =>
       row'.sendClaim = s \/ row'.sent = s \/ s \in lost' \/ pc[s] = "release"
  /\ row'.sent # row.sent =>
       /\ row'.sent \in Sender /\ row.sendClaim = row'.sent
       /\ pc[row'.sent] = "commit" /\ rec[row'.sent] = "mutate" /\ row'.rank = row.rank
  /\ row'.pinned # row.pinned =>
       row'.pinned \in Pinner /\ pc[row'.pinned] = "commit" /\ rec[row'.pinned] = "mutate"
  /\ \A s \in Sender : row'.sendClaim = s /\ s \in row'.fresh =>
       pc[s] = "claimMutate" \/ (row.sendClaim = s /\ s \in row.fresh)

(* A send claim that somebody else removes is recorded as lost.             *)
LEMMA StoreLoses ==
  ASSUME TypeOK, NEW i \in Invocation, NEW new \in Row, Store(i, new)
  PROVE  /\ lost \subseteq lost' /\ lost' \subseteq Invocation
         /\ \A s \in Sender : row.sendClaim = s /\ s # i => new.sendClaim = s \/ s \in lost'
  BY ConstantsAssumption DEF TypeOK, Store, Claims, Row, Invocation, Committer

LEMMA OwnsSend ==
  ASSUME TypeOK, NEW s \in Sender
  PROVE  Owns(s) <=> row.sendClaim = s
  BY ConstantsAssumption DEF TypeOK, Owns, Claims, Row, Invocation, Committer

LEMMA MovedKeeps ==
  ASSUME TypeOK, Exclusive(row), Moved
  PROVE  RowKeeps /\ lost' \subseteq Invocation
<1> USE ConstantsAssumption
<1>0. row \in Row /\ lost \subseteq Invocation
  BY DEF TypeOK
<1>1. CASE row' = row /\ lost' = lost
  BY <1>0, <1>1 DEF RowKeeps, Kept
<1>2. ASSUME NEW i \in Invocation, ClaimMove(i)
      PROVE  RowKeeps /\ lost' \subseteq Invocation
  <2>1. /\ Kept(row, row')
        /\ row'.sent = row.sent /\ row'.pinned = row.pinned
        /\ row'.sendClaim = i \/ (row'.sendClaim # None => row'.sendClaim = row.sendClaim)
        /\ i \in Sender /\ row.sendClaim = i => row'.sendClaim = i
        /\ row'.fresh \intersect Sender \subseteq row.fresh \union {i}
    BY <1>0, <1>2, ClaimKeeps DEF ClaimMove, Store
  <2>2. pc[i] = "claimMutate" /\ Store(i, row')
    BY <1>2 DEF ClaimMove, Store
  <2>3. row' \in Row /\ None \notin Sender
    BY <2>1 DEF Kept, Invocation, Committer
  <2> QED
    BY <2>1, <2>2, <2>3, StoreLoses DEF RowKeeps
<1>3. ASSUME NEW i \in Committer, CompleteMove(i)
      PROVE  RowKeeps /\ lost' \subseteq Invocation
  <2>1. /\ Kept(row, row') /\ row'.rank = row.rank
        /\ row'.sent # row.sent => i \in Sender /\ row'.sent = i /\ row.sendClaim = i
        /\ row'.pinned # row.pinned => i \in Pinner /\ row'.pinned = i
        /\ row'.sendClaim # None => row'.sendClaim = row.sendClaim
        /\ i \in Sender /\ row.sendClaim = i => row'.sent = i
        /\ row'.fresh \subseteq row.fresh
    BY <1>0, <1>3, CompleteKeeps DEF CompleteMove, Store
  <2>2. pc[i] = "commit" /\ rec[i] = "mutate" /\ Store(i, row') /\ i \in Invocation
    BY <1>3 DEF CompleteMove, Store, Invocation
  <2>3. row' \in Row /\ None \notin Sender
    BY <2>1 DEF Kept, Invocation, Committer
  <2> QED
    BY <2>1, <2>2, <2>3, StoreLoses DEF RowKeeps
<1>4. ASSUME NEW i \in Invocation, ReleaseMove(i)
      PROVE  RowKeeps /\ lost' \subseteq Invocation
  <2>1. Quiet(row, row') /\ (row.sendClaim # i => row'.sendClaim = row.sendClaim)
    BY <1>0, <1>4, ReleaseKeeps DEF ReleaseMove, Store
  <2>2. Store(i, row') /\ (i \in Sender => pc[i] = "release")
    BY <1>4 DEF ReleaseMove, Store, Committer
  <2>3. row' \in Row /\ None \notin Sender
    BY <2>1 DEF Quiet, Kept, Invocation, Committer
  <2> QED
    BY <2>1, <2>2, <2>3, StoreLoses DEF RowKeeps, Quiet
<1>5. ASSUME NEW n \in Navigator, RankMove(n)
      PROVE  RowKeeps /\ lost' \subseteq Invocation
  <2>1. ctx[n].rank \in Rank /\ ctx[n].target \in Rank /\ n \in Invocation
    BY DEF TypeOK, Context, Invocation
  <2>2. Quiet(row, row') /\ row'.sendClaim = row.sendClaim
    BY <1>0, <1>5, <2>1, ChangeRankKeeps DEF RankMove, Store
  <2>3. Store(n, row') /\ row' \in Row /\ None \notin Sender
    BY <1>5, <2>2 DEF RankMove, Store, Quiet, Kept, Invocation, Committer
  <2> QED
    BY <2>1, <2>2, <2>3, StoreLoses DEF RowKeeps, Quiet
<1>6. ASSUME lost' = lost,
             \/ row' = MarkRowTentative(row)
             \/ \E i \in row.fresh : row' = [row EXCEPT !.fresh = @ \ {i}]
      PROVE  RowKeeps /\ lost' \subseteq Invocation
  <2>1. Quiet(row, row') /\ row'.sendClaim = row.sendClaim
    BY <1>0, <1>6, MarkRowKeeps, AgeKeeps
  <2>2. None \notin Sender
    BY DEF Invocation, Committer
  <2> QED
    BY <1>0, <1>6, <2>1, <2>2 DEF RowKeeps, Quiet
<1> QED
  BY <1>1, <1>2, <1>3, <1>4, <1>5, <1>6 DEF Moved

-----------------------------------------------------------------------------
(* What an invocation that does not move keeps, whatever the row does.      *)
EffectsGrow ==
  /\ \A s \in Sender : posted[s] # 0 => posted'[s] # 0
  /\ pins \subseteq pins'
  /\ repeated \subseteq repeated'
Still(k) ==
  /\ pc'[k] = pc[k] /\ ctx'[k] = ctx[k] /\ rec'[k] = rec[k] /\ fin'[k] = fin[k]
  /\ k \in Sender => posted'[k] = posted[k]

LEMMA HeldKept ==
  ASSUME IInv, RowKeeps, EffectsGrow, NEW s \in Sender, Held(s), pc[s] # "release"
  PROVE  Held(s)'
<1>1. None \notin Sender
  BY ConstantsAssumption DEF Invocation, Committer
<1> QED
  BY <1>1 DEF Held, RowKeeps, Kept, EffectsGrow

LEMMA RowDoneKept ==
  ASSUME IInv, RowKeeps, EffectsGrow
  PROVE  RowDone'
<1>1. ASSUME row'.sent # None
      PROVE  posted'[row'.sent] # 0
  <2>1. row.sent \in Sender \union {None}
    BY DEF IInv, TypeOK, Row
  <2>2. CASE row'.sent = row.sent
    BY <1>1, <2>1, <2>2 DEF IInv, RowDone, EffectsGrow
  <2>3. CASE row'.sent # row.sent
    <3>1. row'.sent \in Sender /\ rec[row'.sent] = "mutate" /\ row'.sent \in Committer
      BY <2>3 DEF RowKeeps, Committer
    <3>2. ctx[row'.sent].ref = row'.sent
      BY <3>1 DEF IInv, Own, CommittingOf
    <3> QED
      BY <1>1, <3>1, <3>2 DEF IInv, Own, ReferringOf, EffectsGrow
  <2> QED
    BY <2>2, <2>3
<1>2. ASSUME row'.pinned # None
      PROVE  row'.pinned \in pins'
  <2>1. CASE row'.pinned = row.pinned
    BY <1>2, <2>1 DEF IInv, RowDone, EffectsGrow
  <2>2. CASE row'.pinned # row.pinned
    <3>1. /\ row'.pinned \in Pinner /\ pc[row'.pinned] = "commit"
          /\ row'.pinned \in Committer /\ row'.pinned \notin Sender
      BY <2>2, ConstantsAssumption DEF RowKeeps, Committer
    <3>2. row.pinned = None
      BY <2>2 DEF RowKeeps, Kept
    <3>3. ctx[row'.pinned].ref # None
      BY <3>1 DEF IInv, Own, CommittingOf
    <3> QED
      BY <3>1, <3>2, <3>3 DEF IInv, Own, ReferringOf, Reference, EffectsGrow
  <2> QED
    BY <2>1, <2>2
<1> QED
  BY <1>1, <1>2 DEF RowDone

LEMMA StillKept ==
  ASSUME IInv, RowKeeps, EffectsGrow, NEW k \in Committer, Still(k)
  PROVE  Own(k)'
<1>0. Own(k) /\ None \notin Sender
  BY ConstantsAssumption DEF IInv, Invocation, Committer
<1>1. ASSUME k \in Sender
      PROVE  SendingOf(k)'
  <2>1. SendingOf(k)
    BY <1>0, <1>1 DEF Own
  <2>2. posted'[k] # 0 \/ pc'[k] = "deliver" => Held(k)'
    <3>1. CASE pc[k] = "release"
      BY <1>1, <2>1, <3>1 DEF Still, SendingOf, Held, EffectsGrow, Concluded
    <3>2. CASE pc[k] # "release"
      BY <1>1, <2>1, <3>2, HeldKept DEF Still, SendingOf
    <3> QED
      BY <3>1, <3>2
  <2>3. pc'[k] \in Working \union {"commit"} /\ row'.sendClaim = k /\ k \in row'.fresh =>
          row'.rank = ctx'[k].rank
    <3> SUFFICES ASSUME pc'[k] \in Working \union {"commit"}, row'.sendClaim = k, k \in row'.fresh
                 PROVE  row'.rank = ctx'[k].rank
      OBVIOUS
    <3>1. row.sendClaim = k /\ k \in row.fresh
      BY <1>1 DEF Still, RowKeeps, Working
    <3>2. row'.rank = row.rank
      BY <1>0, <1>1, <3>1 DEF RowKeeps, Kept
    <3> QED
      BY <2>1, <3>1, <3>2 DEF Still, SendingOf
  <2> QED
    BY <1>1, <2>1, <2>2, <2>3 DEF Still, SendingOf, EffectsGrow
<1>2. ctx[k].ref # None /\ ctx[k].ref = Reference(k) => Reference(k)' = Reference(k)
  BY DEF Reference, RowKeeps, Kept
<1>3. ReferringOf(k)'
  BY <1>0, <1>2 DEF Own, ReferringOf, Still, EffectsGrow
<1>4. CommittingOf(k)'
  BY <1>0, <1>2 DEF Own, CommittingOf, Still, EffectsGrow
<1> QED
  BY <1>1, <1>3, <1>4 DEF Own

-----------------------------------------------------------------------------
(* Types, of all but the row.                                               *)
LocalType ==
  /\ pc \in [Invocation -> Stage]
  /\ ctx \in [Invocation -> Context]
  /\ rec \in [Committer -> Recording]
  /\ fin \in [Committer -> Finishing]
  /\ posted \in [Sender -> Rank \union {0}]
  /\ pins \subseteq Committer
  /\ shown \in Rank
  /\ repeated \subseteq Sender
  /\ faults \in 0..MaxFaults
  /\ ages \in 0..MaxAges

LEMMA LookType ==
  ASSUME TypeOK, NEW i \in Invocation, NEW requirement, NEW then \in Stage,
         NEW otherwise \in Stage, NEW error \in Stage,
         Look(i, requirement, then, otherwise, error)
  PROVE  LocalType'
  BY ConstantsAssumption DEF TypeOK, LocalType, Look, Go, Fault, effects, ghosts

LEMMA MutateType ==
  ASSUME TypeOK, NEW i \in Invocation, NEW new, NEW then \in Stage, NEW doubt \in Stage,
         Mutate(i, new, then, doubt)
  PROVE  LocalType'
  BY ConstantsAssumption DEF TypeOK, LocalType, Mutate, Go, Fault, effects

LEMMA LocalTypeKept ==
  ASSUME IInv, [Next]_vars
  PROVE  LocalType'
<1> USE ConstantsAssumption DEF Invocation, Committer
<1>0. TypeOK /\ LocalType /\ row \in Row
  BY DEF IInv, TypeOK, LocalType
<1>1. ASSUME NEW i \in Invocation, StartClaim(i)
      PROVE  LocalType'
  BY <1>0, <1>1
     DEF StartClaim, LocalType, Go, Fault, effects, ghosts, Stage, Ended, Authorize,
         CommittedReference, ClaimVerdict, Context, Row
<1>2. ASSUME NEW i \in Invocation, ClaimMutate(i)
      PROVE  LocalType'
  BY <1>0, <1>2, MutateType DEF ClaimMutate, LocalType, Stage, Ended
<1>3. ASSUME NEW i \in Invocation, ClaimDoubt(i)
      PROVE  LocalType'
  BY <1>0, <1>3, LookType DEF ClaimDoubt, Stage, Ended
<1>4. ASSUME NEW i \in Invocation, ClaimRead(i)
      PROVE  LocalType'
  <2>1. CommittedReference(i) \in Committer \union {None}
    BY <1>0 DEF CommittedReference, Row
  <2>2. ctx' \in [Invocation -> Context]
    BY <1>0, <1>4, <2>1 DEF ClaimRead, LocalType, Context
  <2>3. pc' \in [Invocation -> Stage]
    BY <1>0, <1>4 DEF ClaimRead, LocalType, Go, Stage, Ended, ClaimVerdict
  <2>4. faults' \in 0..MaxFaults
    BY <1>0, <1>4 DEF ClaimRead, LocalType, Fault
  <2>5. UNCHANGED <<rec, fin, posted, pins, shown, repeated, ages>>
    BY <1>4 DEF ClaimRead, effects, ghosts
  <2> QED
    BY <1>0, <2>2, <2>3, <2>4, <2>5 DEF LocalType
<1>5. ASSUME NEW i \in Committer, Load(i)
      PROVE  LocalType'
  BY <1>0, <1>5, LookType DEF Load, Stage, Ended
<1>6. ASSUME NEW i \in Committer, StartEffect(i)
      PROVE  LocalType'
  BY <1>0, <1>6, LookType DEF StartEffect, Stage, Ended
<1>7. ASSUME NEW i \in Committer, Deliver(i)
      PROVE  LocalType'
  BY <1>0, <1>7 DEF Deliver, LocalType, Go, Fault, effects, ghosts, Stage, Ended, Post, Context
<1>8. ASSUME NEW i \in Committer, RecordLoad(i)
      PROVE  LocalType'
  BY <1>0, <1>8
     DEF RecordLoad, LocalType, Go, Fault, effects, ghosts, Stage, Ended, RecordTo,
         RecordStep, Recording
<1>9. ASSUME NEW i \in Committer, RecordMutate(i)
      PROVE  LocalType'
  BY <1>0, <1>9
     DEF RecordMutate, LocalType, Go, Fault, effects, ghosts, Stage, Ended, RecordTo,
         RecordStep, Recording
<1>10. ASSUME NEW i \in Committer, RecordReread(i)
      PROVE  LocalType'
  BY <1>0, <1>10
     DEF RecordReread, LocalType, Go, Fault, effects, ghosts, Stage, Ended, RecordTo,
         RecordStep, Recording
<1>11. ASSUME NEW i \in Committer, FinishCheck(i)
      PROVE  LocalType'
  BY <1>0, <1>11
     DEF FinishCheck, LocalType, Go, Fault, effects, ghosts, Stage, Ended, FinishTo,
         FinishStep, Finishing
<1>12. ASSUME NEW i \in Committer, FinishDeliver(i)
      PROVE  LocalType'
  <2>1. ctx[i].ref \in Committer
    BY <1>0, <1>12 DEF FinishDeliver, FinishStep, IInv, Own, CommittingOf, LocalType, Context
  <2>2. pins' \subseteq Committer /\ shown' \in Rank
    BY <1>0, <1>12, <2>1 DEF FinishDeliver, FinishEffect, LocalType, Context
  <2>3. fin' \in [Committer -> Finishing]
    BY <1>0, <1>12 DEF FinishDeliver, FinishTo, Finishing, LocalType
  <2>4. faults' \in 0..MaxFaults
    BY <1>0, <1>12 DEF FinishDeliver, Fault, LocalType
  <2> QED
    BY <1>0, <1>12, <2>2, <2>3, <2>4 DEF FinishDeliver, FinishStep, ghosts, LocalType
<1>13. ASSUME NEW i \in Committer, Conclude(i)
      PROVE  LocalType'
  BY <1>0, <1>13 DEF Conclude, LocalType, Go, Fault, effects, ghosts, Stage, Ended
<1>14. ASSUME NEW i \in Sender, SenderRelease(i)
      PROVE  LocalType'
  BY <1>0, <1>14 DEF SenderRelease, LocalType, Go, Fault, effects, ghosts, Stage, Ended
<1>15. ASSUME NEW i \in Pinner, StartCleanup(i)
      PROVE  LocalType'
  BY <1>0, <1>15, LookType DEF StartCleanup, Stage, Ended
<1>16. ASSUME NEW i \in Pinner, CleanupEdit(i)
      PROVE  LocalType'
  BY <1>0, <1>16 DEF CleanupEdit, LocalType, Go, Fault, effects, ghosts, Stage, Ended, Context
<1>17. ASSUME NEW i \in Pinner, PinnerRelease(i)
      PROVE  LocalType'
  BY <1>0, <1>17 DEF PinnerRelease, LocalType, Go, Fault, effects, ghosts, Stage, Ended
<1>18. ASSUME NEW i \in Navigator, NavigationLoad(i)
      PROVE  LocalType'
  BY <1>0, <1>18
     DEF NavigationLoad, LocalType, Go, Fault, effects, ghosts, Stage, Ended, Context
<1>19. ASSUME NEW i \in Navigator, NavigationCommit(i)
      PROVE  LocalType'
  BY <1>0, <1>19, MutateType
     DEF NavigationCommit, LocalType, Stage, Ended, Go, Fault, effects, ghosts
<1>20. ASSUME NEW i \in Navigator, CommitDoubt(i)
      PROVE  LocalType'
  BY <1>0, <1>20, LookType DEF CommitDoubt, Stage, Ended
<1>21. ASSUME NEW i \in Navigator, CommitRead(i)
      PROVE  LocalType'
  BY <1>0, <1>21 DEF CommitRead, LocalType, Go, Fault, effects, ghosts, Stage, Ended
<1>22. ASSUME NEW i \in Navigator, StartProjection(i)
      PROVE  LocalType'
  BY <1>0, <1>22, LookType DEF StartProjection, Stage, Ended
<1>23. ASSUME NEW i \in Navigator, Edit(i)
      PROVE  LocalType'
  BY <1>0, <1>23 DEF Edit, LocalType, Go, Fault, effects, ghosts, Stage, Ended, Context
<1>24. ASSUME NEW i \in Navigator, NavigationRelease(i)
      PROVE  LocalType'
  BY <1>0, <1>24 DEF NavigationRelease, LocalType, Go, Fault, effects, ghosts, Stage, Ended
<1>25. ASSUME NEW i \in Invocation, Crash(i)
      PROVE  LocalType'
  BY <1>0, <1>25
     DEF Crash, LocalType, Go, Fault, effects, ghosts, Stage, Ended, Restarted, RecordTo,
         FinishTo, Recording, Finishing
<1>26. MarkTentative \/ AgeClaim \/ UNCHANGED vars => LocalType'
  BY <1>0 DEF MarkTentative, AgeClaim, vars, LocalType, effects, ghosts
<1> QED
  BY <1>1, <1>2, <1>3, <1>4, <1>5, <1>6, <1>7, <1>8, <1>9, <1>10, <1>11, <1>12, <1>13,
     <1>14, <1>15, <1>16, <1>17, <1>18, <1>19, <1>20, <1>21, <1>22, <1>23, <1>24, <1>25, <1>26
  DEF Next, ClaimStep, CommitterStep, PinnerStep, NavigatorStep

-----------------------------------------------------------------------------
(* What an invocation keeps of itself when it moves.                        *)
Alone(i) == EffectsGrow /\ \A k \in Committer \ {i} : Still(k)

(* The context is what the row shows. *)
LEMMA StartClaimOwn ==
  ASSUME IInv, RowKeeps, NEW i \in Committer, StartClaim(i)
  PROVE  Alone(i) /\ Own(i)'
<1> USE ConstantsAssumption DEF Committer
<1>0. TypeOK /\ Own(i) /\ row.rank \in Rank
  BY DEF IInv, TypeOK, Row
<1>1. Alone(i)
  BY <1>0
     DEF Alone, EffectsGrow, Still, TypeOK, Invocation, StartClaim, Authorize,
         CommittedReference, ClaimVerdict, Misplaced, Go, effects, ghosts
<1>2. i \in Sender => SendingOf(i)'
  BY <1>0
     DEF Own, SendingOf, Held, Working, Concluded, RowKeeps, Kept, TypeOK, Invocation,
         StartClaim, Authorize, CommittedReference, ClaimVerdict, Misplaced, Go, effects,
         ghosts
<1>3. ReferringOf(i)'
  <2>1. row' = row /\ posted' = posted /\ pins' = pins
    BY DEF StartClaim, effects
  <2>2. ctx' = ctx \/ ctx'[i].ref = Reference(i)
    BY <1>0, ConstantsAssumption
    DEF StartClaim, Authorize, CommittedReference, Reference, TypeOK, Context, Invocation
  <2>3. /\ Reference(i) # None => Reference(i) \in Committer
        /\ i \in Sender => row.sent \in Sender \union {None}
        /\ i \in Pinner => row.pinned \in Pinner \union {None}
    BY <1>0 DEF TypeOK, Row, Reference
  <2> QED
    BY <1>0, <2>1, <2>2, <2>3, ConstantsAssumption
    DEF Own, ReferringOf, Reference, RowDone, IInv
<1>4. CommittingOf(i)'
  BY <1>0
     DEF Own, CommittingOf, Concluded, Reference, RowKeeps, Kept, TypeOK, Invocation,
         StartClaim, Authorize, CommittedReference, ClaimVerdict, Misplaced, Go, effects,
         ghosts
<1> QED
  BY <1>1, <1>2, <1>3, <1>4 DEF Own

(* A claim is asked for. *)
LEMMA ClaimMutateOwn ==
  ASSUME IInv, RowKeeps, NEW i \in Committer, ClaimMutate(i)
  PROVE  Alone(i) /\ Own(i)'
<1> USE ConstantsAssumption DEF Committer
<1>0. TypeOK /\ Own(i) /\ row.rank \in Rank
  BY DEF IInv, TypeOK, Row
<1>1. Alone(i)
  BY <1>0 DEF Alone, EffectsGrow, Still, TypeOK, Invocation, ClaimMutate, Mutate, Go, effects
<1>2. i \in Sender => SendingOf(i)'
  BY <1>0
     DEF Own, SendingOf, Held, Working, Concluded, RowKeeps, Kept, TypeOK, Invocation,
         ClaimMutate, Mutate, Go, effects
<1>3. ReferringOf(i)'
  BY <1>0
     DEF Own, ReferringOf, Reference, RowKeeps, Kept, RowDone, TypeOK, Invocation, IInv,
         ClaimMutate, Mutate, Go, effects
<1>4. CommittingOf(i)'
  BY <1>0
     DEF Own, CommittingOf, Concluded, Reference, RowKeeps, Kept, TypeOK, Invocation,
         ClaimMutate, Mutate, Go, effects
<1> QED
  BY <1>1, <1>2, <1>3, <1>4 DEF Own

(* A claim whose answer was lost is looked for. *)
LEMMA ClaimDoubtOwn ==
  ASSUME IInv, RowKeeps, NEW i \in Committer, ClaimDoubt(i)
  PROVE  Alone(i) /\ Own(i)'
<1> USE ConstantsAssumption DEF Committer
<1>0. TypeOK /\ Own(i) /\ row.rank \in Rank
  BY DEF IInv, TypeOK, Row
<1>1. Alone(i)
  BY <1>0
     DEF Alone, EffectsGrow, Still, TypeOK, Invocation, ClaimDoubt, Look, Go, Fault, effects,
         ghosts
<1>2. i \in Sender => SendingOf(i)'
  BY <1>0
     DEF Own, SendingOf, Held, Working, Concluded, RowKeeps, Kept, TypeOK, Invocation,
         ClaimDoubt, Look, Go, Fault, effects, ghosts
<1>3. ReferringOf(i)'
  BY <1>0
     DEF Own, ReferringOf, Reference, RowKeeps, Kept, RowDone, TypeOK, Invocation, IInv,
         ClaimDoubt, Look, Go, Fault, effects, ghosts
<1>4. CommittingOf(i)'
  BY <1>0
     DEF Own, CommittingOf, Concluded, Reference, RowKeeps, Kept, TypeOK, Invocation,
         ClaimDoubt, Look, Go, Fault, effects, ghosts
<1> QED
  BY <1>1, <1>2, <1>3, <1>4 DEF Own

(* The claim action ends with what the row says. *)
LEMMA ClaimReadOwn ==
  ASSUME IInv, RowKeeps, NEW i \in Committer, ClaimRead(i)
  PROVE  Alone(i) /\ Own(i)'
<1> USE ConstantsAssumption DEF Committer
<1>0. TypeOK /\ Own(i) /\ row.rank \in Rank
  BY DEF IInv, TypeOK, Row
<1>1. Alone(i)
  BY <1>0
     DEF Alone, EffectsGrow, Still, TypeOK, Invocation, ClaimRead, CommittedReference,
         ClaimVerdict, Matches, Canonical, Go, effects, ghosts
<1>2. i \in Sender => SendingOf(i)'
  <2> SUFFICES ASSUME i \in Sender
               PROVE  SendingOf(i)'
    OBVIOUS
  <2>1. posted[i] = 0 /\ posted' = posted /\ row' = row
    BY <1>0 DEF ClaimRead, Own, SendingOf, Concluded, effects
  <2>2. pc'[i] \in {"commit", "load", "denied", "failed"}
    BY <1>0 DEF ClaimRead, ClaimVerdict, Go, TypeOK, Invocation
  <2>3. pc'[i] # "failed" => Canonical(i) /\ ctx'[i].ref = row.sent /\ ctx'[i].rank = ctx[i].rank
    BY <1>0, <2>2 DEF ClaimRead, Matches, CommittedReference, Go, TypeOK, Context, Invocation
  <2>4. pc'[i] = "load" => row.sent = None
    BY <1>0 DEF ClaimRead, ClaimVerdict, Go, TypeOK, Invocation
  <2> QED
    BY <2>1, <2>2, <2>3, <2>4 DEF SendingOf, Canonical, Working
<1>3. ReferringOf(i)'
  <2>1. row' = row /\ posted' = posted /\ pins' = pins
    BY DEF ClaimRead, effects
  <2>2. ctx' = ctx \/ ctx'[i].ref = Reference(i)
    BY <1>0, ConstantsAssumption
    DEF ClaimRead, CommittedReference, Reference, TypeOK, Context, Invocation
  <2>3. /\ Reference(i) # None => Reference(i) \in Committer
        /\ i \in Sender => row.sent \in Sender \union {None}
        /\ i \in Pinner => row.pinned \in Pinner \union {None}
    BY <1>0 DEF TypeOK, Row, Reference
  <2> QED
    BY <1>0, <2>1, <2>2, <2>3, ConstantsAssumption
    DEF Own, ReferringOf, Reference, RowDone, IInv
<1>4. CommittingOf(i)'
  <2>1. rec'[i] = rec[i] /\ fin'[i] = fin[i] /\ rec[i] = "load" /\ fin[i] = "check"
    BY <1>0 DEF ClaimRead, Own, CommittingOf, Concluded
  <2>2. pc'[i] \in {"commit", "load", "denied", "failed"}
    BY <1>0 DEF ClaimRead, ClaimVerdict, Go, TypeOK, Invocation
  <2>3. ASSUME pc'[i] = "commit"
        PROVE  ctx'[i].ref # None
    <3>1. i \in Sender /\ row.sent # None
      BY <1>0, <2>3 DEF ClaimRead, ClaimVerdict, Go, TypeOK, Invocation
    <3> QED
      BY <1>0, <2>3, <3>1
      DEF ClaimRead, CommittedReference, Go, TypeOK, Context, Invocation
  <2> QED
    BY <2>1, <2>2, <2>3 DEF CommittingOf
<1> QED
  BY <1>1, <1>2, <1>3, <1>4 DEF Own

(* The view is loaded. *)
LEMMA LoadOwn ==
  ASSUME IInv, RowKeeps, NEW i \in Committer, Load(i)
  PROVE  Alone(i) /\ Own(i)'
<1> USE ConstantsAssumption DEF Committer
<1>0. TypeOK /\ Own(i) /\ row.rank \in Rank
  BY DEF IInv, TypeOK, Row
<1>1. Alone(i)
  BY <1>0
     DEF Alone, EffectsGrow, Still, TypeOK, Invocation, Load, Canonical, Look, Go, Fault,
         effects, ghosts
<1>2. i \in Sender => SendingOf(i)'
  BY <1>0
     DEF Own, SendingOf, Held, Working, Concluded, RowKeeps, Kept, TypeOK, Invocation, Load,
         Canonical, Look, Go, Fault, effects, ghosts
<1>3. ReferringOf(i)'
  BY <1>0
     DEF Own, ReferringOf, Reference, RowKeeps, Kept, RowDone, TypeOK, Invocation, IInv,
         Load, Canonical, Look, Go, Fault, effects, ghosts
<1>4. CommittingOf(i)'
  BY <1>0
     DEF Own, CommittingOf, Concluded, Reference, RowKeeps, Kept, TypeOK, Invocation, Load,
         Canonical, Look, Go, Fault, effects, ghosts
<1> QED
  BY <1>1, <1>2, <1>3, <1>4 DEF Own

(* The effect is authorized by the claim. *)
LEMMA StartEffectOwn ==
  ASSUME IInv, RowKeeps, NEW i \in Committer, StartEffect(i)
  PROVE  Alone(i) /\ Own(i)'
<1> USE ConstantsAssumption DEF Committer
<1>0. TypeOK /\ Own(i) /\ row.rank \in Rank
  BY DEF IInv, TypeOK, Row
<1>1. Alone(i)
  BY <1>0
     DEF Alone, EffectsGrow, Still, TypeOK, Invocation, StartEffect, Look, Go, Fault,
         effects, ghosts
<1>2. i \in Sender => SendingOf(i)'
  BY <1>0, OwnsSend
     DEF Own, SendingOf, Held, Working, Concluded, RowKeeps, Kept, TypeOK, Invocation,
         StartEffect, Look, Go, Fault, effects, ghosts
<1>3. ReferringOf(i)'
  BY <1>0
     DEF Own, ReferringOf, Reference, RowKeeps, Kept, RowDone, TypeOK, Invocation, IInv,
         StartEffect, Look, Go, Fault, effects, ghosts
<1>4. CommittingOf(i)'
  BY <1>0
     DEF Own, CommittingOf, Concluded, Reference, RowKeeps, Kept, TypeOK, Invocation,
         StartEffect, Look, Go, Fault, effects, ghosts
<1> QED
  BY <1>1, <1>2, <1>3, <1>4 DEF Own

(* The effect is delivered, or not. *)
LEMMA DeliverOwn ==
  ASSUME IInv, RowKeeps, NEW i \in Committer, Deliver(i)
  PROVE  Alone(i) /\ Own(i)'
<1> USE ConstantsAssumption DEF Committer
<1>0. TypeOK /\ Own(i) /\ row.rank \in Rank
  BY DEF IInv, TypeOK, Row
<1>1. Alone(i)
  BY <1>0 DEF Alone, EffectsGrow, Still, TypeOK, Invocation, Deliver, Post, Go, effects
<1>2. /\ row' = row /\ rec' = rec /\ fin' = fin /\ lost' = lost
      /\ rec[i] = "load" /\ fin[i] = "check" /\ pc[i] = "deliver"
  BY <1>0 DEF Deliver, Own, CommittingOf, Concluded
<1>3. /\ ctx'[i].rank = ctx[i].rank
      /\ pc'[i] = "commit" => ctx'[i].ref = i
      /\ pc'[i] # "commit" => ctx'[i].ref = ctx[i].ref
      /\ pc'[i] \in {"commit", "effect", "failed", "release", "cleanup"}
  BY <1>0 DEF Deliver, Go, TypeOK, Context, Invocation
<1>4. i \in Sender => posted'[i] \in {posted[i], ctx[i].rank} /\ ctx[i].rank \in Rank
  BY <1>0 DEF Deliver, Post, effects, TypeOK, Context, Invocation
<1>5. i \in Sender /\ pc'[i] = "commit" => posted'[i] # 0
  BY <1>0, <1>4 DEF Deliver, Post, Go, TypeOK, Rank, Invocation
<1>6. i \in Pinner /\ pc'[i] = "commit" => i \in pins'
  BY <1>0 DEF Deliver, Post, Go, TypeOK, Invocation
<1>7. i \in Sender => SendingOf(i)'
  <2> SUFFICES ASSUME i \in Sender
               PROVE  SendingOf(i)'
    OBVIOUS
  <2>1. Held(i)'
    BY <1>0, <1>1, <1>2 DEF Own, SendingOf, Held, Alone, EffectsGrow
  <2>2. posted'[i] # 0 => posted'[i] = ctx[i].rank
    BY <1>0, <1>4 DEF Own, SendingOf
  <2>3. posted'[i] # 0 /\ pc'[i] \in {"effect", "release"} => i \in repeated'
    <3>1. CASE posted[i] # 0
      BY <1>0, <1>1, <3>1 DEF Deliver, Own, SendingOf, Concluded, Alone, EffectsGrow
    <3>2. CASE posted[i] = 0
      BY <1>0, <3>2 DEF Deliver, Go, effects, TypeOK, Invocation
    <3> QED
      BY <3>1, <3>2
  <2>4. pc'[i] # "cleanup"
    BY <1>0 DEF Deliver, Go, TypeOK, Invocation
  <2>5. /\ pc[i] \in Working /\ ctx[i].ref = None
        /\ row.sendClaim = i /\ i \in row.fresh => row.rank = ctx[i].rank
    BY <1>0, <1>2 DEF Own, SendingOf, Working
  <2> QED
    BY <1>2, <1>3, <2>1, <2>2, <2>3, <2>4, <2>5 DEF SendingOf, Working, Concluded
<1>8. ReferringOf(i)'
  BY <1>0, <1>1, <1>2, <1>3, <1>5, <1>6
  DEF Own, ReferringOf, Reference, Alone, EffectsGrow
<1>9. CommittingOf(i)'
  <2>1. ctx'[i].ref # None \/ pc'[i] # "commit"
    BY <1>3 DEF Invocation
  <2> QED
    BY <1>2, <1>3, <2>1 DEF CommittingOf
<1> QED
  BY <1>1, <1>7, <1>8, <1>9 DEF Own

(* What the row tracks is compared with the commit. *)
LEMMA RecordLoadOwn ==
  ASSUME IInv, RowKeeps, NEW i \in Committer, RecordLoad(i)
  PROVE  Alone(i) /\ Own(i)'
<1> USE ConstantsAssumption DEF Committer
<1>0. TypeOK /\ Own(i) /\ row.rank \in Rank
  BY DEF IInv, TypeOK, Row
<1>1. Alone(i)
  BY <1>0
     DEF Alone, EffectsGrow, Still, TypeOK, Invocation, RecordLoad, RecordStep, RecordTo,
         Tracked, effects
<1>2. i \in Sender => SendingOf(i)'
  BY <1>0
     DEF Own, SendingOf, Held, Working, Concluded, RowKeeps, Kept, TypeOK, Invocation,
         RecordLoad, RecordStep, RecordTo, Tracked, effects
<1>3. ReferringOf(i)'
  BY <1>0
     DEF Own, ReferringOf, Reference, RowKeeps, Kept, RowDone, TypeOK, Invocation, IInv,
         RecordLoad, RecordStep, RecordTo, Tracked, effects
<1>4. CommittingOf(i)'
  <2>1. /\ row' = row /\ pc' = pc /\ ctx' = ctx /\ fin' = fin /\ pins' = pins
        /\ pc[i] = "commit" /\ ctx[i].ref # None
    BY <1>0 DEF RecordLoad, RecordStep, effects, Own, CommittingOf
  <2>2. rec'[i] \in {"tracked", "mutate", "untracked", "failed"}
    BY <1>0 DEF RecordLoad, RecordTo, TypeOK
  <2>3. i \in Sender /\ rec'[i] = "mutate" => ctx[i].ref = i
    BY <1>0 DEF RecordLoad, RecordTo, TypeOK
  <2>4. rec'[i] = "tracked" => Reference(i) = ctx[i].ref
    BY <1>0, <2>1 DEF RecordLoad, RecordTo, TypeOK, Tracked, Reference, Own, ReferringOf
  <2> QED
    BY <1>0, <2>1, <2>2, <2>3, <2>4 DEF Own, CommittingOf, Reference
<1> QED
  BY <1>1, <1>2, <1>3, <1>4 DEF Own

(* The commit is recorded. *)
LEMMA RecordMutateOwn ==
  ASSUME IInv, RowKeeps, NEW i \in Committer, RecordMutate(i)
  PROVE  Alone(i) /\ Own(i)'
<1> USE ConstantsAssumption DEF Committer
<1>0. TypeOK /\ Own(i) /\ row.rank \in Rank
  BY DEF IInv, TypeOK, Row
<1>1. Alone(i)
  BY <1>0
     DEF Alone, EffectsGrow, Still, TypeOK, Invocation, RecordMutate, RecordStep, RecordTo,
         effects
<1>2. i \in Sender => SendingOf(i)'
  BY <1>0
     DEF Own, SendingOf, Held, Working, Concluded, RowKeeps, Kept, TypeOK, Invocation,
         RecordMutate, RecordStep, RecordTo, effects
<1>3. ReferringOf(i)'
  BY <1>0
     DEF Own, ReferringOf, Reference, RowKeeps, Kept, RowDone, TypeOK, Invocation, IInv,
         RecordMutate, RecordStep, RecordTo, effects
<1>4. CommittingOf(i)'
  BY <1>0
     DEF Own, CommittingOf, Concluded, Reference, RowKeeps, Kept, TypeOK, Invocation,
         RecordMutate, RecordStep, RecordTo, effects
<1> QED
  BY <1>1, <1>2, <1>3, <1>4 DEF Own

(* The record is read again. *)
LEMMA RecordRereadOwn ==
  ASSUME IInv, RowKeeps, NEW i \in Committer, RecordReread(i)
  PROVE  Alone(i) /\ Own(i)'
<1> USE ConstantsAssumption DEF Committer
<1>0. TypeOK /\ Own(i) /\ row.rank \in Rank
  BY DEF IInv, TypeOK, Row
<1>1. Alone(i)
  BY <1>0
     DEF Alone, EffectsGrow, Still, TypeOK, Invocation, RecordReread, RecordStep, RecordTo,
         Tracked, effects
<1>2. i \in Sender => SendingOf(i)'
  BY <1>0
     DEF Own, SendingOf, Held, Working, Concluded, RowKeeps, Kept, TypeOK, Invocation,
         RecordReread, RecordStep, RecordTo, Tracked, effects
<1>3. ReferringOf(i)'
  BY <1>0
     DEF Own, ReferringOf, Reference, RowKeeps, Kept, RowDone, TypeOK, Invocation, IInv,
         RecordReread, RecordStep, RecordTo, Tracked, effects
<1>4. CommittingOf(i)'
  BY <1>0
     DEF Own, CommittingOf, Concluded, Reference, RowKeeps, Kept, TypeOK, Invocation,
         RecordReread, RecordStep, RecordTo, Tracked, effects
<1> QED
  BY <1>1, <1>2, <1>3, <1>4 DEF Own

(* The other half of the commit is authorized. *)
LEMMA FinishCheckOwn ==
  ASSUME IInv, RowKeeps, NEW i \in Committer, FinishCheck(i)
  PROVE  Alone(i) /\ Own(i)'
<1> USE ConstantsAssumption DEF Committer
<1>0. TypeOK /\ Own(i) /\ row.rank \in Rank
  BY DEF IInv, TypeOK, Row
<1>1. Alone(i)
  BY <1>0
     DEF Alone, EffectsGrow, Still, TypeOK, Invocation, FinishCheck, FinishStep, FinishTo,
         ghosts
<1>2. i \in Sender => SendingOf(i)'
  BY <1>0
     DEF Own, SendingOf, Held, Working, Concluded, RowKeeps, Kept, TypeOK, Invocation,
         FinishCheck, FinishStep, FinishTo, ghosts
<1>3. ReferringOf(i)'
  BY <1>0
     DEF Own, ReferringOf, Reference, RowKeeps, Kept, RowDone, TypeOK, Invocation, IInv,
         FinishCheck, FinishStep, FinishTo, ghosts
<1>4. CommittingOf(i)'
  BY <1>0
     DEF Own, CommittingOf, Concluded, Reference, RowKeeps, Kept, TypeOK, Invocation,
         FinishCheck, FinishStep, FinishTo, ghosts
<1> QED
  BY <1>1, <1>2, <1>3, <1>4 DEF Own

(* The other half of the commit is delivered, or not. *)
LEMMA FinishDeliverOwn ==
  ASSUME IInv, RowKeeps, NEW i \in Committer, FinishDeliver(i)
  PROVE  Alone(i) /\ Own(i)'
<1> USE ConstantsAssumption DEF Committer
<1>0. TypeOK /\ Own(i) /\ row.rank \in Rank
  BY DEF IInv, TypeOK, Row
<1>1. Alone(i)
  BY <1>0
     DEF Alone, EffectsGrow, Still, TypeOK, Invocation, FinishDeliver, FinishStep, FinishTo,
         FinishEffect, ghosts
<1>2. i \in Sender => SendingOf(i)'
  BY <1>0
     DEF Own, SendingOf, Held, Working, Concluded, RowKeeps, Kept, TypeOK, Invocation,
         FinishDeliver, FinishStep, FinishTo, FinishEffect, ghosts
<1>3. ReferringOf(i)'
  BY <1>0
     DEF Own, ReferringOf, Reference, RowKeeps, Kept, RowDone, TypeOK, Invocation, IInv,
         FinishDeliver, FinishStep, FinishTo, FinishEffect, ghosts
<1>4. CommittingOf(i)'
  BY <1>0
     DEF Own, CommittingOf, Concluded, Reference, RowKeeps, Kept, TypeOK, Invocation,
         FinishDeliver, FinishStep, FinishTo, FinishEffect, ghosts
<1> QED
  BY <1>1, <1>2, <1>3, <1>4 DEF Own

(* The two halves of a commit decide its outcome. *)
LEMMA ConcludeOwn ==
  ASSUME IInv, RowKeeps, NEW i \in Committer, Conclude(i)
  PROVE  Alone(i) /\ Own(i)'
<1> USE ConstantsAssumption DEF Committer
<1>0. TypeOK /\ Own(i) /\ row.rank \in Rank
  BY DEF IInv, TypeOK, Row
<1>1. Alone(i)
  BY <1>0 DEF Alone, EffectsGrow, Still, TypeOK, Invocation, Conclude, Go, effects, ghosts
<1>2. i \in Sender => SendingOf(i)'
  BY <1>0
     DEF Own, SendingOf, Held, Working, Concluded, RowKeeps, Kept, TypeOK, Invocation,
         Conclude, Go, effects, ghosts
<1>3. ReferringOf(i)'
  BY <1>0
     DEF Own, ReferringOf, Reference, RowKeeps, Kept, RowDone, TypeOK, Invocation, IInv,
         Conclude, Go, effects, ghosts
<1>4. CommittingOf(i)'
  BY <1>0
     DEF Own, CommittingOf, Concluded, Reference, RowKeeps, Kept, TypeOK, Invocation,
         Conclude, Go, effects, ghosts
<1> QED
  BY <1>1, <1>2, <1>3, <1>4 DEF Own

(* A sender that has not posted gives its claim up. *)
LEMMA SenderReleaseOwn ==
  ASSUME IInv, RowKeeps, NEW i \in Sender, SenderRelease(i)
  PROVE  Alone(i) /\ Own(i)'
<1> USE ConstantsAssumption DEF Committer
<1>0. TypeOK /\ Own(i) /\ i \in Committer
  BY DEF IInv
<1>1. Alone(i)
  BY <1>0 DEF Alone, EffectsGrow, Still, TypeOK, Invocation, SenderRelease, Go, effects
<1>2. i \in Sender => SendingOf(i)'
  BY <1>0
     DEF Own, SendingOf, Held, Working, Concluded, RowKeeps, Kept, TypeOK, Invocation,
         SenderRelease, Go, effects
<1>3. ReferringOf(i)'
  BY <1>0
     DEF Own, ReferringOf, Reference, RowKeeps, Kept, RowDone, TypeOK, Invocation, IInv,
         SenderRelease, Go, effects
<1>4. CommittingOf(i)'
  BY <1>0
     DEF Own, CommittingOf, Concluded, Reference, RowKeeps, Kept, TypeOK, Invocation,
         SenderRelease, Go, effects
<1> QED
  BY <1>1, <1>2, <1>3, <1>4 DEF Own

(* A refused pin is cleaned up. *)
LEMMA StartCleanupOwn ==
  ASSUME IInv, RowKeeps, NEW i \in Pinner, StartCleanup(i)
  PROVE  Alone(i) /\ Own(i)'
<1> USE ConstantsAssumption DEF Committer
<1>0. TypeOK /\ Own(i) /\ i \in Committer
  BY DEF IInv
<1>1. Alone(i)
  BY <1>0
     DEF Alone, EffectsGrow, Still, TypeOK, Invocation, StartCleanup, Look, Go, Fault,
         effects, ghosts
<1>2. i \in Sender => SendingOf(i)'
  BY <1>0
     DEF Own, SendingOf, Held, Working, Concluded, RowKeeps, Kept, TypeOK, Invocation,
         StartCleanup, Look, Go, Fault, effects, ghosts
<1>3. ReferringOf(i)'
  BY <1>0
     DEF Own, ReferringOf, Reference, RowKeeps, Kept, RowDone, TypeOK, Invocation, IInv,
         StartCleanup, Look, Go, Fault, effects, ghosts
<1>4. CommittingOf(i)'
  BY <1>0
     DEF Own, CommittingOf, Concluded, Reference, RowKeeps, Kept, TypeOK, Invocation,
         StartCleanup, Look, Go, Fault, effects, ghosts
<1> QED
  BY <1>1, <1>2, <1>3, <1>4 DEF Own

(* The controls of the message are removed. *)
LEMMA CleanupEditOwn ==
  ASSUME IInv, RowKeeps, NEW i \in Pinner, CleanupEdit(i)
  PROVE  Alone(i) /\ Own(i)'
<1> USE ConstantsAssumption DEF Committer
<1>0. TypeOK /\ Own(i) /\ i \in Committer
  BY DEF IInv
<1>1. Alone(i)
  BY <1>0 DEF Alone, EffectsGrow, Still, TypeOK, Invocation, CleanupEdit, Go, ghosts
<1>2. i \in Sender => SendingOf(i)'
  BY <1>0
     DEF Own, SendingOf, Held, Working, Concluded, RowKeeps, Kept, TypeOK, Invocation,
         CleanupEdit, Go, ghosts
<1>3. ReferringOf(i)'
  BY <1>0
     DEF Own, ReferringOf, Reference, RowKeeps, Kept, RowDone, TypeOK, Invocation, IInv,
         CleanupEdit, Go, ghosts
<1>4. CommittingOf(i)'
  BY <1>0
     DEF Own, CommittingOf, Concluded, Reference, RowKeeps, Kept, TypeOK, Invocation,
         CleanupEdit, Go, ghosts
<1> QED
  BY <1>1, <1>2, <1>3, <1>4 DEF Own

(* A pinner gives its claim up. *)
LEMMA PinnerReleaseOwn ==
  ASSUME IInv, RowKeeps, NEW i \in Pinner, PinnerRelease(i)
  PROVE  Alone(i) /\ Own(i)'
<1> USE ConstantsAssumption DEF Committer
<1>0. TypeOK /\ Own(i) /\ i \in Committer
  BY DEF IInv
<1>1. Alone(i)
  BY <1>0 DEF Alone, EffectsGrow, Still, TypeOK, Invocation, PinnerRelease, Go, effects
<1>2. i \in Sender => SendingOf(i)'
  BY <1>0
     DEF Own, SendingOf, Held, Working, Concluded, RowKeeps, Kept, TypeOK, Invocation,
         PinnerRelease, Go, effects
<1>3. ReferringOf(i)'
  BY <1>0
     DEF Own, ReferringOf, Reference, RowKeeps, Kept, RowDone, TypeOK, Invocation, IInv,
         PinnerRelease, Go, effects
<1>4. CommittingOf(i)'
  BY <1>0
     DEF Own, CommittingOf, Concluded, Reference, RowKeeps, Kept, TypeOK, Invocation,
         PinnerRelease, Go, effects
<1> QED
  BY <1>1, <1>2, <1>3, <1>4 DEF Own

(* A durable action starts again. *)
LEMMA CrashOwn ==
  ASSUME IInv, RowKeeps, NEW i \in Committer, Crash(i)
  PROVE  Alone(i) /\ Own(i)'
<1> USE ConstantsAssumption DEF Committer
<1>0. TypeOK /\ Own(i) /\ i \in Committer
  BY DEF IInv
<1>1. Alone(i)
  BY <1>0
     DEF Alone, EffectsGrow, Still, TypeOK, Invocation, Crash, Restarted, RecordTo, FinishTo,
         Go, effects, ghosts
<1>2. ReferringOf(i)'
  BY <1>0
     DEF Own, ReferringOf, Reference, RowKeeps, Kept, RowDone, TypeOK, Invocation, IInv,
         Crash, Restarted, RecordTo, FinishTo, Go, effects, ghosts
<1>3. /\ row' = row /\ ctx' = ctx /\ posted' = posted /\ pins' = pins
      /\ lost' = lost /\ repeated' = repeated
  BY DEF Crash, effects, ghosts
<1>4. CASE pc[i] # Restarted(pc[i]) /\ Go(i, Restarted(pc[i])) /\ UNCHANGED <<rec, fin>>
  <2>1. pc'[i] = Restarted(pc[i]) /\ rec'[i] = rec[i] /\ fin'[i] = fin[i]
    BY <1>0, <1>4 DEF Go, TypeOK, Invocation
  <2>2. \/ /\ pc[i] \in {"claimMutate", "claimRead", "claimDoubt"}
           /\ pc'[i] = "claim"
        \/ pc[i] = "deliver" /\ pc'[i] = "effect"
        \/ pc[i] = "cleanupEdit" /\ pc'[i] = "cleanup"
        \/ pc[i] = "edit" /\ pc'[i] = "project"
    BY <1>0, <1>4, <2>1 DEF Restarted, Own, CommittingOf
  <2>3. i \in Sender => SendingOf(i)'
    BY <1>0, <1>3, <2>2 DEF Own, SendingOf, Held, Working, Concluded
  <2>4. CommittingOf(i)'
    BY <1>0, <1>3, <2>1, <2>2 DEF Own, CommittingOf, Concluded, Reference
  <2> QED
    BY <1>1, <1>2, <2>3, <2>4 DEF Own
<1>5. CASE /\ pc[i] = "commit" /\ UNCHANGED pc
           /\ \/ rec[i] \in {"mutate", "reread"} /\ RecordTo(i, "load") /\ UNCHANGED fin
              \/ fin[i] = "deliver" /\ FinishTo(i, "check") /\ UNCHANGED rec
  <2>1. /\ pc'[i] = "commit"
        /\ rec'[i] = rec[i] \/ rec'[i] = "load"
        /\ fin'[i] = fin[i] \/ fin'[i] = "check"
    BY <1>0, <1>5 DEF RecordTo, FinishTo, TypeOK
  <2>2. i \in Sender => SendingOf(i)'
    BY <1>0, <1>3, <1>5, <2>1 DEF Own, SendingOf, Held, Working, Concluded
  <2>3. CommittingOf(i)'
    BY <1>0, <1>3, <1>5, <2>1 DEF Own, CommittingOf, Concluded, Reference
  <2> QED
    BY <1>1, <1>2, <2>2, <2>3 DEF Own
<1> QED
  BY <1>4, <1>5 DEF Crash

(* Navigators touch nothing a commit rests on but the row.                  *)
LEMMA NavigatorAlone ==
  ASSUME IInv, NEW n \in Navigator,
         NavigatorStep(n) \/ ClaimStep(n) \/ Crash(n)
  PROVE  Alone(n)
<1> USE ConstantsAssumption DEF Alone, EffectsGrow, Still, IInv, TypeOK, Invocation, effects, ghosts
<1>1. CASE NavigationLoad(n) \/ CommitRead(n) \/ Edit(n) \/ NavigationRelease(n)
  BY <1>1 DEF NavigationLoad, CommitRead, Edit, NavigationRelease, Go
<1>2. CASE CommitDoubt(n) \/ StartProjection(n) \/ ClaimDoubt(n)
  BY <1>2 DEF CommitDoubt, StartProjection, ClaimDoubt, Look, Go
<1>3. CASE NavigationCommit(n) \/ ClaimMutate(n)
  BY <1>3 DEF NavigationCommit, ClaimMutate, Mutate, Go
<1>4. CASE StartClaim(n) \/ ClaimRead(n)
  BY <1>4 DEF StartClaim, Authorize, ClaimRead, Go
<1>5. CASE Crash(n)
  BY <1>5 DEF Crash, Go
<1> QED
  BY <1>1, <1>2, <1>3, <1>4, <1>5 DEF NavigatorStep, ClaimStep

LEMMA AroundAlone ==
  ASSUME MarkTentative \/ AgeClaim \/ UNCHANGED vars
  PROVE  EffectsGrow /\ \A k \in Committer : Still(k)
  BY DEF MarkTentative, AgeClaim, vars, EffectsGrow, Still, effects, ghosts

-----------------------------------------------------------------------------
LEMMA InitInv == Init => IInv
<1> SUFFICES ASSUME Init
             PROVE  IInv
  OBVIOUS
<1> USE ConstantsAssumption
<1>1. row \in Row /\ Exclusive(row) /\ RowDone
  BY DEF Init, Row, Rank, Exclusive, RowDone
<1>2. TypeOK
  BY <1>1 DEF Init, TypeOK, Row, Rank, Context, Stage, Recording, Finishing
<1>3. ASSUME NEW i \in Committer
      PROVE  Own(i)
  BY <1>1, <1>3
  DEF Init, Own, SendingOf, ReferringOf, CommittingOf, Working, Invocation
<1> QED
  BY <1>1, <1>2, <1>3 DEF IInv

LEMMA NextInv == IInv /\ [Next]_vars => IInv'
<1> SUFFICES ASSUME IInv, [Next]_vars
             PROVE  IInv'
  OBVIOUS
<1>1. RowKeeps /\ lost' \subseteq Invocation
  BY NextMoves, MovedKeeps DEF IInv
<1>2. TypeOK'
  BY <1>1, LocalTypeKept DEF LocalType, TypeOK, RowKeeps, Kept
<1>3. ASSUME NEW i \in Invocation, Alone(i), i \in Committer => Own(i)'
      PROVE  IInv'
  <2>1. RowDone' /\ \A k \in Committer \ {i} : Own(k)'
    BY <1>1, <1>3, RowDoneKept, StillKept DEF Alone
  <2> QED
    BY <1>1, <1>2, <1>3, <2>1 DEF IInv, RowKeeps, Kept
<1>4. ASSUME NEW i \in Committer, ClaimStep(i) \/ CommitterStep(i) \/ Crash(i)
      PROVE  Alone(i) /\ Own(i)'
  BY <1>1, <1>4, StartClaimOwn, ClaimMutateOwn, ClaimDoubtOwn, ClaimReadOwn, LoadOwn,
     StartEffectOwn, DeliverOwn, RecordLoadOwn, RecordMutateOwn, RecordRereadOwn,
     FinishCheckOwn, FinishDeliverOwn, ConcludeOwn, CrashOwn DEF ClaimStep, CommitterStep
<1>5. ASSUME NEW s \in Sender, SenderRelease(s)
      PROVE  Alone(s) /\ Own(s)'
  BY <1>1, <1>5, SenderReleaseOwn
<1>6. ASSUME NEW p \in Pinner, PinnerStep(p)
      PROVE  Alone(p) /\ Own(p)'
  BY <1>1, <1>6, StartCleanupOwn, CleanupEditOwn, PinnerReleaseOwn DEF PinnerStep
<1>7. ASSUME NEW n \in Navigator, NavigatorStep(n) \/ ClaimStep(n) \/ Crash(n)
      PROVE  Alone(n) /\ n \notin Committer
  BY <1>7, NavigatorAlone, ConstantsAssumption
<1>8. ASSUME MarkTentative \/ AgeClaim \/ UNCHANGED vars
      PROVE  IInv'
  BY <1>1, <1>2, <1>8, AroundAlone, RowDoneKept, StillKept DEF IInv, RowKeeps, Kept
<1>9. /\ \A i \in Committer : ClaimStep(i) \/ CommitterStep(i) \/ Crash(i) => IInv'
      /\ \A s \in Sender : SenderRelease(s) => IInv'
      /\ \A p \in Pinner : PinnerStep(p) => IInv'
      /\ \A n \in Navigator : NavigatorStep(n) \/ ClaimStep(n) \/ Crash(n) => IInv'
  BY <1>3, <1>4, <1>5, <1>6, <1>7 DEF Invocation, Committer
<1> QED
  BY <1>8, <1>9 DEF Next, Invocation

-----------------------------------------------------------------------------
(* The invariant the other theorems rest on.                                *)
THEOREM Inductive == Spec => []IInv
  BY InitInv, NextInv, PTL DEF Spec

(* The state keeps its type; a page turn that is not blocked stays within the
   pages (blocksRankChange).                                                *)
THEOREM TypeCorrect == Spec => []TypeOK
<1>1. IInv => TypeOK
  BY DEF IInv
<1> QED
  BY <1>1, Inductive, PTL

(* The three claims exclude each other and what has been committed (the claim
   mutators of messageRoomOrder).                                           *)
THEOREM ClaimsExclude == Spec => []ClaimsExclusive
<1>1. IInv => ClaimsExclusive
  <2> SUFFICES ASSUME IInv
               PROVE  ClaimsExclusive
    OBVIOUS
  <2>1. Claims(row) = {} \/ \E c : Claims(row) = {c}
    BY DEF IInv, Exclusive, Claims
  <2>2. Cardinality(Claims(row)) <= 1
    <3>1. CASE Claims(row) = {}
      <4>1. Cardinality(Claims(row)) = 0
        BY <3>1, FS_EmptySet, Zenon
      <4> QED
        BY <4>1
    <3>2. CASE \E c : Claims(row) = {c}
      <4>1. PICK c : Claims(row) = {c}
        BY <3>2
      <4>2. Cardinality(Claims(row)) = 1
        BY <4>1, FS_Singleton, Zenon
      <4> QED
        BY <4>2
    <3> QED
      BY <2>1, <3>1, <3>2
  <2> QED
    BY <2>2 DEF ClaimsExclusive, IInv, Exclusive, Claims
<1> QED
  BY <1>1, Inductive, PTL

(* A sender that has posted keeps the row from every other, unless its claim
   was taken over or its send action ran again (sendRoomOrderMessage).      *)
THEOREM SentOnce == Spec => []OneSend
<1>1. IInv => OneSend
  BY DEF IInv, OneSend, Own, SendingOf, Held, Committer
<1> QED
  BY <1>1, Inductive, PTL

(* Success is reported of what is pinned and recorded (responseFromCommit). *)
THEOREM HonestOutcome == Spec => []OutcomeHonest
<1>1. IInv => OutcomeHonest
  BY ConstantsAssumption
  DEF IInv, OutcomeHonest, Own, CommittingOf, ReferringOf, RowDone, Reference, Committer
<1> QED
  BY <1>1, Inductive, PTL

(* What is committed is never undone (the completing mutators and the guards
   of the others).                                                          *)
THEOREM Committed == Spec => CommittedIsFinal
<1>1. IInv /\ [Next]_vars =>
        /\ row.sent # None => row'.sent = row.sent
        /\ row.pinned # None => row'.pinned = row.pinned /\ row'.rank = row.rank
  BY NextMoves, MovedKeeps DEF IInv, RowKeeps, Kept
<1> QED
  BY <1>1, Inductive, PTL DEF Spec, CommittedIsFinal

(* A message tracked as the sent order shows the row's page, unless its claim
   went stale (completeMessageRoomOrderSend).                               *)
THEOREM TrackedShown == Spec => TrackedRankShown
<1>1. IInv /\ [Next]_vars =>
        \A s \in Sender :
          row.sent # s /\ row'.sent = s /\ s \in row.fresh => posted[s] = row.rank
  <2> SUFFICES ASSUME IInv, [Next]_vars, NEW s \in Sender,
                      row.sent # s, row'.sent = s, s \in row.fresh
               PROVE  posted[s] = row.rank
    OBVIOUS
  <2>1. row.sendClaim = s /\ pc[s] = "commit" /\ rec[s] = "mutate"
    BY NextMoves, MovedKeeps DEF IInv, RowKeeps
  <2>2. posted[s] # 0 /\ row.rank = ctx[s].rank
    BY <2>1, ConstantsAssumption
    DEF IInv, Own, CommittingOf, ReferringOf, SendingOf, Committer, Invocation
  <2> QED
    BY <2>2 DEF IInv, Own, SendingOf, Committer
<1> QED
  BY <1>1, Inductive, PTL DEF Spec, TrackedRankShown

-----------------------------------------------------------------------------
(* What the message shows, and the claims of invocations that have ended.  As
   long as nobody has lost the claim under which it edits the message, one
   invocation at most may edit it: the navigator or pinner that holds the
   claim, or anybody who finalizes a pinned order, whose page is final.       *)
Clear == lost \intersect (Navigator \union Pinner) = {}
Claiming == {"claim", "claimMutate", "claimRead", "claimDoubt"}
Turning ==
  {"load", "commit", "commitRead", "commitDoubt", "project", "edit", "release", "releaseDenied"}
Pinning == {"effect", "deliver", "commit", "cleanup", "cleanupEdit"}
Reported == {"denied", "rejected", "pinned", "updated"}

(* A navigator holds the claim from its load to its release; it found the
   page shown when it took the claim and shows it again before the release. *)
NavigatorOf(n) ==
  /\ pc[n] \in Turning => row.updateClaim = n
  /\ pc[n] \in {"project", "edit", "release"} => row.rank = ctx[n].target
  /\ row.updateClaim = n /\ pc[n] \in Claiming \union {"load", "release", "releaseDenied"} =>
       shown = row.rank

(* A pinner keeps the page it started from in place, by its claim or by the
   pin that is committed.                                                   *)
PinnerOf(p) ==
  pc[p] \in Pinning => /\ row.pinClaim = p \/ row.pinned # None
                       /\ row.rank = ctx[p].rank

ShownInv ==
  Clear => /\ DisplayAgrees
           /\ \A n \in Navigator : NavigatorOf(n)
           /\ \A p \in Pinner : PinnerOf(p)

(* Only a tentative order has a pin claim.                                  *)
EndedOf(i) ==
  /\ pc[i] \in Reported /\ Owns(i) => i \in Sender /\ pc[i] = "denied" /\ row.tentative
  /\ i \in Pinner /\ pc[i] = "claimMutate" => row.tentative
HeldInv ==
  /\ row.pinClaim # None => row.tentative
  /\ \A i \in Invocation : EndedOf(i)

-----------------------------------------------------------------------------
(* What a step of i leaves of the row to the others.                        *)
RowBy(i) ==
  /\ lost \subseteq lost'
  /\ row'.sendClaim \in {row.sendClaim, None, i}
  /\ row'.updateClaim \in {row.updateClaim, None, i}
  /\ row'.pinClaim \in {row.pinClaim, None, i}
  /\ Claims(row) \ {i} \subseteq Claims(row') \union lost'
  /\ row.tentative => row'.tentative
  /\ row.pinned # None => row'.pinned = row.pinned
Beside(i) ==
  /\ \A j \in Invocation \ {i} : pc'[j] = pc[j] /\ ctx'[j] = ctx[j]
  /\ RowBy(i)

LEMMA RowAlone ==
  ASSUME NEW i, UNCHANGED <<row, lost>>
  PROVE  RowBy(i)
  BY DEF RowBy

LEMMA StoreBy ==
  ASSUME row \in Row, NEW i, NEW new, Store(i, new),
         new.sendClaim \in {row.sendClaim, None, i},
         new.updateClaim \in {row.updateClaim, None, i},
         new.pinClaim \in {row.pinClaim, None, i},
         new.tentative = row.tentative,
         row.pinned # None => new.pinned = row.pinned
  PROVE  RowBy(i)
  BY DEF RowBy, Store

LEMMA ClaimBy ==
  ASSUME row \in Row, NEW i \in Invocation, Store(i, Claim(row, i))
  PROVE  /\ RowBy(i) /\ row'.rank = row.rank
         /\ i \notin Pinner => row'.pinClaim \in {row.pinClaim, None}
<1> DEFINE new == Claim(row, i)
<1>1. /\ new.sendClaim \in {row.sendClaim, None, i}
      /\ new.updateClaim \in {row.updateClaim, None, i}
      /\ new.pinClaim \in {row.pinClaim, None, i}
      /\ i \notin Pinner => new.pinClaim \in {row.pinClaim, None}
      /\ new.tentative = row.tentative /\ new.rank = row.rank /\ new.pinned = row.pinned
  BY DEF Claim, ClaimSend, ClaimPin, ClaimUpdate, Row, Invocation, Committer
<1>2. row' = new
  BY DEF Store
<1> HIDE DEF new
<1> QED
  BY <1>1, <1>2, StoreBy DEF new

LEMMA CompleteBy ==
  ASSUME row \in Row, NEW i \in Committer, Store(i, Complete(row, i))
  PROVE  RowBy(i) /\ row'.rank = row.rank /\ row'.pinClaim \in {row.pinClaim, None}
<1> DEFINE new == Complete(row, i)
<1>1. /\ new.sendClaim \in {row.sendClaim, None}
      /\ new.updateClaim = row.updateClaim
      /\ new.pinClaim \in {row.pinClaim, None}
      /\ new.tentative = row.tentative /\ new.rank = row.rank
      /\ row.pinned # None => new.pinned = row.pinned
  BY DEF Complete, CompleteSend, CompletePin, Row
<1>2. row' = new
  BY DEF Store
<1> HIDE DEF new
<1> QED
  BY <1>1, <1>2, StoreBy DEF new

LEMMA ReleaseBy ==
  ASSUME row \in Row, NEW i, NEW new, Store(i, new),
         \/ new = ReleaseSend(row, i)
         \/ new = ReleasePin(row, i)
         \/ new = ReleaseUpdate(row, i)
  PROVE  RowBy(i) /\ row'.rank = row.rank /\ row'.pinClaim \in {row.pinClaim, None}
<1>1. /\ new.sendClaim \in {row.sendClaim, None}
      /\ new.updateClaim \in {row.updateClaim, None}
      /\ new.pinClaim \in {row.pinClaim, None}
      /\ new.tentative = row.tentative /\ new.rank = row.rank
      /\ new.pinned = row.pinned
  BY DEF ReleaseSend, ReleasePin, ReleaseUpdate, Row
<1>2. row' = new
  BY DEF Store
<1> QED
  BY <1>1, <1>2, StoreBy

LEMMA ChangeRankBy ==
  ASSUME row \in Row, NEW n, NEW expected \in Rank, NEW target \in Rank,
         Store(n, ChangeRank(row, n, expected, target - expected))
  PROVE  /\ RowBy(n) /\ row'.pinClaim = row.pinClaim /\ row'.updateClaim = row.updateClaim
         /\ row'.rank # row.rank => row'.rank = target /\ row.pinned = None
<1> DEFINE new == ChangeRank(row, n, expected, target - expected)
<1>1. /\ new.sendClaim = row.sendClaim /\ new.updateClaim = row.updateClaim
      /\ new.pinClaim = row.pinClaim
      /\ new.tentative = row.tentative /\ new.pinned = row.pinned
  BY DEF ChangeRank, Row
<1>2. new.rank # row.rank => new.rank = target /\ row.pinned = None
  BY ConstantsAssumption DEF ChangeRank, BlocksRankChange, Row, Rank
<1>3. row' = new
  BY DEF Store
<1> HIDE DEF new
<1> QED
  BY <1>1, <1>2, <1>3, StoreBy DEF new

(* The claims of the others, while nobody's is lost.                        *)
LEMMA OthersClaims ==
  ASSUME TypeOK, TypeOK', NEW i \in Invocation \union {None}, RowBy(i)
  PROVE  /\ \A j \in Invocation \ {i} : Owns(j)' => Owns(j)
         /\ \A n \in Navigator \ {i} : row'.updateClaim = n => row.updateClaim = n
         /\ Clear' => \A n \in Navigator \ {i} : row.updateClaim = n => row'.updateClaim = n
         /\ Clear' => \A p \in Pinner \ {i} : row.pinClaim = p => row'.pinClaim = p
<1> USE ConstantsAssumption DEF Invocation, Committer
<1>0. row \in Row /\ row' \in Row
  BY DEF TypeOK
<1>1. \A j \in Invocation \ {i} : Owns(j)' => Owns(j)
  BY <1>0 DEF RowBy, Owns, Claims, Row
<1>2. \A n \in Navigator \ {i} : row'.updateClaim = n => row.updateClaim = n
  BY <1>0 DEF RowBy, Row
<1>3. ASSUME Clear', NEW n \in Navigator \ {i}, row.updateClaim = n
      PROVE  row'.updateClaim = n
  <2>1. n \in Claims(row')
    BY <1>3 DEF RowBy, Claims, Clear
  <2> QED
    BY <1>0, <2>1 DEF Claims, Row
<1>4. ASSUME Clear', NEW p \in Pinner \ {i}, row.pinClaim = p
      PROVE  row'.pinClaim = p
  <2>1. p \in Claims(row')
    BY <1>4 DEF RowBy, Claims, Clear
  <2> QED
    BY <1>0, <2>1 DEF Claims, Row
<1> QED
  BY <1>1, <1>2, <1>3, <1>4

LEMMA OwnsIts ==
  ASSUME TypeOK
  PROVE  /\ \A n \in Navigator : Owns(n) <=> row.updateClaim = n
         /\ \A p \in Pinner : Owns(p) <=> row.pinClaim = p
  BY ConstantsAssumption DEF TypeOK, Row, Owns, Claims, Invocation, Committer

-----------------------------------------------------------------------------
(* What a step of i does not disturb.                                       *)
LEMMA OthersShown ==
  ASSUME IInv, TypeOK', ShownInv, Clear, Clear', NEW i \in Invocation \union {None},
         Beside(i), row'.rank = row.rank, shown' \in {shown, row.rank}
  PROVE  /\ \A n \in Navigator \ {i} : NavigatorOf(n)'
         /\ \A p \in Pinner \ {i} : PinnerOf(p)'
         /\ \/ DisplayAgrees'
            \/ /\ shown' = shown /\ shown # row.rank
               /\ i \in Navigator /\ row.updateClaim = i /\ row.rank = ctx[i].target
<1>1. /\ \A n \in Navigator \ {i} : row'.updateClaim = n <=> row.updateClaim = n
      /\ \A p \in Pinner \ {i} : row.pinClaim = p => row'.pinClaim = p
  BY OthersClaims DEF Beside, IInv
<1>2. \A j \in (Navigator \union Pinner) \ {i} : pc'[j] = pc[j] /\ ctx'[j] = ctx[j]
  BY DEF Beside, Invocation, Committer
<1>3. row.pinned # None => row'.pinned # None
  BY DEF Beside, RowBy
<1>4. ASSUME NEW n \in Navigator \ {i}
      PROVE  NavigatorOf(n)'
  BY <1>1, <1>2 DEF ShownInv, NavigatorOf
<1>5. ASSUME NEW p \in Pinner \ {i}
      PROVE  PinnerOf(p)'
  BY <1>1, <1>2, <1>3 DEF ShownInv, PinnerOf
<1>6. \/ DisplayAgrees'
      \/ /\ shown' = shown /\ shown # row.rank
         /\ i \in Navigator /\ row.updateClaim = i /\ row.rank = ctx[i].target
  <2>1. CASE shown' = row.rank
    BY <2>1 DEF DisplayAgrees
  <2>2. CASE shown' = shown /\ shown # row.rank
    <3>1. PICK n \in Navigator : row.updateClaim = n /\ row.rank = ctx[n].target
      BY <2>2 DEF ShownInv, DisplayAgrees, Clear
    <3>2. n # i => DisplayAgrees'
      BY <1>1, <1>2, <3>1 DEF DisplayAgrees
    <3> QED
      BY <2>2, <3>1, <3>2
  <2> QED
    BY <2>1, <2>2
<1> QED
  BY <1>4, <1>5, <1>6

LEMMA OthersHeld ==
  ASSUME IInv, TypeOK', HeldInv, NEW i \in Invocation \union {None}, Beside(i)
  PROVE  \A j \in Invocation \ {i} : EndedOf(j)'
<1>1. \A j \in Invocation \ {i} : Owns(j)' => Owns(j)
  BY OthersClaims DEF Beside, IInv
<1>2. \A j \in Invocation \ {i} : pc'[j] = pc[j]
  BY DEF Beside
<1> QED
  BY <1>1, <1>2 DEF HeldInv, EndedOf, Beside, RowBy

(* What remains to be shown of a step of i.                                 *)
HeldBy(i) ==
  /\ Beside(i) /\ EndedOf(i)'
  /\ row'.pinClaim \in {row.pinClaim, None} \/ row.tentative
ShownBy(i) ==
  /\ row'.rank = row.rank /\ shown' \in {shown, row.rank}
  /\ i \in Navigator => NavigatorOf(i)'
  /\ i \in Pinner => PinnerOf(i)'
  /\ i \in Navigator /\ row.updateClaim = i /\ row.rank = ctx[i].target =>
       \/ shown = row.rank
       \/ shown' = row.rank
       \/ row'.updateClaim = i /\ ctx'[i].target = ctx[i].target

LEMMA HeldStep ==
  ASSUME IInv, TypeOK', HeldInv, NEW i \in Invocation, HeldBy(i)
  PROVE  HeldInv'
<1>1. \A j \in Invocation : EndedOf(j)'
  BY OthersHeld DEF HeldBy
<1>2. row'.pinClaim # None => row'.tentative
  BY DEF HeldInv, HeldBy, Beside, RowBy
<1> QED
  BY <1>1, <1>2 DEF HeldInv

LEMMA ShownStep ==
  ASSUME IInv, TypeOK', ShownInv, NEW i \in Invocation, Beside(i), Clear' => Clear /\ ShownBy(i)
  PROVE  ShownInv'
<1> SUFFICES ASSUME Clear'
             PROVE  /\ DisplayAgrees'
                    /\ \A n \in Navigator : NavigatorOf(n)'
                    /\ \A p \in Pinner : PinnerOf(p)'
  BY DEF ShownInv
<1>0. Clear /\ ShownBy(i)
  OBVIOUS
<1>1. /\ \A n \in Navigator \ {i} : NavigatorOf(n)'
      /\ \A p \in Pinner \ {i} : PinnerOf(p)'
      /\ \/ DisplayAgrees'
         \/ /\ shown' = shown /\ shown # row.rank
            /\ i \in Navigator /\ row.updateClaim = i /\ row.rank = ctx[i].target
  BY <1>0, OthersShown DEF ShownBy
<1>2. DisplayAgrees'
  BY <1>0, <1>1 DEF ShownBy, DisplayAgrees
<1> QED
  BY <1>0, <1>1, <1>2 DEF ShownBy

-----------------------------------------------------------------------------
(* The claims, step by step.                                                *)
LEMMA ClaimStepHeld ==
  ASSUME IInv, HeldInv, TypeOK', NEW i \in Invocation, ClaimStep(i)
  PROVE  HeldBy(i)
<1>0. TypeOK /\ row \in Row /\ Exclusive(row) /\ EndedOf(i)
  BY DEF IInv, TypeOK, HeldInv
<1>1. CASE StartClaim(i)
  <2>1. UNCHANGED <<row, lost>> /\ Beside(i)
    BY <1>0, <1>1, RowAlone DEF StartClaim, ghosts, Beside, Authorize, Go, TypeOK
  <2>2. /\ pc'[i] = "denied" => Misplaced(i)
        /\ pc'[i] = "claimMutate" => ~Misplaced(i)
    <3>1. ClaimVerdict(i, "claimMutate") # "denied"
      BY DEF ClaimVerdict
    <3>2. \/ pc'[i] = "failed"
          \/ Misplaced(i) /\ pc'[i] = "denied"
          \/ ~Misplaced(i) /\ pc'[i] \in {"claimMutate", ClaimVerdict(i, "claimMutate")}
      BY <1>0, <1>1 DEF StartClaim, Go, TypeOK
    <3> QED
      BY <3>1, <3>2
  <2>3. pc'[i] \notin {"rejected", "pinned", "updated"}
    BY <1>0, <1>1 DEF StartClaim, Go, TypeOK, ClaimVerdict
  <2>4. i \in Pinner => i \notin Sender
    BY ConstantsAssumption
  <2>5. Owns(i) => i \notin Pinner \/ row.pinClaim # None
    BY <1>0, OwnsIts, ConstantsAssumption DEF Invocation, Committer
  <2>6. Owns(i) /\ Misplaced(i) => i \in Sender /\ row.tentative
    BY <1>0, <2>4, <2>5 DEF Misplaced, Exclusive, Owns, Claims, HeldInv
  <2>7. i \in Pinner /\ ~Misplaced(i) => row.tentative
    BY <2>4 DEF Misplaced
  <2>8. EndedOf(i)'
    BY <2>1, <2>2, <2>3, <2>6, <2>7 DEF EndedOf, Reported, Owns
  <2> QED
    BY <2>1, <2>8 DEF HeldBy
<1>2. CASE ClaimMutate(i)
  <2>1. /\ Store(i, Claim(row, i)) \/ UNCHANGED <<row, lost>>
        /\ pc[i] = "claimMutate" /\ pc'[i] \in {"claimRead", "claimDoubt"}
        /\ \A j \in Invocation \ {i} : pc'[j] = pc[j] /\ ctx'[j] = ctx[j]
    BY <1>0, <1>2 DEF ClaimMutate, Mutate, Go, TypeOK
  <2>2. RowBy(i) /\ (row'.pinClaim \in {row.pinClaim, None} \/ i \in Pinner)
    BY <1>0, <2>1, RowAlone, ClaimBy
  <2>3. i \in Pinner => row.tentative
    BY <1>0, <2>1 DEF EndedOf
  <2> QED
    BY <2>1, <2>2, <2>3 DEF HeldBy, Beside, EndedOf, Reported
<1>3. CASE ClaimDoubt(i)
  BY <1>0, <1>3, RowAlone DEF ClaimDoubt, Look, Go, ghosts, TypeOK, HeldBy, Beside, EndedOf, Reported
<1>4. CASE ClaimRead(i)
  <2>1. UNCHANGED <<row, lost>> /\ Beside(i)
    BY <1>0, <1>4, RowAlone DEF ClaimRead, ghosts, Beside, Go, TypeOK
  <2>2. pc'[i] \in Reported \union {"claimMutate"} => pc'[i] = "denied" /\ ~Owns(i)
    BY <1>0, <1>4 DEF ClaimRead, Go, TypeOK, ClaimVerdict, Reported
  <2> QED
    BY <2>1, <2>2 DEF HeldBy, EndedOf, Owns
<1> QED
  BY <1>1, <1>2, <1>3, <1>4 DEF ClaimStep

LEMMA CommitterStepHeld ==
  ASSUME IInv, IInv', HeldInv, NEW i \in Committer, CommitterStep(i)
  PROVE  HeldBy(i)
<1>0. TypeOK /\ row \in Row /\ i \in Invocation /\ EndedOf(i) /\ CommittingOf(i)'
      /\ Exclusive(row') /\ TypeOK'
  BY DEF IInv, TypeOK, HeldInv, Invocation, Own
<1>1. CASE Load(i) \/ StartEffect(i) \/ Deliver(i)
  <2>1. UNCHANGED <<row, lost>> /\ Beside(i)
    BY <1>0, <1>1, RowAlone DEF Load, StartEffect, Deliver, Look, Go, ghosts, TypeOK, Beside
  <2>2. pc'[i] \notin Reported \union {"claimMutate"}
    BY <1>0, <1>1 DEF Load, StartEffect, Deliver, Look, Go, TypeOK, Reported
  <2> QED
    BY <2>1, <2>2 DEF HeldBy, EndedOf
<1>2. CASE RecordLoad(i) \/ RecordMutate(i) \/ RecordReread(i)
  <2>1. pc[i] = "commit" /\ UNCHANGED <<pc, ctx>>
        /\ (UNCHANGED <<row, lost>> \/ Store(i, Complete(row, i)))
    BY <1>2 DEF RecordLoad, RecordMutate, RecordReread, RecordStep
  <2>2. RowBy(i) /\ row'.pinClaim \in {row.pinClaim, None}
    BY <1>0, <2>1, RowAlone, CompleteBy
  <2> QED
    BY <2>1, <2>2 DEF HeldBy, Beside, EndedOf, Reported
<1>3. CASE FinishCheck(i) \/ FinishDeliver(i)
  <2>1. pc[i] = "commit" /\ UNCHANGED <<pc, ctx, row, lost>>
    BY <1>3 DEF FinishCheck, FinishDeliver, FinishStep, ghosts
  <2> QED
    BY <2>1, RowAlone DEF HeldBy, Beside, EndedOf, Reported
<1>4. CASE Conclude(i)
  <2>1. UNCHANGED <<row, lost>> /\ Beside(i)
    BY <1>0, <1>4, RowAlone DEF Conclude, ghosts, Beside, Go, TypeOK
  <2>2. pc'[i] \in Reported \union {"claimMutate"} => pc'[i] = "pinned"
    BY <1>0, <1>4 DEF Conclude, Go, TypeOK, Reported
  <2>3. pc'[i] = "pinned" => Reference(i)' # None
    BY <1>0 DEF CommittingOf
  <2>4. pc'[i] = "pinned" => ~Owns(i)'
    <3>1. i \in Sender => (Owns(i)' => row'.sendClaim = i)
      BY <1>0, ConstantsAssumption DEF Owns, Claims, TypeOK, Row, Invocation, Committer
    <3>2. i \notin Sender => row'.pinned # None \/ ~(pc'[i] = "pinned")
      BY <2>3 DEF Reference
    <3>3. i \in Sender => row'.sent # None \/ ~(pc'[i] = "pinned")
      BY <2>3 DEF Reference
    <3>4. row'.pinned # None => Claims(row') = {}
      BY <1>0 DEF Exclusive, Claims
    <3>5. row'.sent # None => row'.sendClaim = None
      BY <1>0 DEF Exclusive
    <3>6. i # None
      BY <1>0, ConstantsAssumption
    <3> QED
      BY <3>1, <3>2, <3>3, <3>4, <3>5, <3>6 DEF Owns
  <2> QED
    BY <2>1, <2>2, <2>4 DEF HeldBy, EndedOf
<1> QED
  BY <1>1, <1>2, <1>3, <1>4 DEF CommitterStep

LEMMA PinnerStepHeld ==
  ASSUME IInv, IInv', HeldInv, NEW p \in Pinner, PinnerStep(p)
  PROVE  HeldBy(p)
<1>0. TypeOK /\ TypeOK' /\ row \in Row /\ p \in Invocation /\ EndedOf(p) /\ Exclusive(row)
  BY DEF IInv, TypeOK, HeldInv, Invocation, Committer
<1>1. CASE StartCleanup(p) \/ CleanupEdit(p)
  <2>1. UNCHANGED <<row, lost>> /\ Beside(p)
    BY <1>0, <1>1, RowAlone DEF StartCleanup, CleanupEdit, Look, Go, ghosts, TypeOK, Beside
  <2>2. pc'[p] \notin Reported \union {"claimMutate"}
    BY <1>0, <1>1 DEF StartCleanup, CleanupEdit, Look, Go, TypeOK, Reported
  <2> QED
    BY <2>1, <2>2 DEF HeldBy, EndedOf
<1>2. CASE PinnerRelease(p)
  <2>1. /\ UNCHANGED <<row, lost>> \/ Store(p, ReleasePin(row, p))
        /\ \A j \in Invocation \ {p} : pc'[j] = pc[j] /\ ctx'[j] = ctx[j]
    BY <1>0, <1>2 DEF PinnerRelease, Go, TypeOK
  <2>2. RowBy(p) /\ row'.pinClaim \in {row.pinClaim, None}
    BY <1>0, <2>1, RowAlone, ReleaseBy
  <2>3. pc'[p] \in Reported \union {"claimMutate"} =>
          pc'[p] = "rejected" /\ row' = ReleasePin(row, p) /\ row.pinned = None
    BY <1>0, <1>2 DEF PinnerRelease, Go, TypeOK, Reported, Store
  <2>4. row.pinned = None /\ row' = ReleasePin(row, p) => row'.pinClaim # p
    BY <1>0, ConstantsAssumption DEF ReleasePin, Row
  <2>5. row'.pinClaim # p => ~Owns(p)'
    BY <1>0, ConstantsAssumption DEF Owns, Claims, TypeOK, Row, Invocation, Committer
  <2> QED
    BY <2>1, <2>2, <2>3, <2>4, <2>5 DEF HeldBy, Beside, EndedOf
<1> QED
  BY <1>1, <1>2 DEF PinnerStep

LEMMA NavigatorStepHeld ==
  ASSUME IInv, IInv', HeldInv, NEW n \in Navigator, NavigatorStep(n)
  PROVE  HeldBy(n)
<1>0. TypeOK /\ TypeOK' /\ row \in Row /\ n \in Invocation /\ EndedOf(n) /\ Exclusive(row)
  BY DEF IInv, TypeOK, HeldInv, Invocation, Committer
<1>1. CASE NavigationLoad(n) \/ CommitDoubt(n) \/ CommitRead(n)
  <2>1. UNCHANGED <<row, lost>> /\ Beside(n)
    BY <1>0, <1>1, RowAlone
       DEF NavigationLoad, CommitDoubt, CommitRead, Look, Go, ghosts, TypeOK, Beside
  <2>2. pc'[n] \notin Reported \union {"claimMutate"}
    BY <1>0, <1>1 DEF NavigationLoad, CommitDoubt, CommitRead, Look, Go, TypeOK, Reported
  <2> QED
    BY <2>1, <2>2 DEF HeldBy, EndedOf
<1>2. CASE StartProjection(n) \/ Edit(n)
  <2>1. UNCHANGED <<row, lost>> /\ Beside(n)
    BY <1>0, <1>2, RowAlone DEF StartProjection, Edit, Look, Go, ghosts, TypeOK, Beside
  <2>2. pc'[n] \notin Reported \union {"claimMutate"}
    BY <1>0, <1>2 DEF StartProjection, Edit, Look, Go, TypeOK, Reported
  <2> QED
    BY <2>1, <2>2 DEF HeldBy, EndedOf
<1>3. CASE NavigationCommit(n)
  <2>1. ctx[n].rank \in Rank /\ ctx[n].target \in Rank
    BY <1>0 DEF TypeOK, Context
  <2>2. /\ \A j \in Invocation \ {n} : pc'[j] = pc[j] /\ ctx'[j] = ctx[j]
        /\ pc'[n] \in {"commitRead", "commitDoubt", "failed"}
        /\ UNCHANGED <<row, lost>> \/ RankMove(n)
    BY <1>0, <1>3 DEF NavigationCommit, Mutate, Go, TypeOK, RankMove, ghosts
  <2>3. RowBy(n) /\ row'.pinClaim = row.pinClaim
    BY <1>0, <2>1, <2>2, RowAlone, ChangeRankBy DEF RankMove
  <2> QED
    BY <2>2, <2>3 DEF HeldBy, Beside, EndedOf, Reported
<1>4. CASE NavigationRelease(n)
  <2>1. /\ \A j \in Invocation \ {n} : pc'[j] = pc[j] /\ ctx'[j] = ctx[j]
        /\ UNCHANGED <<row, lost>> \/ Store(n, ReleaseUpdate(row, n))
    BY <1>0, <1>4 DEF NavigationRelease, Go, TypeOK
  <2>2. RowBy(n) /\ row'.pinClaim \in {row.pinClaim, None}
    BY <1>0, <2>1, RowAlone, ReleaseBy
  <2>3. pc'[n] \in Reported \union {"claimMutate"} =>
          row' = ReleaseUpdate(row, n) /\ pc'[n] \in {"updated", "denied"}
    BY <1>0, <1>4 DEF NavigationRelease, Go, TypeOK, Reported, Store
  <2>4. row' = ReleaseUpdate(row, n) => row'.updateClaim # n
    BY <1>0, ConstantsAssumption DEF ReleaseUpdate, Row
  <2>5. row'.updateClaim # n => ~Owns(n)'
    BY <1>0, ConstantsAssumption DEF Owns, Claims, TypeOK, Row, Invocation, Committer
  <2> QED
    BY <2>1, <2>2, <2>3, <2>4, <2>5 DEF HeldBy, Beside, EndedOf
<1> QED
  BY <1>1, <1>2, <1>3, <1>4 DEF NavigatorStep

LEMMA SenderReleaseHeld ==
  ASSUME IInv, HeldInv, NEW s \in Sender, SenderRelease(s)
  PROVE  HeldBy(s) /\ row'.rank = row.rank
<1>0. TypeOK /\ row \in Row /\ s \in Invocation
  BY DEF IInv, TypeOK, Invocation, Committer
<1>1. /\ UNCHANGED <<row, lost>> \/ Store(s, ReleaseSend(row, s))
      /\ pc'[s] = "failed"
      /\ \A j \in Invocation \ {s} : pc'[j] = pc[j] /\ ctx'[j] = ctx[j]
  BY <1>0 DEF SenderRelease, Go, TypeOK
<1>2. RowBy(s) /\ row'.rank = row.rank /\ row'.pinClaim \in {row.pinClaim, None}
  BY <1>0, <1>1, RowAlone, ReleaseBy
<1> QED
  BY <1>1, <1>2 DEF HeldBy, Beside, EndedOf, Reported

LEMMA CrashHeld ==
  ASSUME IInv, HeldInv, NEW i \in Invocation, Crash(i)
  PROVE  HeldBy(i) /\ UNCHANGED <<row, ctx, lost, shown>> /\ pc'[i] \in {pc[i], Restarted(pc[i])}
<1>0. TypeOK /\ EndedOf(i)
  BY DEF IInv, HeldInv
<1>1. /\ UNCHANGED <<row, ctx, lost, shown>>
      /\ \A j \in Invocation \ {i} : pc'[j] = pc[j]
      /\ pc'[i] = pc[i] \/ (pc'[i] = Restarted(pc[i]) /\ Restarted(pc[i]) # pc[i])
  BY <1>0 DEF Crash, Go, TypeOK, effects, ghosts
<1>2. Restarted(pc[i]) # pc[i] => Restarted(pc[i]) \notin Reported \union {"claimMutate"}
  BY DEF Restarted, Reported
<1> QED
  BY <1>0, <1>1, <1>2, RowAlone DEF HeldBy, Beside, EndedOf, Owns

(* What happens beside the invocations.                                     *)
LEMMA AroundBeside ==
  ASSUME IInv, MarkTentative \/ AgeClaim \/ UNCHANGED vars
  PROVE  /\ Beside(None) /\ UNCHANGED <<pc, ctx, lost, shown>>
         /\ row'.rank = row.rank /\ row'.pinClaim = row.pinClaim
<1>0. row \in Row
  BY DEF IInv, TypeOK
<1>1. UNCHANGED <<pc, ctx, lost, shown>>
  BY DEF MarkTentative, AgeClaim, vars, ghosts, effects
<1>2. /\ row'.sendClaim = row.sendClaim /\ row'.updateClaim = row.updateClaim
      /\ row'.pinClaim = row.pinClaim /\ row'.pinned = row.pinned /\ row'.rank = row.rank
      /\ row.tentative => row'.tentative
  BY <1>0 DEF MarkTentative, MarkRowTentative, AgeClaim, vars, Row
<1> QED
  BY <1>1, <1>2 DEF Beside, RowBy, Claims

LEMMA HeldNext == IInv /\ IInv' /\ HeldInv /\ [Next]_vars => HeldInv'
<1> SUFFICES ASSUME IInv, IInv', HeldInv, [Next]_vars
             PROVE  HeldInv'
  OBVIOUS
<1>0. TypeOK' /\ None \notin Invocation
  BY ConstantsAssumption DEF IInv
<1>1. ASSUME NEW i \in Invocation, HeldBy(i)
      PROVE  HeldInv'
  BY <1>0, <1>1, HeldStep
<1>2. ASSUME NEW i \in Invocation, ClaimStep(i) \/ Crash(i)
      PROVE  HeldInv'
  BY <1>0, <1>1, <1>2, ClaimStepHeld, CrashHeld
<1>3. ASSUME NEW i \in Committer, CommitterStep(i)
      PROVE  HeldInv'
  BY <1>1, <1>3, CommitterStepHeld DEF Invocation
<1>4. ASSUME NEW s \in Sender, SenderRelease(s)
      PROVE  HeldInv'
  BY <1>1, <1>4, SenderReleaseHeld DEF Invocation, Committer
<1>5. ASSUME NEW p \in Pinner, PinnerStep(p)
      PROVE  HeldInv'
  BY <1>1, <1>5, PinnerStepHeld DEF Invocation, Committer
<1>6. ASSUME NEW n \in Navigator, NavigatorStep(n)
      PROVE  HeldInv'
  BY <1>1, <1>6, NavigatorStepHeld DEF Invocation
<1>7. CASE MarkTentative \/ AgeClaim \/ UNCHANGED vars
  <2>1. Beside(None) /\ row'.pinClaim = row.pinClaim
    BY <1>7, AroundBeside
  <2>2. \A j \in Invocation : EndedOf(j)'
    BY <1>0, <2>1, OthersHeld
  <2> QED
    BY <2>1, <2>2 DEF HeldInv, Beside, RowBy
<1> QED
  BY <1>2, <1>3, <1>4, <1>5, <1>6, <1>7 DEF Next

-----------------------------------------------------------------------------
(* The page shown, step by step.                                            *)
LEMMA ClaimStepShown ==
  ASSUME IInv, IInv', ShownInv, Clear, Clear', NEW i \in Invocation, ClaimStep(i), Beside(i)
  PROVE  ShownBy(i)
<1>0. /\ TypeOK /\ TypeOK' /\ row \in Row /\ DisplayAgrees /\ RowBy(i)
      /\ Navigator \intersect Committer = {} /\ None \notin Navigator
      /\ Pinner \subseteq Committer /\ Pinner \intersect Sender = {}
  BY ConstantsAssumption DEF IInv, TypeOK, ShownInv, Beside, Invocation, Committer
<1>1. shown' = shown /\ row'.rank = row.rank
  <2>1. UNCHANGED <<row, shown>> \/ (Store(i, Claim(row, i)) /\ UNCHANGED shown)
    BY DEF ClaimStep, StartClaim, ClaimMutate, ClaimDoubt, ClaimRead, Look, Mutate, effects
  <2> QED
    BY <1>0, <2>1, ClaimBy
<1>2. pc[i] \in Claiming
  BY DEF ClaimStep, StartClaim, ClaimMutate, ClaimDoubt, ClaimRead, Claiming
<1>3. /\ pc'[i] \in Claiming \union {"load", "commit", "denied", "failed"}
      /\ pc'[i] = "commit" => i \in Sender
      /\ pc'[i] = "load" /\ i \in Navigator => Owns(i) /\ row' = row
  <2>1. CASE StartClaim(i)
    BY <1>0, <2>1 DEF StartClaim, Go, TypeOK, ClaimVerdict, Claiming
  <2>2. CASE ClaimMutate(i)
    BY <1>0, <2>2 DEF ClaimMutate, Mutate, Go, TypeOK, Claiming
  <2>3. CASE ClaimDoubt(i)
    BY <1>0, <2>3 DEF ClaimDoubt, Look, Go, TypeOK, Claiming
  <2>4. CASE ClaimRead(i)
    BY <1>0, <2>4 DEF ClaimRead, Go, TypeOK, ClaimVerdict, Claiming
  <2> QED
    BY <2>1, <2>2, <2>3, <2>4 DEF ClaimStep
<1>4. ASSUME i \in Navigator
      PROVE  /\ row.updateClaim = i => shown = row.rank
             /\ row'.updateClaim = i => shown = row.rank
             /\ NavigatorOf(i)'
  <2>1. NavigatorOf(i)
    BY <1>4 DEF ShownInv
  <2>2. row.updateClaim = i => shown = row.rank
    BY <1>2, <2>1 DEF NavigatorOf
  <2>3. row'.updateClaim = i => shown = row.rank
    <3>1. row.updateClaim \in Navigator \union {None}
      BY <1>0 DEF Row
    <3>2. row.updateClaim \in Navigator \ {i} => row'.updateClaim = row.updateClaim
      BY <1>0, OthersClaims
    <3>3. row.updateClaim = None => shown = row.rank
      BY <1>0 DEF DisplayAgrees, Clear
    <3> QED
      BY <2>2, <3>1, <3>2, <3>3
  <2>4. pc'[i] \in Turning => pc'[i] = "load" /\ row'.updateClaim = i
    <3>1. pc'[i] \in Turning => pc'[i] = "load"
      BY <1>0, <1>3, <1>4 DEF Turning, Claiming, Committer
    <3>2. Owns(i) => row.updateClaim = i
      BY <1>0, <1>4, OwnsIts
    <3> QED
      BY <1>3, <1>4, <3>1, <3>2
  <2>5. pc'[i] \notin {"project", "edit", "release"}
    BY <2>4 DEF Turning
  <2> QED
    BY <1>1, <2>2, <2>3, <2>4, <2>5 DEF NavigatorOf
<1>5. i \in Pinner => PinnerOf(i)'
  BY <1>0, <1>3 DEF PinnerOf, Pinning, Claiming
<1> QED
  BY <1>1, <1>4, <1>5 DEF ShownBy

(* A committer shows the page the row is on, for nobody else may turn it.    *)
LEMMA CommitterStepShown ==
  ASSUME IInv, IInv', ShownInv, Clear, Clear', NEW i \in Committer, CommitterStep(i), Beside(i)
  PROVE  ShownBy(i)
<1>0. /\ TypeOK /\ TypeOK' /\ row \in Row /\ RowBy(i) /\ i \in Invocation
      /\ i \notin Navigator /\ i \in Sender \union Pinner /\ Pinner \intersect Sender = {}
  BY ConstantsAssumption DEF IInv, TypeOK, Beside, Invocation, Committer
<1>1. row'.rank = row.rank
  <2>1. UNCHANGED row \/ Store(i, Complete(row, i))
    BY DEF CommitterStep, Load, StartEffect, Deliver, RecordLoad, RecordMutate, RecordReread,
           FinishCheck, FinishDeliver, FinishStep, Conclude, Look
  <2> QED
    BY <1>0, <2>1, CompleteBy
<1>2. i \in Pinner => PinnerOf(i)
  BY DEF ShownInv
<1>3. CASE Load(i) \/ StartEffect(i)
  <2>1. UNCHANGED <<row, shown, ctx>>
    BY <1>3 DEF Load, StartEffect, Look, effects
  <2>2. i \in Pinner /\ pc'[i] \in Pinning => Canonical(i) /\ (Owns(i) \/ row.pinned # None)
    BY <1>0, <1>3 DEF Load, StartEffect, Look, Go, TypeOK, Pinning
  <2>3. i \in Pinner => PinnerOf(i)'
    BY <1>0, <2>1, <2>2, OwnsIts DEF PinnerOf, Canonical
  <2> QED
    BY <1>0, <2>1, <2>3 DEF ShownBy
<1>4. CASE Deliver(i)
  <2>1. UNCHANGED <<row, shown>> /\ ctx'[i].rank = ctx[i].rank /\ pc[i] = "deliver"
    BY <1>0, <1>4 DEF Deliver, effects, Post, TypeOK, Context
  <2>2. i \in Pinner => PinnerOf(i)'
    BY <1>2, <2>1 DEF PinnerOf, Pinning
  <2> QED
    BY <1>0, <2>1, <2>2 DEF ShownBy
<1>5. CASE RecordLoad(i) \/ RecordMutate(i) \/ RecordReread(i)
  <2>1. UNCHANGED <<pc, ctx, shown>> /\ pc[i] = "commit"
    BY <1>5 DEF RecordLoad, RecordMutate, RecordReread, RecordStep, effects
  <2>2. i \in Pinner => row'.pinClaim = i \/ row'.pinned # None
    <3> SUFFICES ASSUME i \in Pinner
                 PROVE  row'.pinClaim = i \/ row'.pinned # None
      OBVIOUS
    <3>1. row.pinClaim = i \/ row.pinned # None
      BY <1>2, <2>1 DEF PinnerOf, Pinning
    <3>2. row.pinned # None => row'.pinned # None
      BY <1>0 DEF RowBy
    <3>3. CASE row.pinClaim = i /\ row.pinned = None
      <4>1. row' = row \/ row' = [row EXCEPT !.pinClaim = None, !.pinned = i,
                                             !.fresh = @ \ {i}]
        BY <1>0, <1>5, <3>3
           DEF RecordLoad, RecordMutate, RecordReread, Store, Complete, CompletePin
      <4>2. i # None
        BY <1>0, ConstantsAssumption
      <4> QED
        BY <1>0, <3>3, <4>1, <4>2 DEF Row
    <3> QED
      BY <3>1, <3>2, <3>3
  <2>3. i \in Pinner => PinnerOf(i)'
    BY <1>1, <1>2, <2>1, <2>2 DEF PinnerOf, Pinning
  <2> QED
    BY <1>0, <1>1, <2>1, <2>3 DEF ShownBy
<1>6. CASE FinishCheck(i) \/ FinishDeliver(i)
  <2>1. UNCHANGED <<row, pc, ctx>> /\ pc[i] = "commit"
    BY <1>6 DEF FinishCheck, FinishDeliver, FinishStep
  <2>2. i \in Pinner => PinnerOf(i)'
    BY <1>2, <2>1 DEF PinnerOf
  <2>3. shown' = shown \/ (i \in Pinner /\ shown' = ctx[i].rank)
    BY <1>0, <1>6 DEF FinishCheck, FinishDeliver, FinishEffect
  <2>4. i \in Pinner => row.rank = ctx[i].rank
    BY <1>2, <2>1 DEF PinnerOf, Pinning
  <2> QED
    BY <1>0, <2>1, <2>2, <2>3, <2>4 DEF ShownBy
<1>7. CASE Conclude(i)
  <2>1. UNCHANGED <<row, shown>> /\ pc'[i] \in {"failed", "pinned", "partial"}
    BY <1>0, <1>7 DEF Conclude, Go, TypeOK, effects
  <2> QED
    BY <1>0, <2>1 DEF ShownBy, PinnerOf, Pinning
<1> QED
  BY <1>3, <1>4, <1>5, <1>6, <1>7 DEF CommitterStep

LEMMA PinnerStepShown ==
  ASSUME IInv, IInv', ShownInv, Clear, Clear', NEW p \in Pinner, PinnerStep(p), Beside(p)
  PROVE  ShownBy(p)
<1>0. /\ TypeOK /\ TypeOK' /\ row \in Row /\ p \in Invocation /\ p \notin Navigator
      /\ PinnerOf(p)
  BY ConstantsAssumption DEF IInv, TypeOK, ShownInv, Invocation, Committer
<1>1. CASE StartCleanup(p) \/ CleanupEdit(p)
  <2>1. UNCHANGED <<row, ctx>> /\ pc[p] \in Pinning /\ shown' \in {shown, ctx[p].rank}
    BY <1>1 DEF StartCleanup, CleanupEdit, Look, effects, Pinning
  <2> QED
    BY <1>0, <2>1 DEF ShownBy, PinnerOf
<1>2. CASE PinnerRelease(p)
  <2>1. UNCHANGED shown /\ (UNCHANGED <<row, lost>> \/ Store(p, ReleasePin(row, p)))
    BY <1>2 DEF PinnerRelease, effects
  <2>2. row'.rank = row.rank
    BY <1>0, <2>1, ReleaseBy
  <2>3. pc'[p] \notin Pinning
    BY <1>0, <1>2 DEF PinnerRelease, Go, TypeOK, Pinning
  <2> QED
    BY <1>0, <2>1, <2>2, <2>3 DEF ShownBy, PinnerOf
<1> QED
  BY <1>1, <1>2 DEF PinnerStep

(* A navigator writes the page it turned to, under its claim.               *)
LEMMA NavigatorStepShown ==
  ASSUME IInv, IInv', ShownInv, Clear, Clear', NEW n \in Navigator, NavigatorStep(n), Beside(n),
         ~NavigationCommit(n)
  PROVE  ShownBy(n)
<1>0. /\ TypeOK /\ TypeOK' /\ row \in Row /\ n \in Invocation /\ n \notin Pinner
      /\ NavigatorOf(n) /\ DisplayAgrees
  BY ConstantsAssumption DEF IInv, TypeOK, ShownInv, Invocation, Committer
<1>1. CASE NavigationLoad(n)
  <2>1. UNCHANGED <<row, shown>> /\ pc[n] = "load"
    BY <1>1 DEF NavigationLoad, effects
  <2>2. row.updateClaim = n /\ shown = row.rank
    BY <1>0, <2>1 DEF NavigatorOf, Turning
  <2>3. pc'[n] \in {"commit", "releaseDenied", "failed"}
    BY <1>0, <1>1 DEF NavigationLoad, Go, TypeOK
  <2> QED
    BY <1>0, <2>1, <2>2, <2>3 DEF ShownBy, NavigatorOf, Turning, Claiming
<1>2. CASE CommitDoubt(n) \/ CommitRead(n)
  <2>1. UNCHANGED <<row, shown, ctx>> /\ pc[n] \in {"commitDoubt", "commitRead"}
    BY <1>2 DEF CommitDoubt, CommitRead, Look, effects
  <2>2. row.updateClaim = n
    BY <1>0, <2>1 DEF NavigatorOf, Turning
  <2>3. /\ pc'[n] \in {"commitRead", "project", "releaseDenied", "failed"}
        /\ pc'[n] = "project" => row.rank = ctx[n].target
        /\ pc'[n] = "releaseDenied" => row.rank # ctx[n].target
    BY <1>0, <1>2 DEF CommitDoubt, CommitRead, Look, Go, TypeOK
  <2>4. pc'[n] = "releaseDenied" => shown = row.rank
    BY <1>0, <2>2, <2>3 DEF DisplayAgrees, Clear
  <2> QED
    BY <1>0, <2>1, <2>2, <2>3, <2>4 DEF ShownBy, NavigatorOf, Turning, Claiming
<1>3. CASE StartProjection(n) \/ Edit(n)
  <2>1. UNCHANGED <<row, ctx>> /\ pc[n] \in {"project", "edit"}
    BY <1>3 DEF StartProjection, Edit, Look
  <2>2. row.updateClaim = n /\ row.rank = ctx[n].target
    BY <1>0, <2>1 DEF NavigatorOf, Turning
  <2>3. shown' \in {shown, row.rank} /\ (pc'[n] = "release" => shown' = row.rank)
    BY <1>0, <1>3, <2>2 DEF StartProjection, Edit, Look, Go, TypeOK, effects
  <2>4. pc'[n] \in {"project", "edit", "release", "failed"}
    BY <1>0, <1>3 DEF StartProjection, Edit, Look, Go, TypeOK
  <2> QED
    BY <1>0, <2>1, <2>2, <2>3, <2>4 DEF ShownBy, NavigatorOf, Claiming
<1>4. CASE NavigationRelease(n)
  <2>1. /\ UNCHANGED shown /\ pc[n] \in {"release", "releaseDenied"}
        /\ UNCHANGED <<row, lost>> \/ Store(n, ReleaseUpdate(row, n))
    BY <1>4 DEF NavigationRelease, effects
  <2>2. shown = row.rank
    BY <1>0, <2>1 DEF NavigatorOf, Turning
  <2>3. row'.rank = row.rank
    BY <1>0, <2>1, ReleaseBy
  <2>4. pc'[n] \in {"updated", "denied", "failed"}
    BY <1>0, <1>4 DEF NavigationRelease, Go, TypeOK
  <2> QED
    BY <1>0, <2>1, <2>2, <2>3, <2>4 DEF ShownBy, NavigatorOf, Turning, Claiming
<1> QED
  BY <1>1, <1>2, <1>3, <1>4 DEF NavigatorStep

(* The page turns under the claim of the navigator that turns it, which is
   the only one then that may write or turn any.                            *)
LEMMA PageTurned ==
  ASSUME IInv, IInv', ShownInv, NEW n \in Navigator, NavigationCommit(n), Beside(n)
  PROVE  ShownInv'
<1>0. /\ TypeOK /\ TypeOK' /\ row \in Row /\ n \in Invocation /\ n \notin Pinner
      /\ Exclusive(row) /\ n # None /\ lost \subseteq lost'
  BY ConstantsAssumption DEF IInv, TypeOK, Invocation, Committer, Beside, RowBy
<1>1. /\ pc[n] = "commit" /\ pc'[n] \in {"commitRead", "commitDoubt", "failed"}
      /\ UNCHANGED <<ctx, shown>>
      /\ row' = row \/ RankMove(n)
  BY <1>0 DEF NavigationCommit, Mutate, Go, TypeOK, RankMove, effects
<1>2. ctx[n].rank \in Rank /\ ctx[n].target \in Rank
  BY <1>0 DEF TypeOK, Context
<1>3. /\ row'.pinClaim = row.pinClaim /\ row'.updateClaim = row.updateClaim
      /\ row'.rank # row.rank => row'.rank = ctx[n].target /\ row.pinned = None
  BY <1>0, <1>1, <1>2, ChangeRankBy DEF RankMove
<1> SUFFICES ASSUME Clear'
             PROVE  /\ DisplayAgrees'
                    /\ \A m \in Navigator : NavigatorOf(m)'
                    /\ \A p \in Pinner : PinnerOf(p)'
  BY DEF ShownInv
<1>4. Clear /\ row.updateClaim = n
  <2>1. Clear
    BY <1>0 DEF Clear
  <2> QED
    BY <1>1, <2>1 DEF ShownInv, NavigatorOf, Turning
<1>5. NavigatorOf(n)'
  BY <1>1, <1>3, <1>4 DEF NavigatorOf, Claiming
<1>6. CASE row'.rank = row.rank
  <2>1. ShownBy(n)
    BY <1>0, <1>1, <1>3, <1>4, <1>5, <1>6 DEF ShownBy
  <2>2. ShownInv'
    BY <1>0, <1>4, <2>1, ShownStep
  <2> QED
    BY <2>2 DEF ShownInv
<1>7. CASE row'.rank # row.rank
  <2>1. DisplayAgrees'
    BY <1>1, <1>3, <1>4, <1>7 DEF DisplayAgrees
  <2>2. ASSUME NEW m \in Navigator \ {n}
        PROVE  NavigatorOf(m)'
    <3>1. row'.updateClaim # m /\ pc'[m] = pc[m]
      BY <1>3, <1>4, <2>2 DEF Beside, Invocation
    <3>2. pc[m] \notin Turning
      BY <1>4, <2>2 DEF ShownInv, NavigatorOf
    <3> QED
      BY <3>1, <3>2 DEF NavigatorOf, Turning
  <2>3. ASSUME NEW p \in Pinner
        PROVE  PinnerOf(p)'
    <3>1. pc'[p] = pc[p]
      BY <1>0 DEF Beside, Invocation, Committer
    <3>2. row.pinClaim = None /\ row.pinned = None /\ p # None
      BY <1>0, <1>3, <1>4, <1>7, ConstantsAssumption DEF Exclusive, Invocation, Committer
    <3>3. pc[p] \notin Pinning
      BY <1>4, <3>2 DEF ShownInv, PinnerOf
    <3> QED
      BY <3>1, <3>3 DEF PinnerOf
  <2> QED
    BY <1>5, <2>1, <2>2, <2>3
<1> QED
  BY <1>6, <1>7

LEMMA SenderReleaseShown ==
  ASSUME IInv, NEW s \in Sender, SenderRelease(s), row'.rank = row.rank
  PROVE  ShownBy(s)
  BY ConstantsAssumption DEF SenderRelease, effects, ShownBy, Committer

(* An action that is run again runs under the same claim.                   *)
LEMMA CrashShown ==
  ASSUME IInv, ShownInv, Clear, NEW i \in Invocation, Crash(i),
         UNCHANGED <<row, ctx, lost, shown>>, pc'[i] \in {pc[i], Restarted(pc[i])}
  PROVE  ShownBy(i)
<1>1. i \in Navigator => NavigatorOf(i)'
  <2> SUFFICES ASSUME i \in Navigator
               PROVE  NavigatorOf(i)'
    OBVIOUS
  <2>1. NavigatorOf(i)
    BY DEF ShownInv
  <2>2. CASE pc'[i] = pc[i]
    BY <2>1, <2>2 DEF NavigatorOf
  <2>3. CASE pc'[i] = Restarted(pc[i]) /\ pc'[i] # pc[i]
    BY <2>1, <2>3 DEF NavigatorOf, Restarted, Turning, Claiming
  <2> QED
    BY <2>2, <2>3
<1>2. i \in Pinner => PinnerOf(i)'
  <2> SUFFICES ASSUME i \in Pinner
               PROVE  PinnerOf(i)'
    OBVIOUS
  <2>1. PinnerOf(i) /\ CommittingOf(i)
    BY DEF ShownInv, IInv, Own, Committer
  <2>2. pc'[i] \in Pinning => pc[i] \in Pinning
    BY <2>1 DEF Restarted, Pinning, CommittingOf
  <2> QED
    BY <2>1, <2>2 DEF PinnerOf
<1> QED
  BY <1>1, <1>2 DEF ShownBy

LEMMA ShownNext == IInv /\ IInv' /\ HeldInv /\ ShownInv /\ [Next]_vars => ShownInv'
<1> SUFFICES ASSUME IInv, IInv', HeldInv, ShownInv, [Next]_vars
             PROVE  ShownInv'
  OBVIOUS
<1>0. TypeOK' /\ None \notin Navigator /\ None \notin Pinner
  BY ConstantsAssumption DEF IInv, Invocation, Committer
<1>a. ASSUME NEW i \in Invocation \union {None}, Beside(i), Clear'
      PROVE  Clear
  BY <1>a DEF Beside, RowBy, Clear
<1>b. ASSUME NEW i \in Invocation, Beside(i), Clear /\ Clear' => ShownBy(i)
      PROVE  ShownInv'
  BY <1>0, <1>a, <1>b, ShownStep
<1>1. ASSUME NEW i \in Invocation, ClaimStep(i)
      PROVE  ShownInv'
  BY <1>0, <1>1, <1>b, ClaimStepHeld, ClaimStepShown DEF HeldBy
<1>2. ASSUME NEW i \in Invocation, Crash(i)
      PROVE  ShownInv'
  BY <1>2, <1>b, CrashHeld, CrashShown DEF HeldBy
<1>3. ASSUME NEW i \in Committer, CommitterStep(i)
      PROVE  ShownInv'
  BY <1>3, <1>b, CommitterStepHeld, CommitterStepShown DEF HeldBy, Invocation
<1>4. ASSUME NEW s \in Sender, SenderRelease(s)
      PROVE  ShownInv'
  BY <1>4, <1>b, SenderReleaseHeld, SenderReleaseShown DEF HeldBy, Invocation, Committer
<1>5. ASSUME NEW p \in Pinner, PinnerStep(p)
      PROVE  ShownInv'
  BY <1>5, <1>b, PinnerStepHeld, PinnerStepShown DEF HeldBy, Invocation, Committer
<1>6. ASSUME NEW n \in Navigator, NavigatorStep(n)
      PROVE  ShownInv'
  <2>1. Beside(n) /\ n \in Invocation
    BY <1>6, NavigatorStepHeld DEF HeldBy, Invocation
  <2>2. CASE NavigationCommit(n)
    BY <2>1, <2>2, PageTurned
  <2>3. CASE ~NavigationCommit(n)
    BY <1>6, <1>b, <2>1, <2>3, NavigatorStepShown
  <2> QED
    BY <2>2, <2>3
<1>7. CASE MarkTentative \/ AgeClaim \/ UNCHANGED vars
  <2>1. Beside(None) /\ UNCHANGED <<lost, shown>> /\ row'.rank = row.rank
    BY <1>7, AroundBeside
  <2>2. Clear' => Clear
    BY <1>a, <2>1
  <2>3. ASSUME Clear'
        PROVE  /\ \A n \in Navigator \ {None} : NavigatorOf(n)'
               /\ \A p \in Pinner \ {None} : PinnerOf(p)'
               /\ DisplayAgrees'
    BY <1>0, <2>1, <2>2, <2>3, OthersShown
  <2> QED
    BY <1>0, <2>3 DEF ShownInv
<1> QED
  BY <1>1, <1>2, <1>3, <1>4, <1>5, <1>6, <1>7 DEF Next

-----------------------------------------------------------------------------
LEMMA HeldInit == Init => HeldInv
  BY ConstantsAssumption DEF Init, HeldInv, EndedOf, Reported

LEMMA ShownInit == Init => ShownInv
  BY ConstantsAssumption
  DEF Init, ShownInv, DisplayAgrees, NavigatorOf, PinnerOf, Turning, Pinning,
      Invocation, Committer

LEMMA ShownAlways == Spec => [](HeldInv /\ ShownInv)
<1>1. IInv /\ IInv' /\ (HeldInv /\ ShownInv) /\ [Next]_vars => (HeldInv /\ ShownInv)'
  BY HeldNext, ShownNext
<1>2. Init => HeldInv /\ ShownInv
  BY HeldInit, ShownInit
<1> QED
  BY <1>1, <1>2, Inductive, PTL DEF Spec

(* An invocation that reports an outcome other than a failure or a partial one
   keeps nobody out, but for the send claim a sender takes on an order that is
   marked tentative meanwhile (the releases of the three workflows).        *)
THEOREM EndedHolds == Spec => []EndedHoldsNothing
<1>1. HeldInv => EndedHoldsNothing
  BY DEF HeldInv, EndedOf, EndedHoldsNothing, Reported
<1> QED
  BY <1>1, ShownAlways, PTL

(* The message shows the row's page, or will be made to by the navigator that
   holds the claim, unless a claim was taken over (canonicalProjectionConfirmed,
   blocksRankChange).                                                       *)
THEOREM ShowsThePage == Spec => []DisplayAgrees
<1>1. ShownInv => DisplayAgrees
  BY DEF ShownInv, Clear, DisplayAgrees
<1> QED
  BY <1>1, ShownAlways, PTL

=============================================================================
