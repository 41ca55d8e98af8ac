------------------------ MODULE CheckinProjectionProofs ------------------------
(***************************************************************************)
(* Proofs about CheckinProjection, for any members, invocations and bound. *)
(*                                                                         *)
(* A claim is never taken back, so what a commit says of the row stays     *)
(* true, and views only grow; a projection that edits was loaded after     *)
(* every other one that can still edit, so its view has all of theirs.     *)
(***************************************************************************)
EXTENDS CheckinProjection, TLAPS

Committed == {"respond", "effects", "succeeded"}
Claimed == {m \in Member : claim[m] # None}

ClaimsKept ==
  \A i \in Invocation :
    /\ i \in first => claim[MemberOf[i]] = i
    /\ pc[i] \in Committed => claim[MemberOf[i]] # None

Announcing ==
  \A i \in Invocation :
    /\ i \in first <=> outcome[i]["announce"] # "skipped"
    /\ <<i, "announce">> \in applied => i \in first
    /\ outcome[i]["announce"] = "delivered" => <<i, "announce">> \in applied

Ending ==
  \A i \in Invocation :
    /\ pc[i] \in Committed => outcome[i]["project"] # "skipped"
    /\ pc[i] = "succeeded" => \A e \in Effect : outcome[i][e] \notin {"open", "failed"}
    /\ i \in entity => pc[i] = "effects" /\ outcome[i]["project"] = "open"

Loaded ==
  /\ shown \subseteq Claimed
  /\ \A i \in Invocation :
       /\ view[i] \subseteq Claimed
       /\ stage[i] = "edit" \/ i \in detached => MemberOf[i] \in view[i]
       /\ i \in detached => stage[i] \in {"edit", "over"} /\ i \notin entity

Serial ==
  /\ \A i, j \in entity : i = j
  /\ \A j \in entity : stage[j] = "edit" =>
       /\ shown \intersect active \subseteq view[j]
       /\ \A k \in detached : view[k] \intersect active \subseteq view[j]

Projected ==
  \A i \in Invocation :
    outcome[i]["project"] = "delivered" /\ MemberOf[i] \in active =>
      MemberOf[i] \in shown \union dropped

IInv ==
  TypeOK /\ ClaimsKept /\ Announcing /\ Ending /\ Loaded /\ Serial /\ Projected

-----------------------------------------------------------------------------
(* A commit that is applied gives at most one more member a claim.          *)
LEMMA ClaimGrows ==
  ASSUME TypeOK, NEW i \in Invocation, claim' = CheckInIfUnset(i)
  PROVE  /\ claim' \in [Member -> Invocation \union {None}]
         /\ \A m \in Member : claim[m] # None => claim'[m] = claim[m]
  BY ConstantsAssumption DEF TypeOK, CheckInIfUnset

LEMMA InitInv == Init => IInv
  BY ConstantsAssumption
  DEF Init, IInv, TypeOK, ClaimsKept, Announcing, Ending, Loaded, Serial, Projected,
      Committed, Claimed, Effect, Outcome

(* The commit is authorized, or ends there. *)
LEMMA AuthorizeInv ==
  ASSUME IInv, NEW i \in Invocation, Authorize(i)
  PROVE  IInv'
<1> USE ConstantsAssumption DEF IInv
<1>1. TypeOK'
  BY DEF Authorize, Go, Fault, committing, projecting, TypeOK
<1>2. ClaimsKept'
  BY DEF Authorize, Go, Fault, committing, projecting, ClaimsKept, TypeOK, Committed
<1>3. Announcing'
  BY DEF Authorize, Go, Fault, committing, projecting, Announcing, TypeOK, Effect
<1>4. Ending'
  BY DEF Authorize, Go, Fault, committing, projecting, Ending, TypeOK, Committed, Effect
<1>5. Loaded'
  BY DEF Authorize, Go, Fault, committing, projecting, Loaded, TypeOK, Claimed
<1>6. Serial'
  BY DEF Authorize, Go, Fault, committing, projecting, Serial, TypeOK
<1>7. Projected'
  BY DEF Authorize, Go, Fault, committing, projecting, Projected, TypeOK, Effect
<1> QED
  BY <1>1, <1>2, <1>3, <1>4, <1>5, <1>6, <1>7 DEF IInv

(* A commit sets a claim or leaves it pending. *)
LEMMA MutateInv ==
  ASSUME IInv, NEW i \in Invocation, Mutate(i)
  PROVE  IInv'
<1> USE ConstantsAssumption DEF IInv
<1>0. /\ claim' \in [Member -> Invocation \union {None}]
      /\ \A m \in Member : claim[m] # None => claim'[m] = claim[m]
  BY ClaimGrows DEF Mutate, TypeOK
<1>1. TypeOK'
  BY <1>0 DEF Mutate, Go, Fault, projecting, TypeOK
<1>2. ClaimsKept'
  BY <1>0 DEF Mutate, Go, Fault, projecting, ClaimsKept, TypeOK, Committed
<1>3. Announcing'
  BY DEF Mutate, Go, Fault, projecting, Announcing, TypeOK, Effect
<1>4. Ending'
  BY DEF Mutate, Go, Fault, projecting, Ending, TypeOK, Committed, Effect
<1>5. Loaded'
  BY <1>0 DEF Mutate, Go, Fault, projecting, Loaded, TypeOK, Claimed
<1>6. Serial'
  BY DEF Mutate, Go, Fault, projecting, Serial, TypeOK
<1>7. Projected'
  BY DEF Mutate, Go, Fault, projecting, Projected, TypeOK, Effect
<1> QED
  BY <1>1, <1>2, <1>3, <1>4, <1>5, <1>6, <1>7 DEF IInv

(* A late commit sets a claim. *)
LEMMA ApplyLateInv ==
  ASSUME IInv, NEW i \in Invocation, ApplyLate(i)
  PROVE  IInv'
<1> USE ConstantsAssumption DEF IInv
<1>0. /\ claim' \in [Member -> Invocation \union {None}]
      /\ \A m \in Member : claim[m] # None => claim'[m] = claim[m]
  BY ClaimGrows DEF ApplyLate
<1>1. TypeOK'
  BY <1>0 DEF ApplyLate, projecting, TypeOK
<1>2. ClaimsKept'
  BY <1>0 DEF ApplyLate, projecting, ClaimsKept, TypeOK, Committed
<1>3. Announcing'
  BY DEF ApplyLate, projecting, Announcing, TypeOK, Effect
<1>4. Ending'
  BY DEF ApplyLate, projecting, Ending, TypeOK, Committed, Effect
<1>5. Loaded'
  BY <1>0 DEF ApplyLate, projecting, Loaded, TypeOK, Claimed
<1>6. Serial'
  BY DEF ApplyLate, projecting, Serial, TypeOK
<1>7. Projected'
  BY DEF ApplyLate, projecting, Projected, TypeOK, Effect
<1> QED
  BY <1>1, <1>2, <1>3, <1>4, <1>5, <1>6, <1>7 DEF IInv

(* A commit ends with what the row says. *)
LEMMA ConcludeInv ==
  ASSUME IInv, NEW i \in Invocation, Conclude(i)
  PROVE  IInv'
<1> USE ConstantsAssumption DEF IInv
<1>1. TypeOK'
  <2>1. pc' \in [Invocation -> {"authorize", "mutate", "read", "respond", "effects",
                               "succeeded", "failed"}]
    BY DEF Conclude, Go, TypeOK
  <2>2. outcome' \in [Invocation -> [Effect -> Outcome]]
    <3> DEFINE skipped == (IF HasRole THEN {} ELSE {"role"})
                            \union (IF claim[MemberOf[i]] = i THEN {} ELSE {"announce"})
               open == [e \in Effect |-> IF e \in skipped THEN "skipped" ELSE "open"]
    <3>1. outcome' = outcome \/ outcome' = [outcome EXCEPT ![i] = open]
      BY DEF Conclude
    <3>2. outcome \in [Invocation -> [Effect -> Outcome]]
      BY DEF TypeOK
    <3>3. open \in [Effect -> Outcome]
      BY DEF Outcome
    <3> HIDE DEF open
    <3> QED
      BY <3>1, <3>2, <3>3
  <2>3. first' \subseteq Invocation /\ faults' \in 0..MaxFaults
    BY DEF Conclude, Fault, TypeOK
  <2> QED
    BY <2>1, <2>2, <2>3 DEF Conclude, projecting, TypeOK
<1>2. ClaimsKept'
  BY DEF Conclude, Go, Fault, projecting, ClaimsKept, TypeOK, Committed
<1>3. Announcing'
  <2>1. CASE outcome' = outcome /\ first' = first
    BY <2>1 DEF Conclude, Announcing
  <2>2. CASE ~(outcome' = outcome /\ first' = first)
    <3>1. /\ first' = IF claim[MemberOf[i]] = i THEN first \union {i} ELSE first
          /\ applied' = applied
          /\ \A k \in Invocation \ {i} : outcome'[k] = outcome[k]
          /\ outcome'[i]["announce"] = IF claim[MemberOf[i]] = i THEN "open" ELSE "skipped"
      BY <2>2 DEF Conclude, TypeOK, Effect
    <3>2. i \in first => claim[MemberOf[i]] = i
      BY DEF ClaimsKept
    <3> QED
      BY <3>1, <3>2 DEF Announcing
  <2> QED
    BY <2>1, <2>2
<1>4. Ending'
  BY DEF Conclude, Go, Fault, projecting, Ending, TypeOK, Committed, Effect
<1>5. Loaded'
  BY DEF Conclude, Go, Fault, projecting, Loaded, TypeOK, Claimed
<1>6. Serial'
  BY DEF Conclude, Go, Fault, projecting, Serial, TypeOK
<1>7. Projected'
  BY DEF Conclude, Go, Fault, projecting, Projected, TypeOK, Effect
<1> QED
  BY <1>1, <1>2, <1>3, <1>4, <1>5, <1>6, <1>7 DEF IInv

(* A commit starts again. *)
LEMMA RestartInv ==
  ASSUME IInv, NEW i \in Invocation, RestartCommit(i)
  PROVE  IInv'
<1> USE ConstantsAssumption DEF IInv
<1>1. TypeOK'
  BY DEF RestartCommit, Go, Fault, committing, projecting, TypeOK
<1>2. ClaimsKept'
  BY DEF RestartCommit, Go, Fault, committing, projecting, ClaimsKept, TypeOK, Committed
<1>3. Announcing'
  BY DEF RestartCommit, Go, Fault, committing, projecting, Announcing, TypeOK, Effect
<1>4. Ending'
  BY DEF RestartCommit, Go, Fault, committing, projecting, Ending, TypeOK, Committed, Effect
<1>5. Loaded'
  BY DEF RestartCommit, Go, Fault, committing, projecting, Loaded, TypeOK, Claimed
<1>6. Serial'
  BY DEF RestartCommit, Go, Fault, committing, projecting, Serial, TypeOK
<1>7. Projected'
  BY DEF RestartCommit, Go, Fault, committing, projecting, Projected, TypeOK, Effect
<1> QED
  BY <1>1, <1>2, <1>3, <1>4, <1>5, <1>6, <1>7 DEF IInv

-----------------------------------------------------------------------------
(* Only the effect that ends changes.                                       *)
Changes(i, e) ==
  /\ outcome' \in [Invocation -> [Effect -> Outcome]]
  /\ \A k \in Invocation, f \in Effect :
       k # i \/ f # e => outcome'[k][f] = outcome[k][f]

LEMMA EndsAsChanges ==
  ASSUME TypeOK, NEW i \in Invocation, NEW e \in Effect, NEW result \in Outcome,
         outcome' = outcome \/ EndsAs(i, e, result)
  PROVE  Changes(i, e) /\ outcome'[i][e] \in {outcome[i][e], result}
<1>1. CASE outcome' = outcome
  BY <1>1 DEF TypeOK, Changes
<1>2. CASE EndsAs(i, e, result)
  BY <1>2 DEF TypeOK, EndsAs, Changes
<1> QED
  BY <1>1, <1>2

(* What is delivered has been applied under its own Delivery Key.           *)
LEMMA DeliverChanges ==
  ASSUME TypeOK, NEW i \in Invocation, NEW e \in Effect, Deliver(i, e)
  PROVE  /\ Changes(i, e)
         /\ outcome[i][e] = "open" /\ outcome'[i][e] \in {"open", "delivered", "failed"}
         /\ applied \subseteq applied' /\ applied' \subseteq applied \union {<<i, e>>}
         /\ outcome'[i][e] = "delivered" => <<i, e>> \in applied'
         /\ faults' \in 0..MaxFaults
<1>1. "delivered" \in Outcome /\ "failed" \in Outcome
  BY DEF Outcome
<1>2. CASE outcome' = outcome \/ EndsAs(i, e, "failed")
  <2>1. Changes(i, e) /\ outcome'[i][e] \in {outcome[i][e], "failed"}
    BY <1>1, <1>2, EndsAsChanges
  <2> QED
    BY <2>1, ConstantsAssumption DEF Deliver, Fault, TypeOK
<1>3. CASE EndsAs(i, e, "delivered") /\ applied' = applied \union {<<i, e>>}
  <2>1. Changes(i, e) /\ outcome'[i][e] \in {outcome[i][e], "delivered"}
    BY <1>1, <1>3, EndsAsChanges
  <2> QED
    BY <2>1, <1>3, ConstantsAssumption DEF Deliver, Fault, TypeOK
<1> QED
  BY <1>2, <1>3 DEF Deliver

(* The response ends or is tried again. *)
LEMMA RespondInv ==
  ASSUME IInv, NEW i \in Invocation, Respond(i)
  PROVE  IInv'
<1> USE ConstantsAssumption DEF IInv
<1>a. "respond" \in Effect /\ Deliver(i, "respond")
  BY DEF Respond, Effect
<1>b. Changes(i, "respond")
  BY <1>a, DeliverChanges
<1>c. outcome[i]["respond"] = "open" /\ outcome'[i]["respond"] \in {"open", "delivered", "failed"}
  BY <1>a, DeliverChanges
<1>d. applied \subseteq applied' /\ applied' \subseteq applied \union {<<i, "respond">>}
  BY <1>a, DeliverChanges
<1>e. outcome'[i]["respond"] = "delivered" => <<i, "respond">> \in applied'
  BY <1>a, DeliverChanges
<1>f. faults' \in 0..MaxFaults
  BY <1>a, DeliverChanges
<1>1. TypeOK'
  <2>1. pc' \in [Invocation -> {"authorize", "mutate", "read", "respond", "effects",
                               "succeeded", "failed"}]
    BY DEF Respond, Go, TypeOK
  <2> QED
    BY <1>a, <1>b, <1>d, <1>f, <2>1 DEF Respond, committing, projecting, TypeOK, Changes
<1>2. ClaimsKept'
  BY DEF Respond, Go, committing, projecting, ClaimsKept, TypeOK, Committed
<1>3. Announcing'
  <2>1. UNCHANGED first
    BY DEF Respond, committing
  <2>2. \A k \in Invocation : outcome'[k]["announce"] = outcome[k]["announce"]
    BY <1>b DEF Changes, Effect
  <2>3. \A k \in Invocation : <<k, "announce">> \in applied' <=> <<k, "announce">> \in applied
    BY <1>d
  <2> QED
    BY <2>1, <2>2, <2>3 DEF Announcing
<1>4. Ending'
  BY <1>b, <1>c DEF Respond, Go, committing, projecting, Ending, TypeOK, Committed, Effect, Changes
<1>5. Loaded'
  BY DEF Respond, Go, committing, projecting, Loaded, TypeOK, Claimed
<1>6. Serial'
  BY DEF Respond, Go, committing, projecting, Serial, TypeOK
<1>7. Projected'
  BY <1>b, <1>c DEF Respond, Go, committing, projecting, Projected, TypeOK, Effect, Changes
<1> QED
  BY <1>1, <1>2, <1>3, <1>4, <1>5, <1>6, <1>7 DEF IInv

(* The role is given, or not. *)
LEMMA SetRoleInv ==
  ASSUME IInv, NEW i \in Invocation, SetRole(i)
  PROVE  IInv'
<1> USE ConstantsAssumption DEF IInv
<1>a. "role" \in Effect /\ Deliver(i, "role")
  BY DEF SetRole, Effect
<1>b. Changes(i, "role")
  BY <1>a, DeliverChanges
<1>c. outcome[i]["role"] = "open" /\ outcome'[i]["role"] \in {"open", "delivered", "failed"}
  BY <1>a, DeliverChanges
<1>d. applied \subseteq applied' /\ applied' \subseteq applied \union {<<i, "role">>}
  BY <1>a, DeliverChanges
<1>e. outcome'[i]["role"] = "delivered" => <<i, "role">> \in applied'
  BY <1>a, DeliverChanges
<1>f. faults' \in 0..MaxFaults
  BY <1>a, DeliverChanges
<1>1. TypeOK'
  BY <1>a, <1>b, <1>d, <1>f DEF SetRole, committing, projecting, TypeOK, Changes
<1>2. ClaimsKept'
  BY DEF SetRole, committing, projecting, ClaimsKept, TypeOK, Committed
<1>3. Announcing'
  BY <1>b, <1>c, <1>d, <1>e DEF SetRole, committing, projecting, Announcing, TypeOK, Effect, Changes
<1>4. Ending'
  BY <1>b, <1>c DEF SetRole, committing, projecting, Ending, TypeOK, Committed, Effect, Changes
<1>5. Loaded'
  BY DEF SetRole, committing, projecting, Loaded, TypeOK, Claimed
<1>6. Serial'
  BY DEF SetRole, committing, projecting, Serial, TypeOK
<1>7. Projected'
  BY <1>b, <1>c DEF SetRole, committing, projecting, Projected, TypeOK, Effect, Changes
<1> QED
  BY <1>1, <1>2, <1>3, <1>4, <1>5, <1>6, <1>7 DEF IInv

(* The announcement is posted, or not. *)
LEMMA AnnounceInv ==
  ASSUME IInv, NEW i \in Invocation, Announce(i)
  PROVE  IInv'
<1> USE ConstantsAssumption DEF IInv
<1>a. "announce" \in Effect /\ Deliver(i, "announce")
  BY DEF Announce, Effect
<1>b. Changes(i, "announce")
  BY <1>a, DeliverChanges
<1>c. outcome[i]["announce"] = "open" /\ outcome'[i]["announce"] \in {"open", "delivered", "failed"}
  BY <1>a, DeliverChanges
<1>d. applied \subseteq applied' /\ applied' \subseteq applied \union {<<i, "announce">>}
  BY <1>a, DeliverChanges
<1>e. outcome'[i]["announce"] = "delivered" => <<i, "announce">> \in applied'
  BY <1>a, DeliverChanges
<1>f. faults' \in 0..MaxFaults
  BY <1>a, DeliverChanges
<1>1. TypeOK'
  BY <1>a, <1>b, <1>d, <1>f DEF Announce, committing, projecting, TypeOK, Changes
<1>2. ClaimsKept'
  BY DEF Announce, committing, projecting, ClaimsKept, TypeOK, Committed
<1>3. Announcing'
  BY <1>b, <1>c, <1>d, <1>e DEF Announce, committing, projecting, Announcing, TypeOK, Effect, Changes
<1>4. Ending'
  BY <1>b, <1>c DEF Announce, committing, projecting, Ending, TypeOK, Committed, Effect, Changes
<1>5. Loaded'
  BY DEF Announce, committing, projecting, Loaded, TypeOK, Claimed
<1>6. Serial'
  BY DEF Announce, committing, projecting, Serial, TypeOK
<1>7. Projected'
  BY <1>b, <1>c DEF Announce, committing, projecting, Projected, TypeOK, Effect, Changes
<1> QED
  BY <1>1, <1>2, <1>3, <1>4, <1>5, <1>6, <1>7 DEF IInv

(* The workflow ends. *)
LEMMA CompleteInv ==
  ASSUME IInv, NEW i \in Invocation, Complete(i)
  PROVE  IInv'
<1> USE ConstantsAssumption DEF IInv
<1>1. TypeOK'
  BY DEF Complete, Go, committing, projecting, TypeOK
<1>2. ClaimsKept'
  BY DEF Complete, Go, committing, projecting, ClaimsKept, TypeOK, Committed
<1>3. Announcing'
  BY DEF Complete, Go, committing, projecting, Announcing, TypeOK, Effect
<1>4. Ending'
  BY DEF Complete, Go, committing, projecting, Ending, TypeOK, Committed, Effect
<1>5. Loaded'
  BY DEF Complete, Go, committing, projecting, Loaded, TypeOK, Claimed
<1>6. Serial'
  BY DEF Complete, Go, committing, projecting, Serial, TypeOK
<1>7. Projected'
  BY DEF Complete, Go, committing, projecting, Projected, TypeOK, Effect
<1> QED
  BY <1>1, <1>2, <1>3, <1>4, <1>5, <1>6, <1>7 DEF IInv

(* The entity takes a projection up. *)
LEMMA EnterInv ==
  ASSUME IInv, NEW i \in Invocation, Enter(i)
  PROVE  IInv'
<1> USE ConstantsAssumption DEF IInv
<1>a. "project" \in Effect /\ "failed" \in Outcome
  BY DEF Effect, Outcome
<1>b. outcome' = outcome \/ EndsAs(i, "project", "failed")
  BY DEF Enter
<1>c. Changes(i, "project")
  BY <1>a, <1>b, EndsAsChanges
<1>d. outcome'[i]["project"] \in {outcome[i]["project"], "failed"}
  BY <1>a, <1>b, EndsAsChanges
<1>1. TypeOK'
  <2>1. stage' \in [Invocation -> {"send", "load", "edit", "over"}]
    BY DEF Enter, StageTo, Fault, committing, TypeOK
  <2>2. entity' \subseteq {k \in Invocation : stage'[k] \in {"load", "edit"}}
    BY DEF Enter, StageTo, Fault, committing, TypeOK
  <2>3. faults' \in 0..MaxFaults
    BY DEF Enter, StageTo, Fault, committing, TypeOK
  <2> QED
    BY <1>c, <2>1, <2>2, <2>3 DEF Enter, StageTo, Fault, committing, TypeOK, Changes
<1>2. ClaimsKept'
  BY DEF Enter, StageTo, Fault, committing, ClaimsKept, TypeOK, Committed
<1>3. Announcing'
  <2>1. UNCHANGED <<first, applied>>
    BY DEF Enter, committing
  <2>2. \A k \in Invocation : outcome'[k]["announce"] = outcome[k]["announce"]
    BY <1>c DEF Changes, Effect
  <2> QED
    BY <2>1, <2>2 DEF Announcing
<1>4. Ending'
  BY <1>c, <1>d DEF Enter, StageTo, Fault, committing, Ending, TypeOK, Committed, Effect, Changes
<1>5. Loaded'
  BY DEF Enter, StageTo, Fault, committing, Loaded, TypeOK, Claimed
<1>6. Serial'
  BY DEF Enter, StageTo, Fault, committing, Serial, TypeOK
<1>7. Projected'
  BY <1>c, <1>d DEF Enter, StageTo, Fault, committing, Projected, TypeOK, Effect, Changes
<1> QED
  BY <1>1, <1>2, <1>3, <1>4, <1>5, <1>6, <1>7 DEF IInv

(* A loaded view has all that is shown and all that detached views have. *)
LEMMA LoadViewInv ==
  ASSUME IInv, NEW i \in Invocation, LoadView(i)
  PROVE  IInv'
<1> USE ConstantsAssumption DEF IInv
<1>a. "project" \in Effect /\ "failed" \in Outcome
  BY DEF Effect, Outcome
<1>b. outcome' = outcome \/ EndsAs(i, "project", "failed")
  BY DEF LoadView, Leave
<1>c. Changes(i, "project")
  BY <1>a, <1>b, EndsAsChanges
<1>d. outcome'[i]["project"] \in {outcome[i]["project"], "failed"}
  BY <1>a, <1>b, EndsAsChanges
<1>1. TypeOK'
  <2>1. stage' \in [Invocation -> {"send", "load", "edit", "over"}]
    BY DEF LoadView, Leave, CheckedIn, StageTo, Fault, committing, TypeOK
  <2>2. entity' \subseteq {k \in Invocation : stage'[k] \in {"load", "edit"}}
    BY DEF LoadView, Leave, CheckedIn, StageTo, Fault, committing, TypeOK
  <2>3. faults' \in 0..MaxFaults
    BY DEF LoadView, Leave, CheckedIn, StageTo, Fault, committing, TypeOK
  <2> QED
    BY <1>c, <2>1, <2>2, <2>3 DEF LoadView, Leave, CheckedIn, StageTo, Fault, committing, TypeOK, Changes
<1>2. ClaimsKept'
  BY DEF LoadView, Leave, CheckedIn, StageTo, Fault, committing, ClaimsKept, TypeOK, Committed
<1>3. Announcing'
  BY <1>c, <1>d DEF LoadView, Leave, CheckedIn, StageTo, Fault, committing, Announcing, TypeOK, Effect, Changes
<1>4. Ending'
  BY <1>c, <1>d DEF LoadView, Leave, CheckedIn, StageTo, Fault, committing, Ending, TypeOK, Committed, Effect, Changes
<1>5. Loaded'
  <2>1. claim[MemberOf[i]] # None
    BY DEF LoadView, Ending, ClaimsKept, Committed
  <2>2. UNCHANGED <<claim, shown, detached>> /\ entity' \subseteq entity /\ i \in entity
    BY DEF LoadView, Leave, committing
  <2>3. i \notin detached
    BY <2>2 DEF Loaded
  <2>4. \/ /\ view' = [view EXCEPT ![i] = CheckedIn] /\ Authorized(i)
           /\ StageTo(i, "edit")
        \/ UNCHANGED view /\ StageTo(i, "over")
    BY DEF LoadView, Leave
  <2>5. /\ \A k \in Invocation \ {i} : view'[k] = view[k] /\ stage'[k] = stage[k]
        /\ view'[i] \in {view[i], CheckedIn}
        /\ stage'[i] = "edit" => view'[i] = CheckedIn /\ Authorized(i)
    BY <2>4 DEF StageTo, TypeOK
  <2>6. CheckedIn \subseteq Claimed /\ (Authorized(i) => MemberOf[i] \in CheckedIn)
    BY <2>1 DEF CheckedIn, Authorized, Claimed, TypeOK
  <2> QED
    BY <2>2, <2>3, <2>5, <2>6 DEF Loaded, Claimed
<1>6. Serial'
  BY DEF LoadView, Leave, CheckedIn, StageTo, Fault, committing, Serial, TypeOK, Loaded, Claimed
<1>7. Projected'
  BY <1>c, <1>d DEF LoadView, Leave, CheckedIn, StageTo, Fault, committing, Projected, TypeOK, Effect, Changes
<1> QED
  BY <1>1, <1>2, <1>3, <1>4, <1>5, <1>6, <1>7 DEF IInv

(* An edit shows what its view has. *)
LEMMA EditInv ==
  ASSUME IInv, NEW i \in Invocation, Edit(i)
  PROVE  IInv'
<1> USE ConstantsAssumption DEF IInv
<1>a. "project" \in Effect /\ "delivered" \in Outcome /\ "failed" \in Outcome
  BY DEF Effect, Outcome
<1>b. EndsAs(i, "project", "delivered") \/ EndsAs(i, "project", "failed")
  BY DEF Edit, Leave
<1>c. Changes(i, "project")
  BY <1>a, <1>b, EndsAsChanges
<1>d. outcome'[i]["project"] \in {outcome[i]["project"], "delivered", "failed"}
  BY <1>a, <1>b, EndsAsChanges
<1>1. TypeOK'
  BY <1>c DEF Edit, Leave, EndsAs, StageTo, Fault, committing, TypeOK, Changes
<1>2. ClaimsKept'
  BY DEF Edit, Leave, EndsAs, StageTo, Fault, committing, ClaimsKept, TypeOK, Committed
<1>3. Announcing'
  BY <1>c, <1>d DEF Edit, Leave, EndsAs, StageTo, Fault, committing, Announcing, TypeOK, Effect, Changes
<1>4. Ending'
  BY <1>c, <1>d DEF Edit, Leave, EndsAs, StageTo, Fault, committing, Ending, TypeOK, Committed, Effect, Changes
<1>5. Loaded'
  BY DEF Edit, Leave, EndsAs, StageTo, Fault, committing, Loaded, TypeOK, Claimed
<1>6. Serial'
  BY DEF Edit, Leave, EndsAs, StageTo, Fault, committing, Serial, TypeOK
<1>7. Projected'
  BY <1>c, <1>d DEF Edit, Leave, EndsAs, StageTo, Fault, committing, Projected, TypeOK, Effect, Changes, Loaded, Serial
<1> QED
  BY <1>1, <1>2, <1>3, <1>4, <1>5, <1>6, <1>7 DEF IInv

(* A projection leaves the entity when its runner dies. *)
LEMMA LoseEntityInv ==
  ASSUME IInv, NEW i \in Invocation, LoseEntity(i)
  PROVE  IInv'
<1> USE ConstantsAssumption DEF IInv
<1>1. TypeOK'
  <2>1. stage' \in [Invocation -> {"send", "load", "edit", "over"}]
    BY DEF LoseEntity, StageTo, Fault, committing, TypeOK
  <2>2. entity' \subseteq {k \in Invocation : stage'[k] \in {"load", "edit"}}
    BY DEF LoseEntity, StageTo, Fault, committing, TypeOK
  <2>3. faults' \in 0..MaxFaults
    BY DEF LoseEntity, StageTo, Fault, committing, TypeOK
  <2> QED
    BY <2>1, <2>2, <2>3 DEF LoseEntity, StageTo, Fault, committing, TypeOK
<1>2. ClaimsKept'
  BY DEF LoseEntity, StageTo, Fault, committing, ClaimsKept, TypeOK, Committed
<1>3. Announcing'
  BY DEF LoseEntity, StageTo, Fault, committing, Announcing, TypeOK, Effect
<1>4. Ending'
  BY DEF LoseEntity, StageTo, Fault, committing, Ending, TypeOK, Committed, Effect
<1>5. Loaded'
  BY DEF LoseEntity, StageTo, Fault, committing, Loaded, TypeOK, Claimed
<1>6. Serial'
  BY DEF LoseEntity, StageTo, Fault, committing, Serial, TypeOK, Loaded
<1>7. Projected'
  BY DEF LoseEntity, StageTo, Fault, committing, Projected, TypeOK, Effect
<1> QED
  BY <1>1, <1>2, <1>3, <1>4, <1>5, <1>6, <1>7 DEF IInv

(* An edit beside the entity shows no more than a view that is loaded. *)
LEMMA EditDetachedInv ==
  ASSUME IInv, NEW i \in Invocation, EditDetached(i)
  PROVE  IInv'
<1> USE ConstantsAssumption DEF IInv
<1>a. "project" \in Effect /\ "delivered" \in Outcome
  BY DEF Effect, Outcome
<1>b. outcome' = outcome \/ EndsAs(i, "project", "delivered")
  BY DEF EditDetached
<1>c. Changes(i, "project")
  BY <1>a, <1>b, EndsAsChanges
<1>d. outcome'[i]["project"] \in {outcome[i]["project"], "delivered"}
  BY <1>a, <1>b, EndsAsChanges
<1>1. TypeOK'
  BY <1>c DEF EditDetached, StageTo, Fault, committing, TypeOK, Changes, Loaded
<1>2. ClaimsKept'
  BY DEF EditDetached, StageTo, Fault, committing, ClaimsKept, TypeOK, Committed
<1>3. Announcing'
  BY <1>c, <1>d DEF EditDetached, StageTo, Fault, committing, Announcing, TypeOK, Effect, Changes
<1>4. Ending'
  <2>1. UNCHANGED <<pc, entity>> /\ i \notin entity
    BY DEF EditDetached, Loaded
  <2>2. \A k \in Invocation, e \in Effect :
          \/ outcome'[k][e] = outcome[k][e]
          \/ k = i /\ e = "project" /\ outcome'[k][e] = "delivered"
    BY <1>c, <1>d DEF Changes
  <2> QED
    BY <1>a, <2>1, <2>2 DEF Ending, Committed
<1>5. Loaded'
  BY DEF EditDetached, StageTo, Fault, committing, Loaded, TypeOK, Claimed
<1>6. Serial'
  BY DEF EditDetached, StageTo, Fault, committing, Serial, TypeOK, Loaded
<1>7. Projected'
  BY <1>c, <1>d DEF EditDetached, StageTo, Fault, committing, Projected, TypeOK, Effect, Changes, Loaded
<1> QED
  BY <1>1, <1>2, <1>3, <1>4, <1>5, <1>6, <1>7 DEF IInv

(* An edit beside the entity may be refused. *)
LEMMA RefuseDetachedInv ==
  ASSUME IInv, NEW i \in Invocation, RefuseDetached(i)
  PROVE  IInv'
<1> USE ConstantsAssumption DEF IInv
<1>a. "project" \in Effect /\ "failed" \in Outcome
  BY DEF Effect, Outcome
<1>b. outcome' = outcome \/ EndsAs(i, "project", "failed")
  BY DEF RefuseDetached
<1>c. Changes(i, "project")
  BY <1>a, <1>b, EndsAsChanges
<1>d. outcome'[i]["project"] \in {outcome[i]["project"], "failed"}
  BY <1>a, <1>b, EndsAsChanges
<1>1. TypeOK'
  <2>1. stage' \in [Invocation -> {"send", "load", "edit", "over"}]
    BY DEF RefuseDetached, StageTo, Fault, committing, Loaded, TypeOK
  <2>2. entity' \subseteq {k \in Invocation : stage'[k] \in {"load", "edit"}}
    BY DEF RefuseDetached, StageTo, Fault, committing, Loaded, TypeOK
  <2>3. faults' \in 0..MaxFaults
    BY DEF RefuseDetached, StageTo, Fault, committing, Loaded, TypeOK
  <2> QED
    BY <1>c, <2>1, <2>2, <2>3 DEF RefuseDetached, StageTo, Fault, committing, Loaded, TypeOK, Changes
<1>2. ClaimsKept'
  BY DEF RefuseDetached, StageTo, Fault, committing, ClaimsKept, TypeOK, Committed
<1>3. Announcing'
  <2>1. \A k \in Invocation : outcome'[k]["announce"] = outcome[k]["announce"]
    BY <1>c DEF Changes, Effect
  <2> QED
    BY <2>1 DEF RefuseDetached, committing, Announcing
<1>4. Ending'
  BY <1>c, <1>d DEF RefuseDetached, StageTo, Fault, committing, Ending, TypeOK, Committed, Effect, Changes, Loaded
<1>5. Loaded'
  BY DEF RefuseDetached, StageTo, Fault, committing, Loaded, TypeOK, Claimed
<1>6. Serial'
  BY DEF RefuseDetached, StageTo, Fault, committing, Serial, TypeOK
<1>7. Projected'
  BY <1>c, <1>d DEF RefuseDetached, StageTo, Fault, committing, Projected, TypeOK, Effect, Changes
<1> QED
  BY <1>1, <1>2, <1>3, <1>4, <1>5, <1>6, <1>7 DEF IInv

-----------------------------------------------------------------------------
(* A member is removed: nothing is claimed of it any more.                  *)
LEMMA RemoveInv ==
  ASSUME IInv, NEW m \in Member, Remove(m)
  PROVE  IInv'
<1> USE ConstantsAssumption DEF IInv
<1>1. TypeOK'
  BY DEF Remove, Fault, committing, projecting, TypeOK
<1>2. ClaimsKept' /\ Announcing' /\ Ending' /\ Loaded'
  BY DEF Remove, committing, projecting, ClaimsKept, Announcing, Ending, Loaded, Claimed
<1>3. Serial' /\ Projected'
  BY DEF Remove, projecting, Serial, Projected
<1> QED
  BY <1>1, <1>2, <1>3 DEF IInv

LEMMA StutterInv == IInv /\ UNCHANGED vars => IInv'
  BY DEF vars, committing, projecting, IInv, TypeOK, ClaimsKept, Announcing, Ending, Loaded,
         Serial, Projected, Claimed

LEMMA NextInv == IInv /\ [Next]_vars => IInv'
<1> SUFFICES ASSUME IInv, [Next]_vars
             PROVE  IInv'
  OBVIOUS
<1>1. ASSUME NEW i \in Invocation, CommitStep(i)
      PROVE  IInv'
  BY <1>1, AuthorizeInv, MutateInv, ApplyLateInv, ConcludeInv, RestartInv DEF CommitStep
<1>2. ASSUME NEW i \in Invocation, EffectStep(i)
      PROVE  IInv'
  BY <1>2, RespondInv, SetRoleInv, AnnounceInv, CompleteInv DEF EffectStep
<1>3. ASSUME NEW i \in Invocation, ProjectionStep(i)
      PROVE  IInv'
  BY <1>3, EnterInv, LoadViewInv, EditInv, LoseEntityInv, EditDetachedInv, RefuseDetachedInv
     DEF ProjectionStep
<1>4. ASSUME NEW m \in Member, Remove(m)
      PROVE  IInv'
  BY <1>4, RemoveInv
<1> QED
  BY <1>1, <1>2, <1>3, <1>4, StutterInv DEF Next

-----------------------------------------------------------------------------
(* The invariant the other theorems rest on.                                *)
THEOREM Inductive == Spec => []IInv
  BY InitInv, NextInv, PTL DEF Spec

(* The state keeps its type, and a projection in the entity is loading or
   editing (makeCheckinProjectionEntityLayer).                              *)
THEOREM TypeCorrect == Spec => []TypeOK
<1>1. IInv => TypeOK
  BY DEF IInv
<1> QED
  BY <1>1, Inductive, PTL

(* A member's first check-in is announced only by the invocation whose claim
   the row keeps, and by it if it succeeds (committedFrom).                 *)
THEOREM AnnouncedOnce == Spec => []OneAnnouncement
<1>1. IInv => OneAnnouncement
  <2> SUFFICES ASSUME IInv, NEW i \in Invocation
               PROVE  /\ <<i, "announce">> \in applied => claim[MemberOf[i]] = i
                      /\ pc[i] = "succeeded" /\ i \in first => <<i, "announce">> \in applied
    BY DEF OneAnnouncement
  <2>1. <<i, "announce">> \in applied => claim[MemberOf[i]] = i
    BY DEF IInv, Announcing, ClaimsKept
  <2>2. ASSUME pc[i] = "succeeded", i \in first
        PROVE  <<i, "announce">> \in applied
    <3>1. outcome[i]["announce"] \in Outcome
      BY DEF IInv, TypeOK, Effect
    <3>2. outcome[i]["announce"] \notin {"open", "failed", "skipped"}
      BY <2>2 DEF IInv, Ending, Announcing, Effect
    <3> QED
      BY <3>1, <3>2 DEF IInv, Announcing, Outcome
  <2> QED
    BY <2>1, <2>2
<1> QED
  BY <1>1, Inductive, PTL

(* Success is reported of a check-in that is committed and on the message,
   unless an edit beside the entity took it off (completeCollectedEffects). *)
THEOREM ShownOnSuccess == Spec => []SuccessIsShown
<1>1. IInv => SuccessIsShown
  <2> SUFFICES ASSUME IInv, NEW i \in Invocation, pc[i] = "succeeded", Authorized(i)
               PROVE  claim[MemberOf[i]] # None /\ MemberOf[i] \in shown \union dropped
    BY DEF SuccessIsShown
  <2>1. claim[MemberOf[i]] # None
    BY DEF IInv, ClaimsKept, Committed
  <2>2. outcome[i]["project"] = "delivered"
    <3>1. outcome[i]["project"] \in Outcome
      BY DEF IInv, TypeOK, Effect
    <3>2. outcome[i]["project"] \notin {"open", "failed", "skipped"}
      BY DEF IInv, Ending, Committed, Effect
    <3> QED
      BY <3>1, <3>2 DEF Outcome
  <2> QED
    BY <2>1, <2>2 DEF IInv, Projected, Authorized
<1> QED
  BY <1>1, Inductive, PTL

(* Only an edit beside the entity takes a member that is still checked in off
   the message (the entity's concurrency of one).                           *)
THEOREM OlderViewNeverPublishedLast == Spec => OlderViewNeverLast
<1>1. IInv /\ [Next]_vars => (shown \ shown') \intersect active \subseteq dropped'
  <2> SUFFICES ASSUME IInv, [Next]_vars, shown' # shown
               PROVE  (shown \ shown') \intersect active \subseteq dropped'
    OBVIOUS
  <2>1. ASSUME NEW i \in Invocation, Edit(i)
        PROVE  shown \intersect active \subseteq shown'
    BY <2>1 DEF Edit, IInv, Serial
  <2>2. ASSUME NEW i \in Invocation, EditDetached(i)
        PROVE  shown \ shown' \subseteq dropped'
    BY <2>2 DEF EditDetached
  <2>3. \A i \in Invocation : ~CommitStep(i) /\ ~EffectStep(i)
    BY DEF CommitStep, EffectStep, Authorize, Mutate, ApplyLate, Conclude, RestartCommit,
           Respond, SetRole, Announce, Complete, projecting
  <2>4. \A i \in Invocation :
          ~Enter(i) /\ ~LoadView(i) /\ ~LoseEntity(i) /\ ~RefuseDetached(i)
    BY DEF Enter, LoadView, LoseEntity, RefuseDetached
  <2>5. (\A m \in Member : ~Remove(m)) /\ vars' # vars
    BY DEF Remove, projecting, vars
  <2> QED
    BY <2>1, <2>2, <2>3, <2>4, <2>5 DEF Next, ProjectionStep
<1> QED
  BY <1>1, Inductive, PTL DEF Spec, OlderViewNeverLast

=============================================================================
