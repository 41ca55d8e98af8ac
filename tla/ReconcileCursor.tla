---------------------------- MODULE ReconcileCursor ----------------------------
(***************************************************************************)
(* The reconciler's walk over the running runs: pages of listRuns in the    *)
(* order of (updated_at, run_id), a cursor kept in memory between rounds,  *)
(* and the wrap to the first run.  The poll of a run is what settles it     *)
(* when its execution has ended; runs that begin, or are marked running     *)
(* again, go to the end of the order meanwhile.                             *)
(*                                                                         *)
(* markRun stamps updated_at with the database's NOW(), in microseconds;   *)
(* the cursor holds a Date, in milliseconds.  So a cursor set to a run      *)
(* stands before that run and before the others of its millisecond, unless *)
(* the stamp is a whole millisecond.  The cursor is modelled by its place:  *)
(* how many runs of the order are not after what it holds.                 *)
(***************************************************************************)
EXTENDS Naturals, Sequences, FiniteSets

CONSTANTS
  Run,         \* runs that may be running at one time
  BatchSize,   \* runs of a page
  MaxUpdates,  \* bound: runs that begin or are marked running again
  MaxFaults    \* bound: failed listings, failed marks and restarts

ASSUME ConstantsAssumption ==
  /\ IsFiniteSet(Run)
  /\ BatchSize \in Nat \ {0}
  /\ MaxUpdates \in Nat
  /\ MaxFaults \in Nat

VARIABLES
  order,    \* the running runs by (updated_at, run_id)
  joined,   \* runs stamped in the millisecond of the run before them
  whole,    \* runs whose stamp is a whole millisecond
  ended,    \* running runs whose execution has ended
  cursor,   \* place of the cursor; 0 when there is none
  polling,  \* a page has been listed and the cursor is not yet set for it
  page,     \* runs of the page still to be polled
  next,     \* place of the cursor that the page will set
  reached,  \* runs listed since the last wrap at their present place
  updates,
  faults

vars == <<order, joined, whole, ended, cursor, polling, page, next, reached,
          updates, faults>>

Running == {order[n] : n \in DOMAIN order}
EachOnce == \A m, n \in DOMAIN order : order[m] = order[n] => m = n

Init ==
  /\ \E n \in 0..Cardinality(Run) : order \in [1..n -> Run]
  /\ EachOnce
  /\ joined \in SUBSET {order[n] : n \in DOMAIN order \ {1}}
  /\ whole \in SUBSET (Running \ joined)
  /\ ended = {}
  /\ cursor = 0 /\ next = 0
  /\ polling = FALSE /\ page = {} /\ reached = {}
  /\ updates = 0 /\ faults = 0

Fault ==
  /\ faults < MaxFaults
  /\ faults' = faults + 1

Update ==
  /\ updates < MaxUpdates
  /\ updates' = updates + 1

--------------------------------------------------------------------------------
(* The order changes under the cursor. *)

\* Mutant: the cursor is an OFFSET.
OffsetKept(place, r) == place

PlaceOf(r) == CHOOSE n \in DOMAIN order : order[n] = r

\* A place after r has left the order.
Closed(place, r) == IF PlaceOf(r) <= place THEN place - 1 ELSE place

Others(r) == SubSeq(order, 1, PlaceOf(r) - 1) \o SubSeq(order, PlaceOf(r) + 1, Len(order))

\* The run after r, if any, is no longer stamped in the millisecond of the run
\* before it when r was the first of that millisecond.
Split(r) ==
  IF r \in joined THEN {r}
  ELSE {r} \union {order[n] : n \in {m \in DOMAIN order : m > 1 /\ order[m - 1] = r}}

\* r leaves its place in the order.
Leave(r) ==
  /\ cursor' = Closed(cursor, r)
  /\ next' = Closed(next, r)
  /\ reached' = reached \ {r}

\* markRun stamps r, which is now the last of the order rest.  Its stamp and its
\* visibility are one step: NOW() is the start of a transaction, and marks that
\* overlap are taken to become visible in the order of their stamps.  r may be joined
\* to the last run that is left where the clock has gone past its millisecond: more
\* cursors than the clock allows.
Stamp(r, rest) ==
  /\ order' = Append(rest, r)
  /\ \/ joined' = joined \ Split(r) /\ whole' \in {whole \ {r}, whole \union {r}}
     \/ /\ rest # <<>>
        /\ joined' = (joined \ Split(r)) \union {r}
        /\ whole' = whole \ {r}

\* executeStartCommand has marked a run running.
Begins(r) ==
  /\ r \notin Running
  /\ Update
  /\ Stamp(r, order)
  /\ UNCHANGED <<ended, cursor, polling, page, next, reached, faults>>

\* A start that is retried, a resume or an event marks it running again.
Touched(r) ==
  /\ r \in Running
  /\ Update
  /\ Leave(r)
  /\ Stamp(r, Others(r))
  /\ UNCHANGED <<ended, polling, page, faults>>

\* markRun: the run is terminal.
Settle(r) ==
  /\ Leave(r)
  /\ order' = Others(r)
  /\ joined' = joined \ Split(r)
  /\ whole' = whole \ {r}
  /\ ended' = ended \ {r}
  /\ page' = page \ {r}

\* The dispatcher cancels it or gives up one of its commands.
Ended(r) ==
  /\ r \in Running
  /\ Settle(r)
  /\ UNCHANGED <<polling, updates, faults>>

\* The workflow engine completes the execution.
ExecutionEnds(r) ==
  /\ r \in Running \ ended
  /\ ended' = ended \union {r}
  /\ UNCHANGED <<order, joined, whole, cursor, polling, page, next, reached,
                 updates, faults>>

--------------------------------------------------------------------------------
(* reconcileWorkflowRuns *)

\* The place after which LIMIT leaves none, and the places after the cursor
\* that it leaves.
PageEnd == IF cursor + BatchSize < Len(order) THEN cursor + BatchSize ELSE Len(order)
PagePlaces == (cursor + 1)..PageEnd

\* Mutant: the cursor is the stamp rounded up to the millisecond after it.
PlacesPast(n) ==
  {CHOOSE k \in n..Len(order) :
     /\ \A m \in (n + 1)..k : order[m] \in joined
     /\ k = Len(order) \/ order[k + 1] \notin joined}

\* The first run of the n-th run's millisecond.
FirstOf(n) ==
  CHOOSE m \in 1..n :
    /\ order[m] \notin joined
    /\ \A k \in (m + 1)..n : order[k] \in joined

\* Places of a cursor set to the n-th run: before the first run of its
\* millisecond, or, if that one's stamp is whole, after it when it is the run
\* itself or its run_id is the lesser of the two.
PlacesOf(n) ==
  LET f == FirstOf(n)
  IN  CASE order[f] \notin whole -> {f - 1}
        [] order[f] \in whole /\ f = n -> {f}
        [] OTHER -> {f - 1, f}

\* Mutant: an empty page leaves the cursor where it is.
WrapNever == UNCHANGED <<cursor, reached>>

\* An empty page sets the cursor to undefined.
Wrap == cursor' = 0 /\ reached' = {}

List ==
  /\ ~polling
  /\ IF PagePlaces = {}
     THEN Wrap /\ UNCHANGED <<polling, page, next>>
     ELSE /\ polling' = TRUE
          /\ page' = {order[n] : n \in PagePlaces}
          /\ next' \in PlacesOf(PageEnd)
          /\ reached' = reached \union page'
          /\ UNCHANGED cursor
  /\ UNCHANGED <<order, joined, whole, ended, updates, faults>>

\* A failed listing ends the round with the cursor unchanged.
ListFails ==
  /\ ~polling
  /\ Fault
  /\ UNCHANGED <<order, joined, whole, ended, cursor, polling, page, next, reached,
                 updates>>

\* reconcileRun: an ended execution settles the run, unless that fails.
PollRun(r) ==
  /\ r \in page
  /\ \/ r \in ended /\ Settle(r) /\ UNCHANGED faults
     \/ /\ \/ r \notin ended /\ UNCHANGED faults
           \/ r \in ended /\ Fault
        /\ page' = page \ {r}
        /\ UNCHANGED <<order, joined, whole, ended, cursor, next, reached>>
  /\ UNCHANGED <<polling, updates>>

\* The cursor moves to the last run of the page, as it was listed.
Advance ==
  /\ polling /\ page = {}
  /\ cursor' = next
  /\ polling' = FALSE /\ next' = 0
  /\ UNCHANGED <<order, joined, whole, ended, page, reached, updates, faults>>

\* The process restarts: the cursor is a Ref.
Restart ==
  /\ Fault
  /\ cursor' = 0 /\ next' = 0
  /\ polling' = FALSE /\ page' = {} /\ reached' = {}
  /\ UNCHANGED <<order, joined, whole, ended, updates>>

Reconciling == List \/ ListFails \/ (\E r \in Run : PollRun(r)) \/ Advance

Next ==
  \/ \E r \in Run : Begins(r) \/ Touched(r) \/ Ended(r) \/ ExecutionEnds(r)
  \/ Reconciling
  \/ Restart

Spec == Init /\ [][Next]_vars

\* The reconciler repeats every two seconds.
FairSpec == Spec /\ WF_vars(Reconciling)

--------------------------------------------------------------------------------
(* Properties *)

\* Types; the cursor and the place a page will set are places of the order as it is now,
\* whatever has left it since the page was listed; the runs of the page still run; and
\* a run joined to the one before it has one (reconcileWorkflowRuns, markRun).  A page
\* may set the cursor back: in one millisecond its last run can have a lesser run_id.
TypeOK ==
  /\ order \in Seq(Run)
  /\ EachOnce
  /\ joined \subseteq {order[n] : n \in DOMAIN order \ {1}}
  /\ whole \subseteq Running \ joined
  /\ ended \subseteq Running
  /\ page \subseteq Running /\ reached \subseteq Running
  /\ cursor \in 0..Len(order) /\ next \in 0..Len(order)
  /\ polling \in BOOLEAN
  /\ ~polling => page = {} /\ next = 0
  /\ updates \in 0..MaxUpdates
  /\ faults \in 0..MaxFaults

\* No running run is passed over, whatever leaves, begins or moves between the
\* listing of a page and the cursor that is stored for it (listRuns, Ref.set), as
\* long as marks become visible in the order of their stamps (Stamp).
NothingSkipped == \A n \in 1..(IF polling THEN next ELSE cursor) : order[n] \in reached

\* When no execution is left to wait for, the reconciler settles every run: what
\* the cursor has passed it comes back to (reconcileWorkflowRuns).
BacklogDrains == []<>(ended # Running \/ Running = {})

\* A run whose execution has ended is settled: the reconciler "advances and wraps
\* its reconciliation cursor", so it comes back to every run.
EndedRunsSettle == \A r \in Run : r \in ended ~> r \notin ended

================================================================================
