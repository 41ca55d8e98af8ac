---------------------------- MODULE DeliveryContract ----------------------------
(***************************************************************************)
(* What the requests that carry one Delivery Key are promised: one         *)
(* intended write to Discord is made once, and every request that is       *)
(* answered is given the receipt of that write ("Delivery Key",            *)
(* src/CONTEXT.md).  An operator may release the key for another attempt;  *)
(* the promise of a single write then rests on the operator's not being    *)
(* mistaken about what was written.  Reservations, compare-and-sets, lost  *)
(* answers and crashes are in BotDelivery, which is shown to implement     *)
(* this specification.                                                     *)
(***************************************************************************)
EXTENDS Naturals, FiniteSets

CONSTANTS Call, Operator, Legacy, None

VARIABLES
  writes,     \* the attempts that Discord has carried out
  releases,   \* Recovery Commands that allowed another attempt
  mistaken,   \* one of them was about another attempt
  receipt,    \* the receipt on record
  answer      \* answer[k]: the receipt that request k was given

contractVars == <<writes, releases, mistaken, receipt, answer>>

Init ==
  /\ writes \in {{}, {Legacy}}
  /\ releases = {} /\ mistaken = FALSE
  /\ receipt = None
  /\ answer = [k \in Call |-> None]

\* Requests reach Discord: the first one for nothing, any other for a release
\* each; and only the first, before there is a receipt, if nobody is mistaken.
Write(ks) ==
  /\ ks # {} /\ ks \intersect writes = {}
  /\ writes' = writes \union ks
  /\ Cardinality(writes') <= 1 + Cardinality(releases)
  /\ mistaken \/ (writes = {} /\ receipt = None /\ \E k \in Call : ks = {k})
  /\ UNCHANGED <<releases, mistaken, receipt, answer>>

\* A release once there is a receipt is refused; after a write it is a mistake.
Release(o) ==
  /\ receipt = None /\ o \notin releases
  /\ releases' = releases \union {o}
  /\ mistaken' \in BOOLEAN
  /\ mistaken \/ writes # {} => mistaken'
  /\ UNCHANGED <<writes, receipt, answer>>

\* The receipt of a write goes on record, for good.
Record(w) ==
  /\ receipt = None /\ w \in writes
  /\ receipt' = w
  /\ UNCHANGED <<writes, releases, mistaken, answer>>

Answer(k) ==
  /\ receipt # None /\ answer[k] = None
  /\ answer' = [answer EXCEPT ![k] = receipt]
  /\ UNCHANGED <<writes, releases, mistaken, receipt>>

Next ==
  \/ \E ks \in SUBSET Call : Write(ks)
  \/ \E o \in Operator : Release(o)
  \/ \E w \in Call \union {Legacy} : Record(w)
  \/ \E k \in Call : Answer(k)

Spec == Init /\ [][Next]_contractVars

================================================================================
