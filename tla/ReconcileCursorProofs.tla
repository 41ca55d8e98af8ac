------------------------- MODULE ReconcileCursorProofs -------------------------
(***************************************************************************)
(* Proofs about ReconcileCursor, for any runs, page size and bounds.  The  *)
(* types and NothingSkipped are inductive together: what the cursor has    *)
(* behind it has been listed, and a run that leaves the order takes its    *)
(* place with it.                                                          *)
(***************************************************************************)
EXTENDS ReconcileCursor, FiniteSetTheorems, SequenceTheorems, NaturalsInduction,
        WellFoundedInduction, TLAPS

IInv == TypeOK /\ NothingSkipped

--------------------------------------------------------------------------------
(* The order, and what is left of it without a run.                         *)

LEMMA OrderFacts ==
  ASSUME TypeOK
  PROVE  /\ Len(order) \in Nat /\ DOMAIN order = 1..Len(order)
         /\ \A n \in 1..Len(order) : order[n] \in Run
         /\ \A m, n \in 1..Len(order) : order[m] = order[n] => m = n
         /\ Running = {order[n] : n \in 1..Len(order)}
<1>1. order \in Seq(Run)
  BY DEF TypeOK
<1>2. Len(order) \in Nat /\ DOMAIN order = 1..Len(order)
  BY <1>1, LenProperties
<1>3. \A n \in 1..Len(order) : order[n] \in Run
  BY <1>1, ElementOfSeq
<1> QED
  BY <1>2, <1>3 DEF TypeOK, EachOnce, Running

LEMMA PlaceFacts ==
  ASSUME TypeOK, NEW r \in Running
  PROVE  PlaceOf(r) \in 1..Len(order) /\ order[PlaceOf(r)] = r
<1>1. \E n \in DOMAIN order : order[n] = r
  BY DEF Running
<1> QED
  BY <1>1, OrderFacts DEF PlaceOf

LEMMA OthersFacts ==
  ASSUME TypeOK, NEW r \in Running
  PROVE  /\ Others(r) \in Seq(Run) /\ Len(Others(r)) = Len(order) - 1
         /\ \A n \in 1..(Len(order) - 1) :
              Others(r)[n] = IF n < PlaceOf(r) THEN order[n] ELSE order[n + 1]
<1> DEFINE p == PlaceOf(r)
           before == SubSeq(order, 1, p - 1)
           after == SubSeq(order, p + 1, Len(order))
<1>0. /\ p \in 1..Len(order) /\ Len(order) \in Nat
      /\ \A n \in 1..Len(order) : order[n] \in Run
  BY PlaceFacts, OrderFacts
<1> HIDE DEF p
<1>1. /\ before \in Seq(Run) /\ Len(before) = p - 1
      /\ \A n \in 1..(p - 1) : before[n] = order[n]
  <2>1. \A n \in 1..(p - 1) : order[n] \in Run
    BY <1>0
  <2>2. /\ SubSeq(order, 1, p - 1) \in Seq(Run)
        /\ Len(SubSeq(order, 1, p - 1)) = IF 1 <= p - 1 THEN (p - 1) - 1 + 1 ELSE 0
        /\ \A n \in 1..((p - 1) - 1 + 1) : SubSeq(order, 1, p - 1)[n] = order[1 + n - 1]
    BY <1>0, <2>1, SubSeqProperties
  <2> QED
    BY <1>0, <2>2
<1>2. /\ after \in Seq(Run) /\ Len(after) = Len(order) - p
      /\ \A n \in 1..(Len(order) - p) : after[n] = order[p + n]
  <2>1. \A n \in (p + 1)..Len(order) : order[n] \in Run
    BY <1>0
  <2>2. /\ SubSeq(order, p + 1, Len(order)) \in Seq(Run)
        /\ Len(SubSeq(order, p + 1, Len(order))) =
             IF p + 1 <= Len(order) THEN Len(order) - (p + 1) + 1 ELSE 0
        /\ \A n \in 1..(Len(order) - (p + 1) + 1) :
             SubSeq(order, p + 1, Len(order))[n] = order[(p + 1) + n - 1]
    BY <1>0, <2>1, SubSeqProperties
  <2> QED
    BY <1>0, <2>2
<1> HIDE DEF before, after
<1>3. /\ before \o after \in Seq(Run)
      /\ Len(before \o after) = (p - 1) + (Len(order) - p)
      /\ \A n \in 1..((p - 1) + (Len(order) - p)) :
           (before \o after)[n] = IF n <= p - 1 THEN before[n] ELSE after[n - (p - 1)]
  BY <1>1, <1>2, ConcatProperties
<1>4. Others(r) = before \o after
  BY DEF Others, before, after, p
<1>5. ASSUME NEW n \in 1..(Len(order) - 1)
      PROVE  Others(r)[n] = IF n < p THEN order[n] ELSE order[n + 1]
  <2>1. CASE n < p
    BY <1>0, <1>1, <1>3, <1>4, <2>1
  <2>2. CASE ~(n < p)
    <3>1. n - (p - 1) \in 1..(Len(order) - p) /\ p + (n - (p - 1)) = n + 1
      BY <1>0, <2>2
    <3>2. after[n - (p - 1)] = order[n + 1]
      BY <1>2, <3>1
    <3>3. (before \o after)[n] = after[n - (p - 1)]
      BY <1>0, <1>3, <2>2
    <3> QED
      BY <1>4, <2>2, <3>2, <3>3
  <2> QED
    BY <2>1, <2>2
<1> QED
  BY <1>0, <1>3, <1>4, <1>5 DEF p

(* Where the runs are that stay.                                            *)
LEMMA StayFacts ==
  ASSUME TypeOK, NEW r \in Running
  PROVE  /\ \A m, n \in 1..(Len(order) - 1) : Others(r)[m] = Others(r)[n] => m = n
         /\ {Others(r)[n] : n \in 1..(Len(order) - 1)} = Running \ {r}
         /\ (joined \ Split(r)) \subseteq {Others(r)[n] : n \in 2..(Len(order) - 1)}
<1> DEFINE p == PlaceOf(r)
           L == Len(order)
<1>0. /\ p \in 1..L /\ order[p] = r /\ L \in Nat
      /\ \A m, n \in 1..L : order[m] = order[n] => m = n
      /\ Running = {order[n] : n \in 1..L} /\ DOMAIN order = 1..L
  BY PlaceFacts, OrderFacts
<1>1. \A n \in 1..(L - 1) : Others(r)[n] = IF n < p THEN order[n] ELSE order[n + 1]
  BY OthersFacts
<1> HIDE DEF p, L
<1>2. ASSUME NEW n \in 1..L, n # p
      PROVE  /\ (IF n < p THEN n ELSE n - 1) \in 1..(L - 1)
             /\ Others(r)[IF n < p THEN n ELSE n - 1] = order[n]
  BY <1>0, <1>1, <1>2
<1>3. ASSUME NEW m \in 1..(L - 1), NEW n \in 1..(L - 1), Others(r)[m] = Others(r)[n]
      PROVE  m = n
  <2>1. order[IF m < p THEN m ELSE m + 1] = order[IF n < p THEN n ELSE n + 1]
    BY <1>1, <1>3
  <2>2. /\ (IF m < p THEN m ELSE m + 1) \in 1..L /\ (IF n < p THEN n ELSE n + 1) \in 1..L
    BY <1>0
  <2>3. (IF m < p THEN m ELSE m + 1) = (IF n < p THEN n ELSE n + 1)
    BY <1>0, <2>1, <2>2
  <2> QED
    BY <1>0, <2>3
<1>4. {Others(r)[n] : n \in 1..(L - 1)} = Running \ {r}
  <2>1. ASSUME NEW n \in 1..(L - 1)
        PROVE  Others(r)[n] \in Running \ {r}
    BY <1>0, <1>1
  <2>2. ASSUME NEW x \in Running \ {r}
        PROVE  \E n \in 1..(L - 1) : x = Others(r)[n]
    <3>1. PICK n \in 1..L : x = order[n] /\ n # p
      BY <1>0
    <3> QED
      BY <1>2, <3>1
  <2> QED
    BY <2>1, <2>2
<1>5. ASSUME NEW x \in joined \ Split(r)
      PROVE  \E n \in 2..(L - 1) : x = Others(r)[n]
  <2>1. PICK n \in 2..L : x = order[n]
    BY <1>0 DEF TypeOK
  <2>2. n # p /\ ~(p = 1 /\ n = 2)
    <3>1. r \in Split(r)
      BY DEF Split
    <3>2. ASSUME p = 1, n = 2
          PROVE  FALSE
      <4>1. r \notin joined
        <5> SUFFICES ASSUME r \in joined
                     PROVE  FALSE
          OBVIOUS
        <5>1. PICK m \in 2..L : r = order[m]
          BY <1>0 DEF TypeOK
        <5> QED
          BY <1>0, <3>2, <5>1
      <4>2. 2 \in {m \in DOMAIN order : m > 1 /\ order[m - 1] = r}
        <5>1. 2 \in 1..L /\ 2 - 1 = 1 /\ 2 > 1
          BY <1>0, <2>1, <3>2
        <5>2. order[2 - 1] = r
          BY <1>0, <3>2, <5>1
        <5> QED
          BY <1>0, <5>1, <5>2
      <4>3. x \in {order[j] : j \in {m \in DOMAIN order : m > 1 /\ order[m - 1] = r}}
        BY <2>1, <3>2, <4>2
      <4> QED
        BY <4>1, <4>3 DEF Split
    <3> QED
      BY <1>0, <2>1, <3>1, <3>2
  <2>3. (IF n < p THEN n ELSE n - 1) \in 2..(L - 1)
    BY <1>0, <2>1, <2>2
  <2> QED
    BY <1>2, <2>1, <2>2, <2>3
<1> QED
  BY <1>3, <1>4, <1>5 DEF L

(* A place keeps what is before it when a run leaves.                       *)
LEMMA ClosedFacts ==
  ASSUME TypeOK, NEW r \in Running, NEW place \in 0..Len(order)
  PROVE  /\ Closed(place, r) \in 0..(Len(order) - 1)
         /\ Closed(0, r) = 0
         /\ \A n \in 1..Closed(place, r) : \E m \in 1..place : Others(r)[n] = order[m] /\ order[m] # r
<1> DEFINE p == PlaceOf(r)
<1>0. /\ p \in 1..Len(order) /\ Len(order) \in Nat /\ order[p] = r
      /\ \A m, n \in 1..Len(order) : order[m] = order[n] => m = n
      /\ \A n \in 1..(Len(order) - 1) : Others(r)[n] = IF n < p THEN order[n] ELSE order[n + 1]
  BY PlaceFacts, OrderFacts, OthersFacts
<1>1. \A c \in 0..Len(order) : Closed(c, r) = IF p <= c THEN c - 1 ELSE c
  BY DEF Closed
<1> HIDE DEF p
<1>2. Closed(place, r) \in 0..(Len(order) - 1) /\ Closed(0, r) = 0
  BY <1>0, <1>1
<1>3. ASSUME NEW n \in 1..Closed(place, r)
      PROVE  \E m \in 1..place : Others(r)[n] = order[m] /\ order[m] # r
  <2>1. n \in 1..(Len(order) - 1)
    BY <1>0, <1>2
  <2>2. CASE n < p
    <3>1. n \in 1..place /\ Others(r)[n] = order[n] /\ order[n] # r
      BY <1>0, <1>1, <2>1, <2>2
    <3> QED
      BY <3>1
  <2>3. CASE ~(n < p)
    <3>1. n + 1 \in 1..place /\ Others(r)[n] = order[n + 1] /\ order[n + 1] # r
      BY <1>0, <1>1, <2>1, <2>3
    <3> QED
      BY <3>1
  <2> QED
    BY <2>2, <2>3
<1> QED
  BY <1>2, <1>3

(* A run stamped after those of the order rest.                             *)
LEMMA StampFacts ==
  ASSUME NEW r \in Run, NEW rest \in Seq(Run), Stamp(r, rest),
         \A m, n \in 1..Len(rest) : rest[m] = rest[n] => m = n,
         \A n \in 1..Len(rest) : rest[n] # r,
         (joined \ Split(r)) \subseteq {rest[n] : n \in 2..Len(rest)},
         whole \subseteq {rest[n] : n \in 1..Len(rest)} \union {r},
         whole \intersect joined = {}
  PROVE  /\ order' \in Seq(Run) /\ Len(order') = Len(rest) + 1
         /\ \A n \in 1..Len(rest) : order'[n] = rest[n]
         /\ EachOnce' /\ Running' = {rest[n] : n \in 1..Len(rest)} \union {r}
         /\ joined' \subseteq {order'[n] : n \in DOMAIN order' \ {1}}
         /\ whole' \subseteq Running' \ joined'
<1>1. /\ order' \in Seq(Run) /\ Len(order') = Len(rest) + 1
      /\ \A n \in 1..Len(rest) : order'[n] = rest[n]
      /\ order'[Len(rest) + 1] = r
  <2>1. order' = Append(rest, r)
    BY DEF Stamp
  <2> QED
    BY <2>1, AppendProperties
<1>2. Len(rest) \in Nat /\ DOMAIN order' = 1..(Len(rest) + 1)
  BY <1>1, LenProperties
<1>3. EachOnce'
  BY <1>1, <1>2 DEF EachOnce
<1>4. Running' = {rest[n] : n \in 1..Len(rest)} \union {r}
  <2>1. \A x \in Running' : x = r \/ \E n \in 1..Len(rest) : x = rest[n]
    BY <1>1, <1>2 DEF Running
  <2>2. r \in Running' /\ \A n \in 1..Len(rest) : rest[n] \in Running'
    BY <1>1, <1>2 DEF Running
  <2> QED
    BY <2>1, <2>2
<1>5. r \notin joined \ Split(r)
  BY DEF Split
<1>6. joined' \subseteq {order'[n] : n \in DOMAIN order' \ {1}}
  <2>1. ASSUME NEW x \in joined \ Split(r)
        PROVE  \E n \in DOMAIN order' \ {1} : x = order'[n]
    <3>1. PICK n \in 2..Len(rest) : x = rest[n]
      OBVIOUS
    <3>2. n \in DOMAIN order' \ {1} /\ order'[n] = x
      BY <1>1, <1>2, <3>1
    <3> QED
      BY <3>2
  <2>2. ASSUME rest # <<>>
        PROVE  \E n \in DOMAIN order' \ {1} : r = order'[n]
    <3>1. Len(rest) # 0
      BY <2>2, EmptySeq
    <3>2. Len(rest) + 1 \in DOMAIN order' \ {1}
      BY <1>2, <3>1
    <3> QED
      BY <1>1, <3>2
  <2> QED
    BY <2>1, <2>2 DEF Stamp
<1>7. whole' \subseteq Running' \ joined'
  BY <1>4, <1>5 DEF Stamp, Split
<1> QED
  BY <1>1, <1>3, <1>4, <1>6, <1>7

(* The cursor set to a run is at that run or before it.                     *)
LEMMA LeastOf ==
  ASSUME NEW T, T \subseteq Nat, T # {}
  PROVE  \E x \in T : \A y \in T : x <= y
<1>1. PICK x \in T : \A y \in T : ~ (<<y, x>> \in OpToRel(<, Nat))
  BY NatLessThanWellFounded, WFMin, Zenon
<1>2. \A y \in T : ~ (<<y, x>> \in {ss \in Nat \X Nat : ss[1] < ss[2]})
  BY <1>1, Zenon DEF OpToRel
<1>3. \A y \in T : ~ (y < x)
  BY <1>2
<1> QED
  BY <1>3

LEMMA FirstFacts ==
  ASSUME TypeOK, NEW n \in 1..Len(order)
  PROVE  FirstOf(n) \in 1..n /\ PlacesOf(n) \subseteq 0..n
<1>0. Len(order) \in Nat /\ DOMAIN order = 1..Len(order)
      /\ \A i, j \in 1..Len(order) : order[i] = order[j] => i = j
  BY OrderFacts
<1> DEFINE T == {d \in 0..(n - 1) : order[n - d] \notin joined}
<1>1. order[1] \notin joined
  <2> SUFFICES ASSUME order[1] \in joined
               PROVE  FALSE
    OBVIOUS
  <2>1. PICK m \in DOMAIN order \ {1} : order[1] = order[m]
    BY DEF TypeOK
  <2> QED
    BY <1>0, <2>1
<1>2. T \subseteq Nat /\ n - 1 \in T
  BY <1>0, <1>1
<1>3. PICK d \in T : \A e \in T : d <= e
  BY <1>2, LeastOf
<1>4. n - d \in 1..n /\ order[n - d] \notin joined
  BY <1>3
<1>5. ASSUME NEW k \in (n - d + 1)..n
      PROVE  order[k] \in joined
  <2>1. n - k \in 0..(n - 1) /\ n - k < d /\ n - (n - k) = k
    BY <1>3
  <2> QED
    BY <1>3, <2>1
<1>6. FirstOf(n) \in 1..n
  BY <1>4, <1>5 DEF FirstOf
<1>7. PlacesOf(n) \in {{FirstOf(n) - 1}, {FirstOf(n)}, {FirstOf(n) - 1, FirstOf(n)}}
  BY DEF PlacesOf
<1> QED
  BY <1>6, <1>7

--------------------------------------------------------------------------------
(* Init, and each action.                                                   *)

LEMMA InitInv == Init => IInv
<1> SUFFICES ASSUME Init
             PROVE  IInv
  OBVIOUS
<1>1. PICK n \in 0..Cardinality(Run) : order \in [1..n -> Run]
  BY DEF Init
<1>2. Cardinality(Run) \in Nat
  BY ConstantsAssumption, FS_CardinalityType
<1>3. n \in Nat
  BY <1>1, <1>2
<1>4. order \in Seq(Run)
  BY <1>1, <1>3, SeqDef
<1>5. Len(order) \in Nat /\ DOMAIN order = 1..Len(order)
  BY <1>4, LenProperties
<1>6. TypeOK
  <2>1. cursor \in 0..Len(order) /\ next \in 0..Len(order)
        /\ updates \in 0..MaxUpdates /\ faults \in 0..MaxFaults
    BY <1>5, ConstantsAssumption DEF Init
  <2>2. /\ EachOnce /\ ended \subseteq Running
        /\ joined \subseteq {order[k] : k \in DOMAIN order \ {1}}
        /\ whole \subseteq Running \ joined
        /\ page \subseteq Running /\ reached \subseteq Running
        /\ polling \in BOOLEAN /\ (~polling => page = {} /\ next = 0)
    BY DEF Init
  <2> QED
    BY <1>4, <2>1, <2>2 DEF TypeOK
<1>7. NothingSkipped
  BY DEF Init, NothingSkipped
<1> QED
  BY <1>6, <1>7 DEF IInv

LEMMA BeginsInv ==
  ASSUME IInv, NEW r \in Run, Begins(r)
  PROVE  IInv'
<1>0. /\ order \in Seq(Run) /\ Len(order) \in Nat /\ DOMAIN order = 1..Len(order)
      /\ \A m, n \in 1..Len(order) : order[m] = order[n] => m = n
      /\ Running = {order[n] : n \in 1..Len(order)}
  BY OrderFacts DEF IInv, TypeOK
<1>1. Stamp(r, order) /\ \A n \in 1..Len(order) : order[n] # r
  BY <1>0 DEF Begins
<1>2. (joined \ Split(r)) \subseteq {order[n] : n \in 2..Len(order)}
  BY <1>0 DEF IInv, TypeOK
<1>3. /\ whole \subseteq {order[n] : n \in 1..Len(order)} \union {r}
      /\ whole \intersect joined = {}
  BY <1>0 DEF IInv, TypeOK
<1>4. /\ order' \in Seq(Run) /\ Len(order') = Len(order) + 1
      /\ \A n \in 1..Len(order) : order'[n] = order[n]
      /\ EachOnce' /\ Running' = {order[n] : n \in 1..Len(order)} \union {r}
      /\ joined' \subseteq {order'[n] : n \in DOMAIN order' \ {1}}
      /\ whole' \subseteq Running' \ joined'
  BY <1>0, <1>1, <1>2, <1>3, StampFacts
<1>5. Running \subseteq Running'
  BY <1>0, <1>4
<1>6. updates' \in 0..MaxUpdates
  BY ConstantsAssumption DEF Begins, Update, IInv, TypeOK
<1>7. TypeOK'
  BY <1>0, <1>4, <1>5, <1>6 DEF Begins, IInv, TypeOK
<1>8. NothingSkipped'
  BY <1>0, <1>4 DEF Begins, IInv, TypeOK, NothingSkipped
<1> QED
  BY <1>7, <1>8 DEF IInv

(* The places keep what is before them when a run leaves the order.         *)
LEMMA LeaveFacts ==
  ASSUME IInv, NEW r \in Running, Leave(r), polling' = polling,
         Len(order') \in Nat, Len(order') >= Len(order) - 1,
         \A n \in 1..(Len(order) - 1) : order'[n] = Others(r)[n]
  PROVE  /\ cursor' \in 0..Len(order') /\ next' \in 0..Len(order')
         /\ next = 0 => next' = 0
         /\ reached' \subseteq Running \ {r}
         /\ NothingSkipped'
<1> DEFINE place == IF polling THEN next ELSE cursor
<1>0. TypeOK /\ Len(order) \in Nat /\ cursor \in 0..Len(order) /\ next \in 0..Len(order)
      /\ \A n \in 1..place : order[n] \in reached
  BY OrderFacts DEF IInv, TypeOK, NothingSkipped
<1>1. place \in 0..Len(order)
  BY <1>0
<1>2. (IF polling' THEN next' ELSE cursor') = Closed(place, r)
  BY DEF Leave
<1> HIDE DEF place
<1>3. /\ Closed(cursor, r) \in 0..(Len(order) - 1) /\ Closed(next, r) \in 0..(Len(order) - 1)
      /\ Closed(0, r) = 0 /\ Closed(place, r) \in 0..(Len(order) - 1)
      /\ \A n \in 1..Closed(place, r) : \E m \in 1..place : Others(r)[n] = order[m] /\ order[m] # r
  BY <1>0, <1>1, ClosedFacts
<1>4. ASSUME NEW n \in 1..Closed(place, r)
      PROVE  order'[n] \in reached'
  <2>1. PICK m \in 1..place : Others(r)[n] = order[m] /\ order[m] # r
    BY <1>3
  <2>2. n \in 1..(Len(order) - 1)
    BY <1>0, <1>3
  <2>3. order'[n] = order[m]
    BY <2>1, <2>2
  <2>4. order[m] \in reached
    BY <1>0, <2>1
  <2> QED
    BY <2>1, <2>3, <2>4 DEF Leave
<1>5. NothingSkipped'
  BY <1>2, <1>4 DEF NothingSkipped
<1>6. cursor' \in 0..Len(order') /\ next' \in 0..Len(order') /\ (next = 0 => next' = 0)
  BY <1>0, <1>3 DEF Leave
<1> QED
  BY <1>0, <1>5, <1>6 DEF Leave, TypeOK

LEMMA TouchedInv ==
  ASSUME IInv, NEW r \in Run, Touched(r)
  PROVE  IInv'
<1>0. TypeOK /\ r \in Running /\ Leave(r) /\ Stamp(r, Others(r)) /\ Len(order) \in Nat
      /\ Running = {order[n] : n \in 1..Len(order)}
  BY OrderFacts DEF IInv, Touched
<1>1. Len(order) >= 1
  BY <1>0
<1>2. Others(r) \in Seq(Run) /\ Len(Others(r)) = Len(order) - 1
  BY <1>0, OthersFacts
<1>3. /\ \A m, n \in 1..Len(Others(r)) : Others(r)[m] = Others(r)[n] => m = n
      /\ {Others(r)[n] : n \in 1..Len(Others(r))} = Running \ {r}
      /\ (joined \ Split(r)) \subseteq {Others(r)[n] : n \in 2..Len(Others(r))}
  BY <1>0, <1>2, StayFacts
<1>4. \A n \in 1..Len(Others(r)) : Others(r)[n] # r
  BY <1>3
<1>5. /\ whole \subseteq {Others(r)[n] : n \in 1..Len(Others(r))} \union {r}
      /\ whole \intersect joined = {}
  BY <1>0, <1>3 DEF TypeOK
<1>6. /\ order' \in Seq(Run) /\ Len(order') = Len(Others(r)) + 1
      /\ \A n \in 1..Len(Others(r)) : order'[n] = Others(r)[n]
      /\ EachOnce'
      /\ Running' = {Others(r)[n] : n \in 1..Len(Others(r))} \union {r}
      /\ joined' \subseteq {order'[n] : n \in DOMAIN order' \ {1}}
      /\ whole' \subseteq Running' \ joined'
  BY <1>0, <1>2, <1>3, <1>4, <1>5, StampFacts
<1>7. Running' = Running
  BY <1>0, <1>3, <1>6
<1>8. polling' = polling
  BY DEF Touched
<1>9. /\ cursor' \in 0..Len(order') /\ next' \in 0..Len(order')
      /\ next = 0 => next' = 0
      /\ reached' \subseteq Running \ {r}
      /\ NothingSkipped'
  BY <1>0, <1>1, <1>2, <1>6, <1>8, LeaveFacts
<1>10. updates' \in 0..MaxUpdates
  BY ConstantsAssumption DEF Touched, Update, IInv, TypeOK
<1>11. TypeOK'
  BY <1>0, <1>6, <1>7, <1>9, <1>10 DEF Touched, TypeOK
<1> QED
  BY <1>9, <1>11 DEF IInv

LEMMA SettleInv ==
  ASSUME IInv, NEW r \in Running, Settle(r), UNCHANGED <<polling, updates, faults>>
  PROVE  IInv'
<1>0. TypeOK /\ Leave(r) /\ order' = Others(r) /\ Len(order) \in Nat
      /\ Running = {order[n] : n \in 1..Len(order)}
  BY OrderFacts DEF IInv, Settle
<1>1. Len(order) >= 1
  BY <1>0
<1>2. order' \in Seq(Run) /\ Len(order') = Len(order) - 1
  BY <1>0, OthersFacts
<1>3. /\ \A m, n \in 1..Len(order') : order'[m] = order'[n] => m = n
      /\ {order'[n] : n \in 1..Len(order')} = Running \ {r}
      /\ (joined \ Split(r)) \subseteq {order'[n] : n \in 2..Len(order')}
  <2>1. order' = Others(r) /\ Len(order') = Len(order) - 1
    BY <1>0, <1>2
  <2>2. /\ \A m, n \in 1..(Len(order) - 1) : Others(r)[m] = Others(r)[n] => m = n
        /\ {Others(r)[n] : n \in 1..(Len(order) - 1)} = Running \ {r}
        /\ (joined \ Split(r)) \subseteq {Others(r)[n] : n \in 2..(Len(order) - 1)}
    BY <1>0, StayFacts
  <2>3. \A m, n \in 1..Len(order') : order'[m] = order'[n] => m = n
    BY <2>1, <2>2
  <2>4. {order'[n] : n \in 1..Len(order')} = Running \ {r}
    BY <2>1, <2>2
  <2>5. (joined \ Split(r)) \subseteq {order'[n] : n \in 2..Len(order')}
    BY <2>1, <2>2
  <2> QED
    BY <2>3, <2>4, <2>5
<1>4. DOMAIN order' = 1..Len(order') /\ Len(order') \in Nat
  BY <1>2, LenProperties
<1>5. EachOnce' /\ Running' = Running \ {r}
  BY <1>3, <1>4 DEF EachOnce, Running
<1>6. joined' \subseteq {order'[n] : n \in DOMAIN order' \ {1}}
  BY <1>3, <1>4 DEF Settle
<1>7. whole' \subseteq Running' \ joined'
  BY <1>0, <1>5 DEF Settle, TypeOK
<1>8. /\ cursor' \in 0..Len(order') /\ next' \in 0..Len(order')
      /\ next = 0 => next' = 0
      /\ reached' \subseteq Running \ {r}
      /\ NothingSkipped'
  BY <1>0, <1>1, <1>2, <1>4, LeaveFacts
<1>9. TypeOK'
  BY <1>0, <1>2, <1>5, <1>6, <1>7, <1>8 DEF Settle, TypeOK
<1> QED
  BY <1>8, <1>9 DEF IInv

LEMMA ListInv ==
  ASSUME IInv, List
  PROVE  IInv'
<1>0. TypeOK /\ Len(order) \in Nat /\ Running = {order[n] : n \in 1..Len(order)}
      /\ cursor \in 0..Len(order) /\ BatchSize \in Nat \ {0}
      /\ EachOnce' /\ Running' = Running
  BY OrderFacts, ConstantsAssumption DEF IInv, TypeOK, List, EachOnce, Running
<1>1. PageEnd \in 0..Len(order)
  BY <1>0 DEF PageEnd
<1>2. CASE PagePlaces = {}
  <2>1. cursor' = 0 /\ reached' = {}
        /\ UNCHANGED <<order, joined, whole, ended, polling, page, next, updates, faults>>
    BY <1>2 DEF List, Wrap
  <2>2. TypeOK'
    BY <1>0, <2>1 DEF TypeOK
  <2>3. NothingSkipped'
    BY <2>1 DEF List, NothingSkipped
  <2> QED
    BY <2>2, <2>3 DEF IInv
<1>3. CASE PagePlaces # {}
  <2>1. /\ polling' = TRUE /\ page' = {order[n] : n \in PagePlaces}
        /\ next' \in PlacesOf(PageEnd) /\ reached' = reached \union page'
        /\ UNCHANGED <<order, joined, whole, ended, cursor, updates, faults>>
    BY <1>3 DEF List
  <2>2. PageEnd \in 1..Len(order) /\ PagePlaces \subseteq 1..Len(order)
    BY <1>0, <1>1, <1>3 DEF PagePlaces
  <2>3. next' \in 0..PageEnd
    BY <1>0, <2>1, <2>2, FirstFacts
  <2>4. page' \subseteq Running
    BY <1>0, <2>1, <2>2
  <2>5. TypeOK'
    BY <1>0, <2>1, <2>2, <2>3, <2>4 DEF TypeOK
  <2>6. ASSUME NEW n \in 1..PageEnd
        PROVE  order[n] \in reached'
    <3>1. CASE n <= cursor
      <4>1. order[n] \in reached
        BY <1>0, <1>1, <3>1 DEF IInv, NothingSkipped, List
      <4> QED
        BY <2>1, <4>1
    <3>2. CASE ~(n <= cursor)
      <4>1. n \in PagePlaces
        BY <1>0, <1>1, <3>2 DEF PagePlaces
      <4> QED
        BY <2>1, <4>1
    <3> QED
      BY <3>1, <3>2
  <2>7. NothingSkipped'
    BY <1>1, <2>1, <2>2, <2>3, <2>6 DEF NothingSkipped
  <2> QED
    BY <2>5, <2>7 DEF IInv
<1> QED
  BY <1>2, <1>3

(* The actions that leave the order and the places as they are, and those that
   only move the places.                                                    *)
LEMMA SameOrder ==
  ASSUME TypeOK, UNCHANGED <<order, joined, whole>>
  PROVE  EachOnce' /\ Running' = Running /\ order' \in Seq(Run)
         /\ joined' \subseteq {order'[n] : n \in DOMAIN order' \ {1}}
         /\ whole' \subseteq Running' \ joined'
BY DEF TypeOK, EachOnce, Running

LEMMA PollInv ==
  ASSUME IInv, NEW r \in Run, PollRun(r)
  PROVE  IInv'
<1>1. CASE Settle(r) /\ UNCHANGED faults
  <2>1. r \in Running /\ UNCHANGED <<polling, updates, faults>>
    BY <1>1 DEF PollRun, IInv, TypeOK
  <2> QED
    BY <1>1, <2>1, SettleInv
<1>2. CASE ~(Settle(r) /\ UNCHANGED faults)
  <2>1. /\ page' = page \ {r}
        /\ UNCHANGED <<order, joined, whole, ended, cursor, next, reached, polling, updates>>
        /\ UNCHANGED faults \/ Fault
    BY <1>2 DEF PollRun
  <2>2. faults' \in 0..MaxFaults
    BY <2>1, ConstantsAssumption DEF Fault, IInv, TypeOK
  <2>3. TypeOK'
    BY <2>1, <2>2, SameOrder DEF IInv, TypeOK
  <2>4. NothingSkipped'
    BY <2>1 DEF IInv, NothingSkipped
  <2> QED
    BY <2>3, <2>4 DEF IInv
<1> QED
  BY <1>1, <1>2

LEMMA OtherInv ==
  ASSUME IInv,
         \/ \E r \in Run : ExecutionEnds(r)
         \/ ListFails \/ Advance \/ Restart \/ UNCHANGED vars
  PROVE  IInv'
<1>1. UNCHANGED <<order, joined, whole>> /\ (UNCHANGED faults \/ Fault)
  BY DEF ExecutionEnds, ListFails, Advance, Restart, vars
<1>2. faults' \in 0..MaxFaults
  BY <1>1, ConstantsAssumption DEF Fault, IInv, TypeOK
<1>3. EachOnce' /\ Running' = Running /\ order' \in Seq(Run)
      /\ joined' \subseteq {order'[n] : n \in DOMAIN order' \ {1}}
      /\ whole' \subseteq Running' \ joined'
  BY <1>1, SameOrder DEF IInv
<1>4. Len(order) \in Nat
  BY OrderFacts DEF IInv
<1>5. CASE \E r \in Run : ExecutionEnds(r)
  BY <1>2, <1>3, <1>5 DEF ExecutionEnds, IInv, TypeOK, NothingSkipped
<1>6. CASE ListFails
  BY <1>2, <1>3, <1>6 DEF ListFails, IInv, TypeOK, NothingSkipped
<1>7. CASE Advance
  <2>0. cursor' \in 0..Len(order') /\ next' \in 0..Len(order')
    BY <1>1, <1>4, <1>7 DEF Advance, IInv, TypeOK
  <2>1. TypeOK'
    BY <1>2, <1>3, <1>7, <2>0 DEF Advance, IInv, TypeOK
  <2>2. NothingSkipped'
    BY <1>7 DEF Advance, IInv, NothingSkipped
  <2> QED
    BY <2>1, <2>2 DEF IInv
<1>8. CASE Restart
  <2>1. cursor' \in 0..Len(order') /\ next' \in 0..Len(order')
    BY <1>1, <1>4, <1>8 DEF Restart
  <2>2. TypeOK'
    BY <1>2, <1>3, <1>8, <2>1 DEF Restart, IInv, TypeOK
  <2>3. NothingSkipped'
    BY <1>8 DEF Restart, NothingSkipped
  <2> QED
    BY <2>2, <2>3 DEF IInv
<1>9. CASE UNCHANGED vars
  BY <1>2, <1>3, <1>9 DEF vars, IInv, TypeOK, NothingSkipped
<1> QED
  BY <1>5, <1>6, <1>7, <1>8, <1>9

LEMMA NextInv == IInv /\ [Next]_vars => IInv'
<1> SUFFICES ASSUME IInv, [Next]_vars
             PROVE  IInv'
  OBVIOUS
<1>1. ASSUME NEW r \in Run, Ended(r)
      PROVE  IInv'
  BY <1>1, SettleInv DEF Ended
<1> QED
  BY <1>1, BeginsInv, TouchedInv, ListInv, PollInv, OtherInv DEF Next, Reconciling

--------------------------------------------------------------------------------
(* Theorems *)

(* The types and NothingSkipped hold in every reachable state of the walk
   (reconcileWorkflowRuns).                                                 *)
THEOREM Inductive == Spec => []IInv
BY InitInv, NextInv, PTL DEF Spec

(* The cursor and the page are places and runs of the order the walk reads
   (listRuns).                                                              *)
THEOREM TypeCorrect == Spec => []TypeOK
<1>1. IInv => TypeOK
  BY DEF IInv
<1> QED
  BY <1>1, Inductive, PTL

(* Every running run that the cursor has behind it was listed at its present
   place, whatever left, began or moved between the listing of a page and the
   cursor stored for it (listRuns, Ref.set).                                *)
THEOREM NothingPassedOver == Spec => []NothingSkipped
<1>1. IInv => NothingSkipped
  BY DEF IInv
<1> QED
  BY <1>1, Inductive, PTL

================================================================================
