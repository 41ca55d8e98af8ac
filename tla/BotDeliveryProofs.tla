--------------------------- MODULE BotDeliveryProofs ---------------------------
(***************************************************************************)
(* Proofs about BotDelivery, for any requests, Recovery Commands and       *)
(* bounds.                                                                 *)
(*                                                                         *)
(* A request that may still reach Discord, or give its reservation back,   *)
(* holds a ticket.  A reservation that is free is a ticket nobody holds;   *)
(* only a Recovery Command that releases one for a retry adds a ticket.    *)
(* As long as no command is mistaken about what it releases, the holder of *)
(* a ticket and the reservation in the store are one and the same.         *)
(***************************************************************************)
EXTENDS BotDelivery, FiniteSetTheorems, TLAPS

Unreserved == {"idle", "reserve", "read", "claim"}
Ticketed == {"mark", "effect", "release", "remove"}
Holding == {"mark", "effect", "release", "remove", "complete", "blur"}

Free(rec) == rec.state \in {"absent", "retryable"}
Tickets == applied \union {k \in Call : call[k].pc \in Ticketed}
TicketInv ==
  /\ IsFiniteSet(granted)
  /\ Cardinality(Tickets) + (IF Free(record) THEN 1 ELSE 0) <= 1 + Cardinality(granted)

(* What a request knows of its own write and reservation.                   *)
Answered(k) ==
  /\ record.state = "completed"
  /\ record.receipt = call[k].receipt
  /\ call[k].receipt \in applied
  /\ staleGrant \/ record.input = InputOf[k]
CallInv(k) ==
  /\ call[k].pc \in Unreserved => k \notin applied /\ record.id # k
  /\ call[k].pc \in Ticketed => k \notin applied
  /\ call[k].pc \in {"complete", "recheck"} => k \in applied
  /\ call[k].pc \in Holding => call[k].held = Pending(k, call[k].held.note)
  /\ call[k].pc = "claim" => call[k].held.state = "retryable"
  /\ call[k].pc = "clear" \/ call[k].result = "receipt" => Answered(k)
  /\ call[k].result = "receipt" => call[k].pc = "done"

(* What a Recovery Command found out stays true.                            *)
OpInv(o) ==
  /\ op[o].resolution = "Confirmed" => op[o].receipt \in applied
  /\ op[o].resolution = "SafeRetry" =>
       /\ op[o].about \notin applied
       /\ op[o].about \in Call => call[op[o].about].pc = "done"
  /\ op[o].pc \in {"mark", "write"} => Unresolved(op[o].seen)
  /\ o \in granted => op[o].pc \in {"clear", "done"}

RecordInv ==
  /\ record.state = "completed" => record.receipt \in applied
  /\ record.id \in Call => record.input = InputOf[record.id]

SafeInv ==
  ~staleGrant =>
    /\ \A k \in Call : call[k].pc \in Ticketed => record.state = "pending" /\ record.id = k
    /\ \A a \in applied : record.state = "completed" \/ record.id = a
    /\ \A a \in applied : a \in Call => record.input = InputOf[a]
    /\ \A a, b \in applied : a = b

Core ==
  /\ RecordInv /\ SafeInv /\ TicketInv
  /\ \A k \in Call : CallInv(k)
  /\ \A o \in Operator : OpInv(o)

IInv == TypeOK /\ Core

--------------------------------------------------------------------------------
(* The initial state.                                                       *)
RecordType(rec) ==
  /\ rec \in Record
  /\ rec.state = "absent" <=> rec = NoRecord
  /\ Unresolved(rec) <=> rec.id # None
  /\ rec.state = "completed" <=> rec.receipt # None
  /\ rec.state = "retryable" => rec.note # None

LEMMA NoRecordType == RecordType(NoRecord)
  BY DEF RecordType, NoRecord, Record, Unresolved

LEMMA PendingType ==
  ASSUME NEW k \in Call, NEW note \in Operator \union {None}
  PROVE  /\ RecordType(Pending(k, note)) /\ Pending(k, note).state = "pending"
         /\ Pending(k, note).id = k /\ Pending(k, note).input = InputOf[k]
         /\ Pending(k, note).note = note /\ ~Free(Pending(k, note))
  BY ConstantsAssumption
     DEF RecordType, Pending, NoRecord, Record, Unresolved, Origin, Input, Free

(* What TypeOK says of the record, and where it is free.                    *)
LEMMA RecordFacts ==
  ASSUME TypeOK
  PROVE  /\ RecordType(record)
         /\ Free(record) => record.id = None /\ record.state # "completed"
         /\ Unresolved(record) => ~Free(record) /\ record.state # "completed"
         /\ record.id # None => Unresolved(record)
  BY DEF TypeOK, RecordType, Free, Unresolved

LEMMA InitInv == Init => IInv
<1> SUFFICES ASSUME Init
             PROVE  IInv
  OBVIOUS
<1> USE ConstantsAssumption
<1>1. /\ applied \subseteq {Legacy} /\ granted = {} /\ staleGrant = FALSE
      /\ \A k \in Call : call[k] = [pc |-> "idle", attempt |-> 1, held |-> NoRecord,
                                   result |-> "none", receipt |-> None]
      /\ \A o \in Operator :
           op[o] = [pc |-> "idle", resolution |-> "Unresolved", about |-> None,
                    receipt |-> None, attempt |-> 1, seen |-> NoRecord]
  BY DEF Init
<1>2. \/ record = NoRecord /\ applied = {}
      \/ /\ record.state = "pending" /\ record.id = Legacy
         /\ \E k \in Call : record = [Pending(k, None) EXCEPT !.id = Legacy]
  BY DEF Init, Pending
<1>3. RecordType(record)
  <2>1. CASE record = NoRecord
    BY <2>1, NoRecordType
  <2>2. CASE \E k \in Call : record = [Pending(k, None) EXCEPT !.id = Legacy]
    BY <2>2 DEF RecordType, Pending, NoRecord, Record, Unresolved, Origin, Input
  <2> QED
    BY <1>2, <2>1, <2>2
<1>4. TypeOK
  <2>1. call \in [Call -> Request]
    BY NoRecordType DEF Init, Request, Origin, RecordType
  <2>2. op \in [Operator -> Recovery]
    BY NoRecordType DEF Init, Recovery, Origin, RecordType
  <2>3. /\ marker \in BOOLEAN /\ aged \subseteq Origin
        /\ scan \in {"backfill", "mark", "idle", "remove"}
        /\ faults \in 0..MaxFaults
    <3>1. marker = FALSE /\ aged = {Legacy} /\ scan = "backfill" /\ faults = 0
      BY DEF Init
    <3>2. aged \subseteq Origin
      BY <3>1 DEF Origin
    <3>3. faults \in 0..MaxFaults
      BY <3>1
    <3> QED
      BY <3>1, <3>2, <3>3, Zenon
  <2> QED
    BY <1>1, <1>3, <2>1, <2>2, <2>3 DEF TypeOK, RecordType, Origin
<1>5. TicketInv
  <2>1. Tickets = applied
    BY <1>1 DEF Tickets, Ticketed
  <2>2. Cardinality(granted) = 0 /\ IsFiniteSet(granted)
    BY <1>1, FS_EmptySet
  <2>3. CASE applied = {}
    <3>1. Cardinality(Tickets) = 0
      BY <2>1, <2>3, FS_EmptySet
    <3> QED
      BY <2>2, <3>1 DEF TicketInv
  <2>4. CASE applied = {Legacy} /\ record.state = "pending"
    <3>1. Cardinality(Tickets) = 1
      BY <2>1, <2>4, FS_Singleton
    <3> QED
      BY <2>2, <2>4, <3>1 DEF TicketInv, Free
  <2> QED
    BY <1>1, <1>2, <2>3, <2>4
<1>6. \A k \in Call : CallInv(k)
  <2> SUFFICES ASSUME NEW k \in Call
               PROVE  CallInv(k)
    OBVIOUS
  <2>1. k # Legacy /\ k # None
    BY DEF Origin
  <2>2. call[k].pc = "idle" /\ call[k].result = "none"
    BY <1>1
  <2>3. k \notin applied /\ record.id # k
    BY <1>1, <1>2, <2>1 DEF NoRecord
  <2> QED
    BY <2>2, <2>3 DEF CallInv, Ticketed, Holding
<1>7. \A o \in Operator : OpInv(o)
  BY <1>1 DEF OpInv
<1>8. SafeInv /\ RecordInv
  <2>1. /\ record.state # "completed" /\ record.id \notin Call
        /\ applied = {} \/ record.id = Legacy
    BY <1>2 DEF NoRecord, Origin
  <2>2. \A a \in applied : a = Legacy /\ a \notin Call
    BY <1>1 DEF Origin
  <2>3. \A k \in Call : call[k].pc \notin Ticketed
    BY <1>1 DEF Ticketed
  <2> QED
    BY <2>1, <2>2, <2>3 DEF SafeInv, RecordInv
<1> QED
  BY <1>4, <1>5, <1>6, <1>7, <1>8 DEF IInv, Core

--------------------------------------------------------------------------------
(* The four things a step can do to the reservation.                        *)

(* Nothing: requests move, and some reach Discord.                          *)
LEMMA Kept ==
  ASSUME IInv, UNCHANGED <<record, granted, staleGrant>>,
         applied \subseteq applied', applied' \subseteq applied \union Call,
         \A k \in applied' \ applied : call[k].pc = "effect" /\ call'[k].pc \notin Ticketed,
         \A k \in Call : call'[k].pc \in Ticketed => call[k].pc \in Ticketed,
         \A k \in Call : call[k].pc = "done" => call'[k].pc = "done",
         \A k \in Call : call'[k] = call[k] \/ CallInv(k)',
         \A o \in Operator : op'[o] = op[o] \/ OpInv(o)'
  PROVE  Core'
<1>0. TypeOK /\ Core
  BY DEF IInv
<1>1. RecordInv'
  BY <1>0 DEF Core, RecordInv
<1>2. TicketInv'
  <2>1. Tickets' \subseteq Tickets
    BY DEF Tickets, Ticketed
  <2>2. IsFiniteSet(Tickets)
    <3>1. IsFiniteSet(Call \union {Legacy}) /\ Tickets \subseteq Call \union {Legacy}
      BY <1>0, ConstantsAssumption, FS_AddElement DEF Tickets, TypeOK, Origin
    <3> QED
      BY <3>1, FS_Subset
  <2>3. /\ Cardinality(Tickets') <= Cardinality(Tickets)
        /\ Cardinality(Tickets') \in Nat /\ Cardinality(Tickets) \in Nat
    BY <2>1, <2>2, FS_Subset, FS_CardinalityType
  <2>4. Cardinality(granted) \in Nat
    BY <1>0, FS_CardinalityType DEF Core, TicketInv
  <2> QED
    BY <1>0, <2>3, <2>4 DEF Core, TicketInv
<1>3. SafeInv'
  <2> SUFFICES ASSUME ~staleGrant
               PROVE  SafeInv'
    BY DEF SafeInv
  <2>1. \A k \in Call :
          call'[k].pc \in Ticketed => record'.state = "pending" /\ record'.id = k
    BY <1>0 DEF Core, SafeInv
  <2>2. \A a \in applied' \ applied : /\ record.id = a /\ record.state = "pending"
                                      /\ record.input = InputOf[a]
    BY <1>0 DEF Core, SafeInv, RecordInv, Ticketed
  <2>3. \A a \in applied : /\ record.state = "completed" \/ record.id = a
                           /\ a \in Call => record.input = InputOf[a]
    BY <1>0 DEF Core, SafeInv
  <2>4. \A a, b \in applied' : a = b
    BY <1>0, <2>2, <2>3 DEF Core, SafeInv
  <2>5. \A a \in applied' : /\ record'.state = "completed" \/ record'.id = a
                            /\ a \in Call => record'.input = InputOf[a]
    BY <2>2, <2>3
  <2> QED
    BY <2>1, <2>4, <2>5 DEF SafeInv
<1>4. \A k \in Call : CallInv(k)'
  <2> SUFFICES ASSUME NEW k \in Call, call'[k] = call[k]
               PROVE  CallInv(k)'
    OBVIOUS
  <2>1. CallInv(k) /\ (k \in applied' => k \in applied \/ call[k].pc = "effect")
    BY <1>0 DEF Core
  <2>2. call[k].pc = "effect" => k \notin applied' \ applied
    BY DEF Ticketed
  <2> QED
    BY <2>1, <2>2 DEF CallInv, Answered, Unreserved
<1>5. \A o \in Operator : OpInv(o)'
  <2> SUFFICES ASSUME NEW o \in Operator, op'[o] = op[o]
               PROVE  OpInv(o)'
    OBVIOUS
  <2>1. OpInv(o) /\ op[o].about \in Origin \union {None}
    BY <1>0 DEF Core, TypeOK, Recovery
  <2> QED
    BY <2>1 DEF OpInv
<1> QED
  BY <1>1, <1>2, <1>3, <1>4, <1>5 DEF Core

(* A request takes the reservation that was free.                           *)
LEMMA Taken ==
  ASSUME IInv, NEW k \in Call, NEW note \in Operator \union {None},
         call[k].pc \in {"reserve", "claim"}, Free(record), record' = Pending(k, note),
         UNCHANGED <<op, applied, granted, staleGrant>>,
         \A j \in Call \ {k} : call'[j] = call[j],
         call'[k].pc \in {"mark", "done"}, CallInv(k)'
  PROVE  Core'
<1>0. TypeOK /\ Core
  BY DEF IInv
<1>1. /\ record.id = None /\ record.state \notin {"pending", "completed"}
      /\ record'.state = "pending" /\ record'.id = k /\ record'.input = InputOf[k]
      /\ ~Free(record')
  BY <1>0, RecordFacts, PendingType DEF Free
<1>2. RecordInv'
  BY <1>1 DEF RecordInv
<1>3. TicketInv'
  <2>1. Tickets' \subseteq Tickets \union {k}
    BY DEF Tickets
  <2>2. IsFiniteSet(Tickets)
    <3>1. IsFiniteSet(Call \union {Legacy}) /\ Tickets \subseteq Call \union {Legacy}
      BY <1>0, ConstantsAssumption, FS_AddElement DEF Tickets, TypeOK, Origin
    <3> QED
      BY <3>1, FS_Subset
  <2>3. /\ IsFiniteSet(Tickets \union {k}) /\ Cardinality(Tickets) \in Nat
        /\ Cardinality(Tickets \union {k}) <= Cardinality(Tickets) + 1
        /\ Cardinality(Tickets \union {k}) \in Nat
    <3>1. /\ IsFiniteSet(Tickets \union {k}) /\ Cardinality(Tickets) \in Nat
          /\ Cardinality(Tickets \union {k}) =
               IF k \in Tickets THEN Cardinality(Tickets) ELSE Cardinality(Tickets) + 1
      BY <2>2, FS_AddElement, FS_CardinalityType
    <3> QED
      BY <3>1
  <2>4. Cardinality(Tickets') <= Cardinality(Tickets) + 1 /\ Cardinality(Tickets') \in Nat
    BY <2>1, <2>3, FS_Subset, FS_CardinalityType
  <2>5. Cardinality(granted) \in Nat
    BY <1>0, FS_CardinalityType DEF Core, TicketInv
  <2> QED
    BY <1>0, <1>1, <2>3, <2>4, <2>5 DEF Core, TicketInv
<1>4. SafeInv'
  <2> SUFFICES ASSUME ~staleGrant
               PROVE  SafeInv'
    BY DEF SafeInv
  <2>1. applied = {}
    BY <1>0, <1>1, ConstantsAssumption DEF Core, SafeInv, TypeOK, Origin
  <2>2. \A j \in Call \ {k} : call'[j].pc \notin Ticketed
    BY <1>0, <1>1 DEF Core, SafeInv
  <2> QED
    BY <1>1, <2>1, <2>2 DEF SafeInv
<1>5. \A j \in Call \ {k} : CallInv(j)'
  BY <1>0, <1>1 DEF Core, CallInv, Answered
<1>6. \A o \in Operator : OpInv(o)'
  <2> SUFFICES ASSUME NEW o \in Operator
               PROVE  OpInv(o)'
    OBVIOUS
  <2>1. OpInv(o)
    BY <1>0 DEF Core
  <2> QED
    BY <2>1 DEF OpInv
<1> QED
  BY <1>2, <1>3, <1>4, <1>5, <1>6 DEF Core

(* The holder of the reservation resolves it, records that it cannot, or gives
   it back.                                                                 *)
LEMMA Settled ==
  ASSUME IInv, NEW k \in Call, call[k].pc \in {"complete", "blur", "remove", "release"},
         record = call[k].held, record' = Stored(k),
         UNCHANGED <<op, applied, granted, staleGrant>>,
         \A j \in Call \ {k} : call'[j] = call[j],
         call'[k].pc \in {"clear", "clearRemoved", "done"}, CallInv(k)'
  PROVE  Core'
<1>0. TypeOK /\ Core /\ CallInv(k)
  BY DEF IInv, Core
<1>1. record.state = "pending" /\ record.id = k /\ ~Free(record)
  BY <1>0 DEF CallInv, Holding, Pending, Free
<1>2. \/ /\ call[k].pc = "complete" /\ record'.state = "completed" /\ record'.id = None
         /\ record'.receipt = k /\ record'.input = InputOf[k]
      \/ /\ call[k].pc = "blur" /\ record'.state = "ambiguous" /\ record'.id = k
         /\ record'.input = InputOf[k]
      \/ /\ call[k].pc \in {"remove", "release"} /\ record'.state = "absent"
         /\ record'.id = None
  BY DEF Stored, Swapped, CompletedRecord, AmbiguousRecord, NoRecord
<1>3. RecordInv'
  BY <1>0, <1>2, ConstantsAssumption DEF RecordInv, CallInv, Origin
<1>4. TicketInv'
  <2>1. IsFiniteSet(Tickets)
    <3>1. IsFiniteSet(Call \union {Legacy}) /\ Tickets \subseteq Call \union {Legacy}
      BY <1>0, ConstantsAssumption, FS_AddElement DEF Tickets, TypeOK, Origin
    <3> QED
      BY <3>1, FS_Subset
  <2>2. /\ Cardinality(Tickets) \in Nat /\ IsFiniteSet(Tickets \ {k})
        /\ Cardinality(Tickets \ {k}) =
             IF k \in Tickets THEN Cardinality(Tickets) - 1 ELSE Cardinality(Tickets)
        /\ Cardinality(granted) \in Nat
    BY <1>0, <2>1, FS_RemoveElement, FS_CardinalityType DEF Core, TicketInv
  <2>3. CASE call[k].pc \in {"remove", "release"}
    <3>1. k \in Tickets /\ k \notin applied
      BY <1>0, <2>3 DEF Tickets, Ticketed, CallInv
    <3>2. Tickets' \subseteq Tickets \ {k}
      BY <3>1 DEF Tickets, Ticketed
    <3>3. Cardinality(Tickets') <= Cardinality(Tickets) - 1 /\ Cardinality(Tickets') \in Nat
      BY <2>2, <3>1, <3>2, FS_Subset, FS_CardinalityType
    <3> QED
      BY <1>0, <1>1, <2>2, <3>3 DEF Core, TicketInv
  <2>4. CASE call[k].pc \notin {"remove", "release"}
    <3>1. Tickets' \subseteq Tickets
      BY DEF Tickets, Ticketed
    <3>2. Cardinality(Tickets') <= Cardinality(Tickets) /\ Cardinality(Tickets') \in Nat
      BY <2>1, <3>1, FS_Subset, FS_CardinalityType
    <3>3. ~Free(record')
      BY <1>2, <2>4 DEF Free
    <3> QED
      BY <1>0, <1>1, <2>2, <3>2, <3>3 DEF Core, TicketInv
  <2> QED
    BY <2>3, <2>4
<1>5. SafeInv'
  <2> SUFFICES ASSUME ~staleGrant
               PROVE  SafeInv'
    BY DEF SafeInv
  <2>1. \A a \in applied : a = k /\ call[k].pc \in {"complete", "blur"}
    BY <1>0, <1>1 DEF Core, SafeInv, CallInv, Ticketed
  <2>2. \A j \in Call : call'[j].pc \notin Ticketed
    BY <1>0, <1>1 DEF Core, SafeInv, Ticketed
  <2> QED
    BY <1>2, <2>1, <2>2 DEF SafeInv
<1>6. \A j \in Call \ {k} : CallInv(j)'
  <2> SUFFICES ASSUME NEW j \in Call \ {k}
               PROVE  CallInv(j)'
    OBVIOUS
  <2>1. CallInv(j) /\ record'.id # j
    BY <1>0, <1>2, ConstantsAssumption DEF Core, Origin
  <2> QED
    BY <1>1, <2>1 DEF CallInv, Answered
<1>7. \A o \in Operator : OpInv(o)'
  <2> SUFFICES ASSUME NEW o \in Operator
               PROVE  OpInv(o)'
    OBVIOUS
  <2>1. OpInv(o)
    BY <1>0 DEF Core
  <2> QED
    BY <2>1 DEF OpInv
<1> QED
  BY <1>3, <1>4, <1>5, <1>6, <1>7 DEF Core

(* A Recovery Command writes its verdict over the reservation it read.      *)
LEMMA Reconciled ==
  ASSUME IInv, NEW o \in Operator, op[o].pc = "write", Reconcilable(o), Reconcile(o),
         UNCHANGED <<call, applied>>,
         \A p \in Operator \ {o} : op'[p] = op[p],
         op'[o].pc \in {"clear", "done"},
         /\ op'[o].resolution = op[o].resolution /\ op'[o].about = op[o].about
         /\ op'[o].receipt = op[o].receipt
  PROVE  Core'
<1>0. TypeOK /\ Core /\ OpInv(o) /\ op[o] \in Recovery
  BY DEF IInv, Core, TypeOK
<1>1. /\ record = op[o].seen /\ Unresolved(record) /\ record.state # "completed"
      /\ ~Free(record) /\ record' = ReconciledRecord(o)
  BY <1>0, RecordFacts DEF OpInv, Reconcilable, Reconcile
<1>2. \/ /\ op[o].resolution = "Unresolved" /\ record'.state = record.state
         /\ record'.id = record.id /\ record'.input = record.input
      \/ /\ op[o].resolution = "Confirmed" /\ record'.state = "completed"
         /\ record'.id = None /\ record'.input = record.input
         /\ record'.receipt = op[o].receipt
      \/ /\ op[o].resolution = "SafeRetry" /\ record'.state = "retryable"
         /\ record'.id = None /\ record'.input = record.input
  BY <1>0, <1>1 DEF ReconciledRecord, Recovery
<1>3. /\ granted' = IF op[o].resolution = "SafeRetry" THEN granted \union {o} ELSE granted
      /\ ~staleGrant' => /\ ~staleGrant
                         /\ op[o].resolution = "SafeRetry" => record.id = op[o].about
  BY <1>0, <1>1 DEF Reconcile, TypeOK
<1>4. RecordInv'
  BY <1>0, <1>1, <1>2, ConstantsAssumption DEF RecordInv, Core, OpInv, Origin
<1>5. TicketInv'
  <2>1. Tickets' = Tickets
    BY DEF Tickets
  <2>2. /\ Cardinality(granted) \in Nat /\ IsFiniteSet(granted)
        /\ Cardinality(Tickets) \in Nat
        /\ Cardinality(Tickets) <= 1 + Cardinality(granted)
    <3>1. IsFiniteSet(Tickets)
      <4>1. IsFiniteSet(Call \union {Legacy}) /\ Tickets \subseteq Call \union {Legacy}
        BY <1>0, ConstantsAssumption, FS_AddElement DEF Tickets, TypeOK, Origin
      <4> QED
        BY <4>1, FS_Subset
    <3>2. Cardinality(granted) \in Nat /\ Cardinality(Tickets) \in Nat
      BY <1>0, <3>1, FS_CardinalityType DEF Core, TicketInv
    <3> QED
      BY <1>0, <1>1, <3>2 DEF Core, TicketInv
  <2>3. CASE op[o].resolution = "SafeRetry"
    <3>1. o \notin granted
      BY <1>0 DEF OpInv
    <3>2. /\ IsFiniteSet(granted') /\ Cardinality(granted') = Cardinality(granted) + 1
      BY <1>3, <2>2, <2>3, <3>1, FS_AddElement
    <3> QED
      BY <2>1, <2>2, <3>2 DEF TicketInv
  <2>4. CASE op[o].resolution # "SafeRetry"
    <3>1. ~Free(record') /\ granted' = granted
      BY <1>1, <1>2, <1>3, <2>4 DEF Free
    <3> QED
      BY <1>0, <1>1, <2>1, <3>1 DEF Core, TicketInv
  <2> QED
    BY <2>3, <2>4
<1>6. SafeInv'
  <2> SUFFICES ASSUME ~staleGrant'
               PROVE  SafeInv'
    BY DEF SafeInv
  <2>1. \A a \in applied : record.id = a /\ (a \in Call => record.input = InputOf[a])
    BY <1>0, <1>1, <1>3 DEF Core, SafeInv
  <2>2. \A k \in Call : call[k].pc \in Ticketed => /\ record.state = "pending" /\ record.id = k
                                                   /\ k \notin applied
    BY <1>0, <1>3 DEF Core, SafeInv, CallInv
  <2>3. CASE op[o].resolution = "Unresolved"
    BY <1>2, <2>1, <2>2, <2>3 DEF SafeInv
  <2>4. CASE op[o].resolution = "Confirmed"
    <3>1. \A k \in Call : call[k].pc \notin Ticketed
      BY <1>0, <2>1, <2>2, <2>4 DEF OpInv
    <3> QED
      BY <1>2, <2>1, <2>4, <3>1 DEF SafeInv
  <2>5. CASE op[o].resolution = "SafeRetry"
    <3>1. applied = {}
      BY <1>0, <1>3, <2>1, <2>5 DEF OpInv
    <3>2. \A k \in Call : call[k].pc \notin Ticketed
      BY <1>0, <1>3, <2>2, <2>5 DEF OpInv, Ticketed
    <3> QED
      BY <3>1, <3>2 DEF SafeInv
  <2> QED
    BY <1>2, <2>3, <2>4, <2>5
<1>7. \A k \in Call : CallInv(k)'
  <2> SUFFICES ASSUME NEW k \in Call
               PROVE  CallInv(k)'
    OBVIOUS
  <2>1. CallInv(k) /\ (record.id # k => record'.id # k)
    BY <1>0, <1>2, ConstantsAssumption DEF Core, Origin
  <2> QED
    BY <1>1, <2>1 DEF CallInv, Answered
<1>8. \A p \in Operator : OpInv(p)'
  <2>1. OpInv(o)'
    BY <1>0 DEF OpInv
  <2>2. ASSUME NEW p \in Operator \ {o}
        PROVE  OpInv(p)'
    <3>1. OpInv(p) /\ (p \in granted' => p \in granted)
      BY <1>0, <1>3 DEF Core
    <3> QED
      BY <3>1 DEF OpInv
  <2> QED
    BY <2>1, <2>2
<1> QED
  BY <1>4, <1>5, <1>6, <1>7, <1>8 DEF Core

--------------------------------------------------------------------------------
(* The step of one request, or of one Recovery Command.                     *)
CallMoved(k) ==
  call' \in [Call -> Request] /\ \A j \in Call \ {k} : call'[j] = call[j]
OpMoved(o) ==
  op' \in [Operator -> Recovery] /\ \A p \in Operator \ {o} : op'[p] = op[p]
RequestPc ==
  {"idle", "reserve", "read", "claim", "mark", "release", "effect", "complete",
   "recheck", "clear", "remove", "clearRemoved", "blur", "done"}
RequestResult ==
  {"none", "rejected", "unavailable", "changed", "failed", "error", "interrupted", "receipt"}

LEMMA GotoFacts ==
  ASSUME TypeOK, NEW k \in Call, NEW pc \in RequestPc, Goto(k, pc)
  PROVE  /\ CallMoved(k) /\ call'[k].pc = pc /\ call'[k].held = call[k].held
         /\ call'[k].result = call[k].result /\ call'[k].receipt = call[k].receipt
  BY DEF TypeOK, Goto, CallMoved, Request, RequestPc

LEMMA HoldFacts ==
  ASSUME TypeOK, NEW k \in Call, NEW pc \in RequestPc, NEW rec \in Record, Hold(k, pc, rec)
  PROVE  /\ CallMoved(k) /\ call'[k].pc = pc /\ call'[k].held = rec
         /\ call'[k].result = call[k].result /\ call'[k].receipt = call[k].receipt
<1>1. call \in [Call -> Request]
  BY DEF TypeOK
<1>2. /\ call'[k] = [call[k] EXCEPT !.pc = pc, !.held = rec]
      /\ \A j \in Call \ {k} : call'[j] = call[j]
      /\ call' = [j \in Call |-> call'[j]]
  BY <1>1 DEF Hold
<1>3. call'[k] \in Request
  BY <1>1, <1>2 DEF Request, RequestPc
<1>4. call' \in [Call -> Request]
  BY <1>1, <1>2, <1>3
<1> QED
  BY <1>1, <1>2, <1>4 DEF CallMoved, Request

LEMMA ReturnFacts ==
  ASSUME TypeOK, NEW k \in Call, NEW result \in RequestResult,
         NEW receipt \in Origin \union {None}, Return(k, result, receipt)
  PROVE  /\ CallMoved(k) /\ call'[k].pc = "done"
         /\ call'[k].result = result /\ call'[k].receipt = receipt
<1>1. NoRecord \in Record /\ 1 \in 1..Attempts
  BY NoRecordType, ConstantsAssumption DEF RecordType
<1> QED
  BY <1>1 DEF TypeOK, Return, CallMoved, Request, RequestResult

(* A request that fails knows nothing.                                      *)
LEMMA FailFacts ==
  ASSUME TypeOK, NEW k \in Call, NEW result \in RequestResult \ {"receipt"}, Fail(k, result)
  PROVE  CallMoved(k) /\ call'[k].pc = "done" /\ call'[k].result # "receipt" /\ CallInv(k)'
<1>1. CallMoved(k) /\ call'[k].pc = "done" /\ call'[k].result = result
  BY ReturnFacts DEF Fail
<1> QED
  BY <1>1 DEF CallInv, Unreserved, Ticketed, Holding

LEMMA TryAgainFacts ==
  ASSUME TypeOK, NEW k \in Call, TryAgain(k)
  PROVE  /\ CallMoved(k)
         /\ \/ call'[k].pc = "done" /\ call'[k].result # "receipt" /\ CallInv(k)'
            \/ /\ call'[k].pc = "reserve" /\ call'[k].result = call[k].result
               /\ call'[k].receipt = call[k].receipt
<1>1. CASE call[k].attempt < Attempts
  BY <1>1, ConstantsAssumption DEF TryAgain, TypeOK, CallMoved, Request
<1>2. CASE ~(call[k].attempt < Attempts)
  BY <1>2, FailFacts DEF TryAgain, RequestResult
<1> QED
  BY <1>1, <1>2

LEMMA FinishFacts ==
  ASSUME TypeOK, NEW o \in Operator, Finish(o)
  PROVE  /\ OpMoved(o) /\ op'[o].pc = "done" /\ op'[o].resolution = op[o].resolution
         /\ op'[o].about = op[o].about /\ op'[o].receipt = op[o].receipt
<1>1. NoRecord \in Record /\ 1 \in 1..Attempts
  BY NoRecordType, ConstantsAssumption DEF RecordType
<1> QED
  BY <1>1 DEF TypeOK, Finish, OpMoved, Recovery

LEMMA GotoOpFacts ==
  ASSUME TypeOK, NEW o \in Operator,
         NEW pc \in {"read", "mark", "write", "clear", "done"}, GotoOp(o, pc)
  PROVE  /\ OpMoved(o) /\ op'[o].pc = pc /\ op'[o].resolution = op[o].resolution
         /\ op'[o].about = op[o].about /\ op'[o].receipt = op[o].receipt
         /\ op'[o].seen = op[o].seen
  BY DEF TypeOK, GotoOp, OpMoved, Recovery

LEMMA FaultType ==
  ASSUME TypeOK, Fault
  PROVE  faults' \in 0..MaxFaults
  BY ConstantsAssumption DEF TypeOK, Fault

LEMMA TypeFrame ==
  ASSUME RecordType(record'), marker' \in BOOLEAN, call' \in [Call -> Request],
         op' \in [Operator -> Recovery], aged' \subseteq Origin,
         scan' \in {"backfill", "mark", "idle", "remove"}, applied' \subseteq Origin,
         granted' \subseteq Operator, staleGrant' \in BOOLEAN, faults' \in 0..MaxFaults
  PROVE  TypeOK'
  BY DEF TypeOK, RecordType

(* A request moves, and the reservation stays.                              *)
LEMMA RequestMoves ==
  ASSUME IInv, NEW k \in Call, UNCHANGED <<record, op, applied, granted, staleGrant>>,
         \A j \in Call \ {k} : call'[j] = call[j],
         call'[k].pc \in Ticketed => call[k].pc \in Ticketed,
         call[k].pc = "done" => call'[k].pc = "done",
         CallInv(k)'
  PROVE  Core'
<1>1. \A j \in Call : call'[j] = call[j] \/ j = k
  OBVIOUS
<1> QED
  BY <1>1, Kept

(* A Recovery Command moves, and the reservation stays.                     *)
LEMMA CommandMoves ==
  ASSUME IInv, NEW o \in Operator, UNCHANGED <<record, call, applied, granted, staleGrant>>,
         \A p \in Operator \ {o} : op'[p] = op[p], OpInv(o)'
  PROVE  Core'
<1>1. \A p \in Operator : op'[p] = op[p] \/ p = o
  OBVIOUS
<1> QED
  BY <1>1, Kept

LEMMA NobodyMoves ==
  ASSUME IInv, UNCHANGED <<record, call, op, applied, granted, staleGrant>>
  PROVE  Core'
  BY Kept

(* What a request stores is a record, and takes the place of no receipt.    *)
LEMMA StoredType ==
  ASSUME IInv, NEW k \in Call
  PROVE  /\ RecordType(Stored(k))
         /\ record.state = "completed" => Stored(k) = record
<1>0. TypeOK /\ CallInv(k) /\ call[k].held \in Record /\ RecordType(record)
  BY RecordFacts DEF IInv, Core, TypeOK, Request
<1>1. call[k].held.note \in Operator \union {None}
  BY <1>0 DEF Record
<1>2. /\ RecordType(Pending(k, call[k].held.note)) /\ RecordType(Pending(k, None))
  BY <1>1, PendingType
<1>3. RecordType(CompletedRecord(k)) /\ RecordType(AmbiguousRecord(k))
  BY <1>1, ConstantsAssumption
     DEF RecordType, CompletedRecord, AmbiguousRecord, Record, NoRecord, Unresolved, Origin, Input
<1>4. RecordType(Stored(k))
  BY <1>0, <1>2, <1>3, NoRecordType DEF Stored, Swapped
<1>5. ASSUME record.state = "completed"
      PROVE  Stored(k) = record
  <2>1. record # NoRecord
    BY <1>5 DEF NoRecord
  <2>2. call[k].pc \in Holding \union {"claim"} => record # call[k].held
    BY <1>0, <1>5 DEF CallInv, Pending
  <2> QED
    BY <2>1, <2>2 DEF Stored, Swapped, StillClaimable, Holding
<1> QED
  BY <1>4, <1>5

(* A request stores what it set out to store, or finds another record.      *)
LEMMA StoreStep ==
  ASSUME IInv, NEW k \in Call,
         call[k].pc \in {"reserve", "read", "claim", "recheck", "complete", "blur", "remove",
                        "release"},
         record' = Stored(k), UNCHANGED <<op, applied, granted, staleGrant>>,
         \A j \in Call \ {k} : call'[j] = call[j],
         /\ call[k].pc = "reserve" /\ record = NoRecord => call'[k].pc \in {"mark", "done"}
         /\ call[k].pc = "claim" /\ StillClaimable(k) => call'[k].pc \in {"mark", "done"}
         /\ call[k].pc \in Holding /\ record = call[k].held =>
              call'[k].pc \in {"clear", "clearRemoved", "done"},
         record' = record /\ call'[k].pc \in Ticketed => call[k].pc \in Ticketed,
         CallInv(k)'
  PROVE  Core'
<1>0. TypeOK /\ CallInv(k) /\ call[k] \in Request
  BY DEF IInv, Core, TypeOK
<1>1. CASE call[k].pc = "reserve" /\ record = NoRecord
  <2>1. record' = Pending(k, None) /\ Free(record)
    BY <1>1 DEF Stored, Swapped, Free, NoRecord
  <2> QED
    BY <1>1, <2>1, Taken
<1>2. CASE call[k].pc = "claim" /\ StillClaimable(k)
  <2>1. /\ record' = Pending(k, call[k].held.note) /\ Free(record)
        /\ call[k].held.note \in Operator \union {None}
    BY <1>0, <1>2 DEF Stored, StillClaimable, Free, CallInv, Request, Record
  <2> QED
    BY <1>2, <2>1, Taken
<1>3. CASE call[k].pc \in Holding /\ record = call[k].held
  BY <1>3, Settled DEF Holding
<1>4. CASE /\ ~(call[k].pc = "reserve" /\ record = NoRecord)
           /\ ~(call[k].pc = "claim" /\ StillClaimable(k))
           /\ ~(call[k].pc \in Holding /\ record = call[k].held)
  <2>1. record' = record
    BY <1>4 DEF Stored, Swapped, Holding
  <2> QED
    BY <2>1, RequestMoves
<1> QED
  BY <1>1, <1>2, <1>3, <1>4

--------------------------------------------------------------------------------
(* Requests.                                                                *)
LEMMA BeginInv ==
  ASSUME IInv, NEW k \in Call,
         Begin(k) \/ Mark(k) \/ ClearRemoved(k)
  PROVE  IInv'
<1> USE ConstantsAssumption
<1>0. TypeOK /\ CallInv(k) /\ RecordType(record)
  BY RecordFacts DEF IInv, Core
<1>1. /\ UNCHANGED <<record, op, aged, scan, applied, granted, staleGrant>>
      /\ marker' \in BOOLEAN /\ faults' \in 0..MaxFaults
  BY <1>0, FaultType DEF Begin, Mark, ClearRemoved, ClearUnresolved, TypeOK
<1>2. CallMoved(k) /\ call[k].pc # "done" /\ CallInv(k)'
      /\ (call'[k].pc \in Ticketed => call[k].pc \in Ticketed)
  <2>1. CASE Begin(k)
    <3>1. Goto(k, "reserve") /\ call[k].pc = "idle"
      BY <2>1 DEF Begin
    <3> QED
      BY <1>0, <1>1, <3>1, GotoFacts
         DEF CallInv, RequestPc, Unreserved, Ticketed, Holding, Answered
  <2>2. CASE Mark(k)
    <3>1. (Goto(k, "effect") \/ Goto(k, "release")) /\ call[k].pc = "mark"
      BY <2>2 DEF Mark
    <3> QED
      BY <1>0, <1>1, <3>1, GotoFacts
         DEF CallInv, RequestPc, Unreserved, Ticketed, Holding, Answered
  <2>3. CASE ClearRemoved(k)
    <3>1. Fail(k, "failed") /\ call[k].pc = "clearRemoved"
      BY <2>3 DEF ClearRemoved
    <3> QED
      BY <1>0, <3>1, FailFacts DEF RequestResult, Ticketed
  <2> QED
    BY <2>1, <2>2, <2>3
<1>3. Core'
  BY <1>1, <1>2, RequestMoves DEF CallMoved
<1>4. TypeOK'
  BY <1>0, <1>1, <1>2, TypeFrame DEF TypeOK, CallMoved
<1> QED
  BY <1>3, <1>4 DEF IInv

LEMMA ReadInv ==
  ASSUME IInv, NEW k \in Call, Read(k) \/ Recheck(k) \/ Clear(k)
  PROVE  IInv'
<1> USE ConstantsAssumption
<1>0. TypeOK /\ CallInv(k) /\ RecordType(record) /\ RecordInv /\ SafeInv
      /\ record.receipt \in Origin \union {None} /\ call[k] \in Request
  BY RecordFacts DEF IInv, Core, RecordType, Record, TypeOK
<1>1. /\ UNCHANGED <<record, op, aged, scan, applied, granted, staleGrant>>
      /\ marker' \in BOOLEAN /\ faults' \in 0..MaxFaults
  BY <1>0, FaultType DEF Read, Recheck, Clear, ClearUnresolved, TypeOK
<1>2. CallMoved(k) /\ call[k].pc # "done" /\ CallInv(k)' /\ call'[k].pc \notin Ticketed
  <2>1. CASE Read(k)
    <3>0. call[k].pc = "read" /\ call[k].pc \in Unreserved
      BY <2>1 DEF Read, Unreserved
    <3>1. CASE TryAgain(k)
      BY <1>0, <1>1, <3>0, <3>1, TryAgainFacts
         DEF CallInv, Unreserved, Ticketed, Holding, Answered
    <3>2. CASE Fail(k, "rejected") \/ Fail(k, "unavailable")
      BY <1>0, <3>0, <3>2, FailFacts DEF RequestResult, Ticketed
    <3>3. CASE record.state = "completed" /\ SameInput(k) /\ Return(k, "receipt", record.receipt)
      <4>1. /\ CallMoved(k) /\ call'[k].pc = "done" /\ call'[k].receipt = record.receipt
        BY <1>0, <3>3, ReturnFacts DEF RequestResult
      <4>2. Answered(k)'
        BY <1>0, <1>1, <3>3, <4>1 DEF Answered, RecordInv, SameInput
      <4> QED
        BY <3>0, <4>1, <4>2 DEF CallInv, Unreserved, Ticketed, Holding
    <3>4. CASE record.state = "retryable" /\ Hold(k, "claim", record)
      BY <1>0, <1>1, <3>0, <3>4, HoldFacts
         DEF CallInv, RequestPc, Unreserved, Ticketed, Holding, Answered, RecordType
    <3> QED
      BY <2>1, <3>1, <3>2, <3>3, <3>4 DEF Read
  <2>2. CASE Recheck(k)
    <3>0. call[k].pc = "recheck" /\ k \in applied
      BY <1>0, <2>2 DEF Recheck, CallInv
    <3>1. CASE record.state = "completed"
      <4>1. call' = [call EXCEPT ![k].pc = "clear", ![k].receipt = record.receipt]
        BY <2>2, <3>1 DEF Recheck
      <4>2. /\ CallMoved(k) /\ call'[k].pc = "clear" /\ call'[k].receipt = record.receipt
            /\ call'[k].result = call[k].result
        BY <1>0, <4>1 DEF CallMoved, TypeOK, Request
      <4>3. Answered(k)'
        BY <1>0, <1>1, <3>0, <3>1, <4>2 DEF Answered, RecordInv, SafeInv
      <4> QED
        BY <1>0, <3>0, <4>2, <4>3 DEF CallInv, Unreserved, Ticketed, Holding
    <3>2. CASE record.state # "completed"
      <4>1. Fail(k, "changed")
        BY <2>2, <3>2 DEF Recheck
      <4> QED
        BY <1>0, <3>0, <4>1, FailFacts DEF RequestResult, Ticketed
    <3> QED
      BY <3>1, <3>2
  <2>3. CASE Clear(k)
    <3>0. call[k].pc = "clear" /\ Return(k, "receipt", call[k].receipt) /\ Answered(k)
      BY <1>0, <2>3 DEF Clear, CallInv
    <3>1. /\ CallMoved(k) /\ call'[k].pc = "done" /\ call'[k].receipt = call[k].receipt
      BY <1>0, <3>0, ReturnFacts DEF RequestResult, Request
    <3>2. Answered(k)'
      BY <1>1, <3>0, <3>1 DEF Answered
    <3> QED
      BY <3>0, <3>1, <3>2 DEF CallInv, Unreserved, Ticketed, Holding
  <2> QED
    BY <2>1, <2>2, <2>3
<1>3. Core'
  BY <1>1, <1>2, RequestMoves DEF CallMoved
<1>4. TypeOK'
  BY <1>0, <1>1, <1>2, TypeFrame DEF TypeOK, CallMoved
<1> QED
  BY <1>3, <1>4 DEF IInv

LEMMA ReserveInv ==
  ASSUME IInv, NEW k \in Call, Reserve(k) \/ Claim(k)
  PROVE  IInv'
<1> USE ConstantsAssumption
<1>0. /\ TypeOK /\ CallInv(k) /\ RecordType(record) /\ call[k] \in Request
      /\ call[k].pc \in {"reserve", "claim"}
      /\ call[k].held.note \in Operator \union {None}
  BY RecordFacts DEF IInv, Core, TypeOK, Request, Record, Reserve, Claim
<1>1. /\ UNCHANGED <<marker, op, aged, scan, applied, granted, staleGrant, faults>>
      /\ record' = Stored(k)
  BY DEF Reserve, Claim
<1>2. PICK note \in Operator \union {None} :
        IF \/ call[k].pc = "reserve" /\ record = NoRecord
           \/ call[k].pc = "claim" /\ StillClaimable(k)
        THEN Hold(k, "mark", Pending(k, note)) /\ record' = Pending(k, note)
        ELSE /\ Goto(k, "read") \/ TryAgain(k)
             /\ record' = record
  BY <1>0 DEF Reserve, Claim, Stored, Swapped
<1>3. /\ CallMoved(k) /\ CallInv(k)'
      /\ IF \/ call[k].pc = "reserve" /\ record = NoRecord
            \/ call[k].pc = "claim" /\ StillClaimable(k)
         THEN call'[k].pc = "mark"
         ELSE call'[k].pc \notin Ticketed
  <2>0. k \notin applied /\ record.id # k /\ (call[k].result = "receipt" => Answered(k))
    BY <1>0 DEF CallInv, Unreserved
  <2>1. CASE \/ call[k].pc = "reserve" /\ record = NoRecord
             \/ call[k].pc = "claim" /\ StillClaimable(k)
    <3>1. Pending(k, note) \in Record /\ Pending(k, note).note = note
      BY PendingType DEF RecordType
    <3>2. /\ CallMoved(k) /\ call'[k].pc = "mark" /\ call'[k].held = Pending(k, note)
          /\ call'[k].result = call[k].result
      BY <1>0, <1>2, <2>1, <3>1, HoldFacts DEF RequestPc
    <3>3. record.state # "completed"
      BY <1>0, <2>1 DEF NoRecord, StillClaimable, CallInv
    <3> QED
      BY <1>1, <2>0, <2>1, <3>1, <3>2, <3>3 DEF CallInv, Unreserved, Ticketed, Answered
  <2>2. CASE ~(\/ call[k].pc = "reserve" /\ record = NoRecord
               \/ call[k].pc = "claim" /\ StillClaimable(k))
    <3>1. CASE Goto(k, "read")
      BY <1>0, <1>1, <1>2, <2>0, <2>2, <3>1, GotoFacts
         DEF CallInv, RequestPc, Unreserved, Ticketed, Holding, Answered
    <3>2. CASE TryAgain(k)
      BY <1>0, <1>1, <1>2, <2>0, <2>2, <3>2, TryAgainFacts
         DEF CallInv, Unreserved, Ticketed, Holding, Answered
    <3> QED
      BY <1>2, <2>2, <3>1, <3>2
  <2> QED
    BY <2>1, <2>2
<1>4. Core'
  <2>1. call[k].pc \notin Holding
    BY <1>0 DEF Holding
  <2>2. CASE \/ call[k].pc = "reserve" /\ record = NoRecord
             \/ call[k].pc = "claim" /\ StillClaimable(k)
    <3>1. Free(record)
      BY <1>0, <2>2 DEF Free, NoRecord, StillClaimable, CallInv
    <3>2. call'[k].pc \in {"mark", "done"} /\ record' = Pending(k, note)
      BY <1>2, <1>3, <2>2
    <3> QED
      BY <1>0, <1>1, <1>3, <3>1, <3>2, Taken DEF CallMoved
  <2>3. CASE ~(\/ call[k].pc = "reserve" /\ record = NoRecord
               \/ call[k].pc = "claim" /\ StillClaimable(k))
    <3>1. call'[k].pc \notin Ticketed /\ record' = record
      BY <1>2, <1>3, <2>3
    <3>2. call[k].pc # "done"
      BY <1>0
    <3> QED
      BY <1>1, <1>3, <3>1, <3>2, RequestMoves DEF CallMoved
  <2> QED
    BY <2>2, <2>3
<1>5. TypeOK'
  BY <1>0, <1>1, <1>3, StoredType, TypeFrame DEF TypeOK, CallMoved
<1> QED
  BY <1>4, <1>5 DEF IInv

(* The reservation is given up by its holder.                               *)
LEMMA CompleteInv ==
  ASSUME IInv, NEW k \in Call, Complete(k) \/ Remove(k) \/ Release(k) \/ Blur(k)
  PROVE  IInv'
<1> USE ConstantsAssumption
<1>0. /\ TypeOK /\ CallInv(k) /\ RecordType(record) /\ call[k] \in Request
      /\ call[k].pc \in {"complete", "remove", "release", "blur"}
  BY RecordFacts DEF IInv, Core, TypeOK, Complete, Remove, Release, Blur
<1>1. /\ UNCHANGED <<marker, op, aged, scan, applied, granted, staleGrant, faults>>
      /\ record' = Stored(k)
  BY DEF Complete, Remove, Release, Blur
<1>2. /\ CallMoved(k) /\ CallInv(k)' /\ call'[k].pc \notin Ticketed
      /\ record = call[k].held => call'[k].pc \in {"clear", "clearRemoved", "done"}
  <2>1. CASE Complete(k)
    <3>0. call[k].pc = "complete" /\ k \in applied
      BY <1>0, <2>1 DEF Complete, CallInv
    <3>1. CASE record = call[k].held
      <4>1. call' = [call EXCEPT ![k].pc = "clear", ![k].receipt = k]
        BY <2>1, <3>1 DEF Complete
      <4>2. /\ CallMoved(k) /\ call'[k].pc = "clear" /\ call'[k].receipt = k
            /\ call'[k].result = call[k].result
        BY <1>0, <4>1 DEF CallMoved, TypeOK, Request, Origin
      <4>3. /\ record'.state = "completed" /\ record'.receipt = k /\ record'.input = InputOf[k]
        BY <1>1, <3>0, <3>1 DEF Stored, Swapped, CompletedRecord
      <4>4. Answered(k)'
        BY <1>1, <3>0, <4>2, <4>3 DEF Answered
      <4> QED
        BY <1>0, <3>0, <4>2, <4>4 DEF CallInv, Unreserved, Ticketed, Holding
    <3>2. CASE record # call[k].held
      <4>1. Goto(k, "recheck") /\ record' = record
        BY <1>1, <2>1, <3>0, <3>2 DEF Complete, Stored, Swapped
      <4> QED
        BY <1>0, <1>1, <3>0, <3>2, <4>1, GotoFacts
           DEF CallInv, RequestPc, Unreserved, Ticketed, Holding, Answered
    <3> QED
      BY <3>1, <3>2
  <2>2. CASE Remove(k) /\ record = call[k].held
    <3>1. Goto(k, "clearRemoved") /\ record.state = "pending" /\ call[k].pc = "remove"
      BY <1>0, <2>2 DEF Remove, CallInv, Holding, Pending
    <3>2. CallMoved(k) /\ call'[k].pc = "clearRemoved" /\ call'[k].result # "receipt"
      BY <1>0, <3>1, GotoFacts DEF CallInv, RequestPc, Answered
    <3> QED
      BY <3>2 DEF CallInv, Unreserved, Ticketed, Holding
  <2>3. CASE \/ Remove(k) /\ record # call[k].held
             \/ Release(k) \/ Blur(k)
    <3>1. Fail(k, "failed") \/ Fail(k, "error")
      BY <2>3 DEF Remove, Release, Blur
    <3> QED
      BY <1>0, <3>1, FailFacts DEF RequestResult, Ticketed
  <2> QED
    BY <2>1, <2>2, <2>3
<1>3. Core'
  BY <1>0, <1>1, <1>2, StoreStep DEF CallMoved
<1>4. TypeOK'
  BY <1>0, <1>1, <1>2, StoredType, TypeFrame DEF TypeOK, CallMoved
<1> QED
  BY <1>3, <1>4 DEF IInv

(* A storage operation of a request fails, before or after it took effect.  *)
LEMMA StorageFailsInv ==
  ASSUME IInv, NEW k \in Call, StorageFails(k)
  PROVE  IInv'
<1>0. /\ TypeOK /\ RecordType(record) /\ Fail(k, "error") /\ Fault
      /\ call[k].pc \in {"reserve", "read", "claim", "release", "complete", "recheck",
                         "remove", "blur"}
      /\ UNCHANGED <<marker, op, aged, scan, applied, granted, staleGrant>>
      /\ record' \in {record, Stored(k)}
  BY RecordFacts DEF IInv, StorageFails
<1>1. CallMoved(k) /\ call'[k].pc = "done" /\ CallInv(k)'
  BY <1>0, FailFacts DEF RequestResult
<1>2. Core'
  <2>1. CASE record' = record
    <3>1. call'[k].pc \notin Ticketed /\ call[k].pc # "done"
      BY <1>0, <1>1 DEF Ticketed
    <3> QED
      BY <1>0, <1>1, <2>1, <3>1, RequestMoves DEF CallMoved
  <2>2. CASE record' = Stored(k)
    <3>1. call'[k].pc \notin Ticketed
      BY <1>1 DEF Ticketed
    <3> QED
      BY <1>0, <1>1, <2>2, <3>1, StoreStep DEF CallMoved
  <2> QED
    BY <1>0, <2>1, <2>2
<1>3. TypeOK'
  <2>1. RecordType(record')
    BY <1>0, StoredType
  <2>2. faults' \in 0..MaxFaults
    BY <1>0, FaultType
  <2> QED
    BY <1>0, <1>1, <2>1, <2>2, TypeFrame DEF TypeOK, CallMoved
<1> QED
  BY <1>2, <1>3 DEF IInv

(* The provider call is made, and its answer heard or not.                  *)
LEMMA EffectInv ==
  ASSUME IInv, NEW k \in Call, Effect(k)
  PROVE  IInv'
<1>0. /\ TypeOK /\ RecordType(record) /\ CallInv(k) /\ call[k].pc = "effect"
      /\ UNCHANGED <<record, marker, op, aged, scan, granted, staleGrant, faults>>
  BY RecordFacts DEF IInv, Core, Effect
<1>1. PICK pc \in {"complete", "remove", "blur"} :
        /\ Goto(k, pc)
        /\ applied' \in {applied, applied \union {k}}
        /\ pc = "complete" => applied' = applied \union {k}
        /\ pc = "remove" => applied' = applied
  BY DEF Effect
<1>2. /\ CallMoved(k) /\ call'[k].pc = pc /\ call'[k].held = call[k].held
      /\ call'[k].result = call[k].result
  BY <1>0, <1>1, GotoFacts DEF RequestPc
<1>3. CallInv(k)'
  <2>1. k \notin applied /\ call[k].held = Pending(k, call[k].held.note)
    BY <1>0 DEF CallInv, Ticketed, Holding
  <2>2. call[k].result # "receipt"
    BY <1>0 DEF CallInv
  <2> QED
    BY <1>1, <1>2, <2>1, <2>2 DEF CallInv, Unreserved, Ticketed, Holding
<1>4. Core'
  <2>1. /\ applied \subseteq applied' /\ applied' \subseteq applied \union Call
        /\ \A j \in applied' \ applied : j = k /\ applied' = applied \union {k}
    BY <1>1
  <2>2. \A j \in applied' \ applied : call[j].pc = "effect" /\ call'[j].pc \notin Ticketed
    BY <1>0, <1>1, <1>2, <2>1 DEF Ticketed
  <2>3. /\ \A j \in Call : call'[j].pc \in Ticketed => call[j].pc \in Ticketed
        /\ \A j \in Call : call[j].pc = "done" => call'[j].pc = "done"
    BY <1>0, <1>2 DEF CallMoved, Ticketed
  <2>4. \A j \in Call : call'[j] = call[j] \/ CallInv(j)'
    BY <1>2, <1>3 DEF CallMoved
  <2> QED
    BY <1>0, <2>1, <2>2, <2>3, <2>4, Kept
<1>5. TypeOK'
  <2>1. applied' \subseteq Origin
    BY <1>0, <1>1 DEF TypeOK, Origin
  <2> QED
    BY <1>0, <1>2, <2>1, TypeFrame DEF TypeOK, CallMoved
<1> QED
  BY <1>4, <1>5 DEF IInv

(* Requests that are cut off; Discord may still have made their writes.     *)
LEMMA CutOffInv ==
  ASSUME IInv, NEW ks \in SUBSET Call, CutOff(ks), Fault, call' \in [Call -> Request],
         \A k \in Call :
           IF Running(k) /\ k \in ks
           THEN call'[k].pc = "done" /\ call'[k].result = "interrupted"
           ELSE call'[k] = call[k],
         op' \in [Operator -> Recovery],
         \A o \in Operator : op'[o] = op[o] \/ OpInv(o)',
         scan' \in {scan, "backfill"},
         UNCHANGED <<record, marker, aged, granted, staleGrant>>
  PROVE  IInv'
<1>0. TypeOK /\ RecordType(record) /\ faults' \in 0..MaxFaults
  BY RecordFacts, FaultType DEF IInv
<1>1. PICK made \in SUBSET {k \in ks : call[k].pc = "effect"} : applied' = applied \union made
  BY DEF CutOff
<1>2. \A k \in made : k \in Call /\ call[k].pc = "effect" /\ call'[k].pc = "done"
  BY <1>1 DEF Running
<1>3. Core'
  <2>1. /\ applied \subseteq applied' /\ applied' \subseteq applied \union Call
        /\ \A k \in applied' \ applied : call[k].pc = "effect" /\ call'[k].pc \notin Ticketed
    BY <1>1, <1>2 DEF Ticketed
  <2>2. /\ \A k \in Call : call'[k].pc \in Ticketed => call[k].pc \in Ticketed
        /\ \A k \in Call : call[k].pc = "done" => call'[k].pc = "done"
    BY DEF Ticketed, Running
  <2>3. \A k \in Call : call'[k] = call[k] \/ CallInv(k)'
    BY DEF CallInv, Unreserved, Ticketed, Holding
  <2> QED
    BY <2>1, <2>2, <2>3, Kept
<1>4. TypeOK'
  <2>1. applied' \subseteq Origin
    BY <1>0, <1>1, <1>2 DEF TypeOK, Origin
  <2> QED
    BY <1>0, <2>1, TypeFrame DEF TypeOK
<1> QED
  BY <1>3, <1>4 DEF IInv

LEMMA InterruptInv ==
  ASSUME IInv, NEW k \in Call, Interrupt(k)
  PROVE  IInv'
<1>0. /\ TypeOK /\ CutOff({k}) /\ Fault /\ Fail(k, "interrupted") /\ Running(k)
      /\ UNCHANGED <<record, marker, op, aged, scan, granted, staleGrant>>
  BY DEF IInv, Interrupt
<1>1. /\ CallMoved(k) /\ call'[k].pc = "done" /\ call'[k].result = "interrupted"
  BY <1>0, ReturnFacts DEF Fail, RequestResult
<1>2. op' \in [Operator -> Recovery]
  BY <1>0 DEF TypeOK
<1> QED
  BY <1>0, <1>1, <1>2, CutOffInv DEF CallMoved

LEMMA CrashInv ==
  ASSUME IInv, Crash
  PROVE  IInv'
<1>0. /\ TypeOK /\ Core /\ CutOff(Call) /\ Fault /\ scan' = "backfill"
      /\ UNCHANGED <<record, marker, aged, granted, staleGrant>>
  BY DEF IInv, Crash
<1>1. NoRecord \in Record /\ 1 \in 1..Attempts
  BY NoRecordType, ConstantsAssumption DEF RecordType
<1>2. /\ call' \in [Call -> Request]
      /\ \A k \in Call :
           IF Running(k)
           THEN call'[k].pc = "done" /\ call'[k].result = "interrupted"
           ELSE call'[k] = call[k]
  <2>1. \A k \in Call :
          call'[k] = IF Running(k)
                     THEN [pc |-> "done", attempt |-> 1, held |-> NoRecord,
                           result |-> "interrupted", receipt |-> None]
                     ELSE call[k]
    BY DEF Crash
  <2>2. \A k \in Call : call'[k] \in Request
    BY <1>0, <1>1, <2>1 DEF TypeOK, Request
  <2>3. call' \in [Call -> Request]
    BY <2>2 DEF Crash
  <2> QED
    BY <2>1, <2>3
<1>3. \A o \in Operator :
        op'[o] = IF op[o].pc = "idle" THEN op[o] ELSE [op[o] EXCEPT !.pc = "done"]
  BY DEF Crash
<1>4. op' \in [Operator -> Recovery]
  <2>1. \A o \in Operator : op[o] \in Recovery
    BY <1>0 DEF TypeOK
  <2>2. \A o \in Operator : op'[o] \in Recovery
    <3> SUFFICES ASSUME NEW o \in Operator
                 PROVE  op'[o] \in Recovery
      OBVIOUS
    <3>1. [op[o] EXCEPT !.pc = "done"] \in Recovery
      BY <2>1 DEF Recovery
    <3> QED
      BY <1>3, <2>1, <3>1
  <2> QED
    BY <2>2 DEF Crash
<1>5. \A o \in Operator : op'[o] = op[o] \/ OpInv(o)'
  <2> SUFFICES ASSUME NEW o \in Operator, op'[o] # op[o]
               PROVE  OpInv(o)'
    OBVIOUS
  <2>1. /\ op'[o].pc = "done" /\ op'[o].resolution = op[o].resolution
        /\ op'[o].about = op[o].about /\ op'[o].receipt = op[o].receipt
        /\ op[o].about \in Origin \union {None}
    BY <1>0, <1>3 DEF TypeOK, Recovery
  <2>2. OpInv(o)
    BY <1>0 DEF Core
  <2>3. \A k \in Call : call[k].pc = "done" => call'[k].pc = "done"
    BY <1>2 DEF Running
  <2>4. \A a \in Origin \union {None} : a \in applied' =>
          \/ a \in applied
          \/ a \in Call /\ call[a].pc = "effect"
    BY <1>0 DEF CutOff
  <2>5. applied \subseteq applied'
    BY <1>0 DEF CutOff
  <2> QED
    BY <2>1, <2>2, <2>3, <2>4, <2>5 DEF OpInv
<1>6. \A k \in Call :
           IF Running(k) /\ k \in Call
           THEN call'[k].pc = "done" /\ call'[k].result = "interrupted"
           ELSE call'[k] = call[k]
  BY <1>2
<1>7. scan' \in {scan, "backfill"} /\ Call \in SUBSET Call
  BY <1>0
<1> QED
  BY <1>0, <1>2, <1>4, <1>5, <1>6, <1>7, CutOffInv

--------------------------------------------------------------------------------
(* Recovery Commands.                                                       *)
LEMMA InspectInv ==
  ASSUME IInv, NEW o \in Operator, Inspect(o)
  PROVE  IInv'
<1>0. /\ TypeOK /\ Core /\ OpInv(o) /\ RecordType(record) /\ op[o].pc = "idle"
      /\ UNCHANGED <<record, marker, call, aged, scan, applied, granted, staleGrant, faults>>
      /\ record.id \in Origin \union {None}
  BY RecordFacts DEF IInv, Core, Inspect, RecordType, Record
<1>1. PICK resolution \in {"Confirmed", "SafeRetry", "Unresolved"},
           receipt \in applied \union {None} :
        /\ resolution = "Confirmed" <=> receipt # None
        /\ resolution = "SafeRetry" =>
             applied = {} /\ (record.id \in Call => ~Running(record.id))
        /\ op' = [op EXCEPT ![o] =
                    [pc |-> "read", resolution |-> resolution, about |-> record.id,
                     receipt |-> receipt, attempt |-> 1, seen |-> NoRecord]]
  BY DEF Inspect
<1>2. NoRecord \in Record /\ 1 \in 1..Attempts /\ receipt \in Origin \union {None}
  BY <1>0, NoRecordType, ConstantsAssumption DEF RecordType, TypeOK
<1>3. OpMoved(o)
  BY <1>0, <1>1, <1>2 DEF OpMoved, TypeOK, Recovery
<1>4. OpInv(o)'
  <2>1. /\ op'[o].pc = "read" /\ op'[o].resolution = resolution
        /\ op'[o].about = record.id /\ op'[o].receipt = receipt
    BY <1>0, <1>1 DEF TypeOK
  <2>2. o \notin granted
    BY <1>0 DEF OpInv
  <2>3. ASSUME resolution = "SafeRetry", record.id \in Call
        PROVE  call[record.id].pc = "done"
    <3>1. CallInv(record.id)
      BY <1>0, <2>3 DEF Core
    <3> QED
      BY <1>1, <2>3, <3>1 DEF CallInv, Unreserved, Running
  <2> QED
    BY <1>0, <1>1, <2>1, <2>2, <2>3 DEF OpInv
<1>5. Core'
  BY <1>0, <1>3, <1>4, CommandMoves DEF OpMoved
<1>6. TypeOK'
  BY <1>0, <1>3, TypeFrame DEF TypeOK, OpMoved
<1> QED
  BY <1>5, <1>6 DEF IInv

LEMMA CommandInv ==
  ASSUME IInv, NEW o \in Operator, OpRead(o) \/ OpMark(o) \/ OpStops(o) \/ OpClear(o)
  PROVE  IInv'
<1>0. /\ TypeOK /\ OpInv(o) /\ RecordType(record) /\ op[o] \in Recovery
      /\ record \in Record
  BY RecordFacts DEF IInv, Core, TypeOK
<1>1. /\ UNCHANGED <<record, call, aged, scan, applied, granted, staleGrant>>
      /\ marker' \in BOOLEAN /\ faults' \in 0..MaxFaults
  BY <1>0, FaultType DEF OpRead, OpMark, OpStops, OpClear, ClearUnresolved, TypeOK
<1>2. OpMoved(o) /\ OpInv(o)'
  <2>1. CASE Finish(o)
    <3>1. /\ OpMoved(o) /\ op'[o].pc = "done" /\ op'[o].resolution = op[o].resolution
          /\ op'[o].about = op[o].about /\ op'[o].receipt = op[o].receipt
      BY <1>0, <2>1, FinishFacts
    <3> QED
      BY <1>0, <1>1, <3>1 DEF OpInv
  <2>2. CASE GotoOp(o, "clear")
    <3>1. /\ OpMoved(o) /\ op'[o].pc = "clear" /\ op'[o].resolution = op[o].resolution
          /\ op'[o].about = op[o].about /\ op'[o].receipt = op[o].receipt
      BY <1>0, <2>2, GotoOpFacts
    <3> QED
      BY <1>0, <1>1, <3>1 DEF OpInv
  <2>3. CASE OpMark(o) /\ GotoOp(o, "write")
    <3>1. /\ OpMoved(o) /\ op'[o].pc = "write" /\ op'[o].resolution = op[o].resolution
          /\ op'[o].about = op[o].about /\ op'[o].receipt = op[o].receipt
          /\ op'[o].seen = op[o].seen
      BY <1>0, <2>3, GotoOpFacts
    <3>2. op[o].pc = "mark"
      BY <2>3 DEF OpMark
    <3> QED
      BY <1>0, <1>1, <3>1, <3>2 DEF OpInv
  <2>4. CASE /\ OpRead(o) /\ record # NoRecord /\ ~Decided(record)
             /\ op' = [op EXCEPT ![o].seen = record,
                         ![o].pc = IF op[o].resolution = "Unresolved" THEN "mark" ELSE "write"]
    <3>1. Unresolved(record) /\ op[o].pc = "read"
      BY <1>0, <2>4 DEF OpRead, Decided, Unresolved, RecordType, Record
    <3>2. /\ op'[o].pc \in {"mark", "write"} /\ op'[o].resolution = op[o].resolution
          /\ op'[o].about = op[o].about /\ op'[o].receipt = op[o].receipt
          /\ op'[o].seen = record
      BY <1>0, <2>4 DEF TypeOK, Recovery
    <3>3. OpMoved(o)
      BY <1>0, <2>4 DEF TypeOK, Recovery, OpMoved
    <3>4. o \notin granted
      BY <1>0, <3>1 DEF OpInv
    <3> QED
      BY <1>0, <1>1, <3>1, <3>2, <3>3, <3>4 DEF OpInv
  <2> QED
    BY <2>1, <2>2, <2>3, <2>4 DEF OpRead, OpMark, OpStops, OpClear
<1>3. Core'
  BY <1>1, <1>2, CommandMoves DEF OpMoved
<1>4. TypeOK'
  BY <1>0, <1>1, <1>2, TypeFrame DEF TypeOK, OpMoved
<1> QED
  BY <1>3, <1>4 DEF IInv

(* What makes a record.                                                     *)
LEMMA MadeType ==
  ASSUME NEW state \in {"pending", "ambiguous", "retryable", "completed"},
         NEW input \in Input \union {None}, NEW id \in Origin \union {None},
         NEW note \in Operator, NEW receipt \in Origin \union {None},
         state \in {"pending", "ambiguous"} <=> id # None,
         state = "completed" <=> receipt # None
  PROVE  RecordType([state |-> state, input |-> input, id |-> id, note |-> note,
                     receipt |-> receipt])
<1> DEFINE rec == [state |-> state, input |-> input, id |-> id, note |-> note,
                   receipt |-> receipt]
<1>1. rec \in Record
  BY DEF Record
<1>2. rec.state = state /\ rec.id = id /\ rec.receipt = receipt /\ rec.note = note
  OBVIOUS
<1>3. rec # NoRecord /\ rec.state # "absent" /\ note # None
  BY <1>2, ConstantsAssumption DEF NoRecord
<1> QED
  BY <1>1, <1>2, <1>3 DEF RecordType, Unresolved

(* What a Recovery Command writes is a record, and takes the place of no
   receipt.                                                                 *)
LEMMA ReconcileType ==
  ASSUME IInv, NEW o \in Operator, op[o].pc = "write", Reconcile(o)
  PROVE  /\ RecordType(record') /\ granted' \subseteq Operator /\ staleGrant' \in BOOLEAN
         /\ record.state = "completed" => record' = record
<1>0. /\ TypeOK /\ OpInv(o) /\ RecordType(record) /\ record \in Record
      /\ op[o] \in Recovery /\ applied \subseteq Origin
  BY RecordFacts DEF IInv, Core, TypeOK
<1>1. granted' \subseteq Operator /\ staleGrant' \in BOOLEAN
  BY <1>0 DEF Reconcile, TypeOK
<1>2. CASE Reconcilable(o)
  <2>1. /\ record = op[o].seen /\ Unresolved(record) /\ record' = ReconciledRecord(o)
    BY <1>0, <1>2 DEF OpInv, Reconcile, Reconcilable
  <2>2. record.state # "completed" /\ record.id # None /\ record.receipt = None
    BY <1>0, <2>1 DEF Unresolved, RecordType
  <2>0. record.input \in Input \union {None} /\ record.state \in {"pending", "ambiguous"}
        /\ record.id \in Origin /\ record.receipt \in Origin \union {None}
    BY <1>0, <2>1, <2>2 DEF Record, Unresolved
  <2>3. ASSUME op[o].resolution = "Unresolved"
        PROVE  RecordType(record')
    <3>1. record' = [state |-> record.state, input |-> record.input, id |-> record.id,
                     note |-> o, receipt |-> record.receipt]
      BY <2>1, <2>3 DEF ReconciledRecord
    <3>2. RecordType([state |-> record.state, input |-> record.input, id |-> record.id,
                      note |-> o, receipt |-> record.receipt])
      BY <2>0, <2>2, MadeType
    <3> QED
      BY <3>1, <3>2, Zenon
  <2>4. ASSUME op[o].resolution = "Confirmed"
        PROVE  RecordType(record')
    <3>1. record' = [state |-> "completed", input |-> record.input, id |-> None,
                     note |-> o, receipt |-> op[o].receipt]
      BY <2>1, <2>4 DEF ReconciledRecord
    <3>2. op[o].receipt \in Origin /\ op[o].receipt # None
      BY <1>0, <2>4, ConstantsAssumption DEF OpInv
    <3>3. RecordType([state |-> "completed", input |-> record.input, id |-> None,
                      note |-> o, receipt |-> op[o].receipt])
      BY <2>0, <3>2, MadeType
    <3> QED
      BY <3>1, <3>3, Zenon
  <2>5. ASSUME op[o].resolution = "SafeRetry"
        PROVE  RecordType(record')
    <3>1. record' = [state |-> "retryable", input |-> record.input, id |-> None,
                     note |-> o, receipt |-> None]
      BY <2>1, <2>5 DEF ReconciledRecord
    <3>2. RecordType([state |-> "retryable", input |-> record.input, id |-> None,
                      note |-> o, receipt |-> None])
      BY <2>0, MadeType
    <3> QED
      BY <3>1, <3>2, Zenon
  <2>6. RecordType(record')
    BY <1>0, <2>3, <2>4, <2>5 DEF Recovery
  <2> QED
    BY <1>1, <2>2, <2>6
<1>3. CASE ~Reconcilable(o)
  BY <1>0, <1>1, <1>3 DEF Reconcile
<1> QED
  BY <1>2, <1>3

LEMMA WriteInv ==
  ASSUME IInv, NEW o \in Operator, OpWrite(o) \/ OpWriteLost(o)
  PROVE  IInv'
<1>0. /\ TypeOK /\ OpInv(o) /\ op[o] \in Recovery /\ op[o].pc = "write" /\ Reconcile(o)
      /\ UNCHANGED <<marker, call, aged, scan, applied>> /\ faults' \in 0..MaxFaults
  BY FaultType DEF IInv, Core, TypeOK, OpWrite, OpWriteLost
<1>1. /\ OpMoved(o) /\ op'[o].resolution = op[o].resolution
      /\ op'[o].about = op[o].about /\ op'[o].receipt = op[o].receipt
      /\ op'[o].pc \in {"read", "clear", "done"}
      /\ Reconcilable(o) => op'[o].pc \in {"clear", "done"}
  <2>1. CASE Finish(o)
    BY <1>0, <2>1, FinishFacts
  <2>2. CASE GotoOp(o, "clear")
    BY <1>0, <2>2, GotoOpFacts
  <2>3. CASE /\ ~Reconcilable(o) /\ op[o].attempt < Attempts
             /\ op' = [op EXCEPT ![o].pc = "read", ![o].attempt = @ + 1]
    <3>1. op[o].attempt + 1 \in 1..Attempts
      BY <1>0, <2>3, ConstantsAssumption DEF Recovery
    <3> QED
      BY <1>0, <2>3, <3>1 DEF TypeOK, Recovery, OpMoved
  <2> QED
    BY <2>1, <2>2, <2>3 DEF OpWrite, OpWriteLost
<1>2. Core'
  <2>1. CASE Reconcilable(o)
    BY <1>0, <1>1, <2>1, Reconciled DEF OpMoved
  <2>2. CASE ~Reconcilable(o)
    <3>1. UNCHANGED <<record, granted, staleGrant>>
      BY <1>0, <2>2 DEF Reconcile, TypeOK
    <3>2. OpInv(o)'
      BY <1>0, <1>1, <3>1 DEF OpInv
    <3> QED
      BY <1>0, <1>1, <3>1, <3>2, CommandMoves DEF OpMoved
  <2> QED
    BY <2>1, <2>2
<1>3. TypeOK'
  <2>1. RecordType(record') /\ granted' \subseteq Operator /\ staleGrant' \in BOOLEAN
    BY <1>0, ReconcileType
  <2> QED
    BY <1>0, <1>1, <2>1, TypeFrame DEF TypeOK, OpMoved
<1> QED
  BY <1>2, <1>3 DEF IInv

--------------------------------------------------------------------------------
(* The index, and time.                                                     *)
LEMMA ObservingInv ==
  ASSUME IInv, Observing \/ Age
  PROVE  IInv'
<1>0. TypeOK /\ RecordType(record) /\ record.id \in Origin \union {None}
  BY RecordFacts DEF IInv, RecordType, Record
<1>1. UNCHANGED <<record, call, op, applied, granted, staleGrant>>
  BY DEF Observing, Backfill, BackfillMark, Scan, ScanRemove, GotoScan, Age
<1>2. scan' \in {"backfill", "mark", "idle", "remove"} /\ marker' \in BOOLEAN
  BY <1>0 DEF TypeOK, Observing, Backfill, BackfillMark, Scan, ScanRemove, GotoScan, Age,
              ClearUnresolved
<1>3. faults' \in 0..MaxFaults
  BY <1>0, FaultType
     DEF TypeOK, Observing, Backfill, BackfillMark, Scan, ScanRemove, Age, ClearUnresolved
<1>4. aged' \subseteq Origin
  <2>1. CASE Observing
    BY <1>0, <2>1 DEF TypeOK, Observing, Backfill, BackfillMark, Scan, ScanRemove, GotoScan
  <2>2. CASE Age
    BY <1>0, <2>2 DEF TypeOK, Age, RecordType, Unresolved
  <2> QED
    BY <2>1, <2>2
<1>5. Core'
  BY <1>1, NobodyMoves
<1>6. TypeOK'
  BY <1>0, <1>1, <1>2, <1>3, <1>4, TypeFrame DEF TypeOK
<1> QED
  BY <1>5, <1>6 DEF IInv

LEMMA NextInv == IInv /\ [Next]_vars => IInv'
<1> SUFFICES ASSUME IInv, [Next]_vars
             PROVE  IInv'
  OBVIOUS
<1>1. ASSUME NEW k \in Call, Attempting(k)
      PROVE  IInv'
  BY <1>1, BeginInv, ReserveInv, ReadInv, CompleteInv, EffectInv, StorageFailsInv,
     InterruptInv DEF Attempting
<1>2. ASSUME NEW o \in Operator, Recovering(o)
      PROVE  IInv'
  BY <1>2, InspectInv, CommandInv, WriteInv DEF Recovering
<1>3. CASE Observing \/ Age
  BY <1>3, ObservingInv
<1>4. CASE Crash
  BY <1>4, CrashInv
<1>5. CASE UNCHANGED vars
  <2>1. Core'
    BY <1>5, NobodyMoves DEF vars
  <2>2. TypeOK'
    BY <1>5 DEF vars, IInv, TypeOK, Unresolved
  <2> QED
    BY <2>1, <2>2 DEF IInv
<1> QED
  BY <1>1, <1>2, <1>3, <1>4, <1>5 DEF Next

--------------------------------------------------------------------------------
(* The refinement of DeliveryContract.                                      *)

(* A ticket for every write.                                               *)
LEMMA GrantsCovered == IInv => AppliedNeedsGrant
<1> SUFFICES ASSUME IInv
             PROVE  Cardinality(applied) <= 1 + Cardinality(granted)
  BY DEF AppliedNeedsGrant
<1>1. IsFiniteSet(Tickets) /\ applied \subseteq Tickets
  <2>1. IsFiniteSet(Call \union {Legacy}) /\ Tickets \subseteq Call \union {Legacy}
    BY ConstantsAssumption, FS_AddElement DEF IInv, Tickets, TypeOK, Origin
  <2>2. IsFiniteSet(Tickets)
    BY <2>1, FS_Subset
  <2> QED
    BY <2>2 DEF Tickets
<1>2. /\ Cardinality(applied) <= Cardinality(Tickets)
      /\ Cardinality(applied) \in Nat /\ Cardinality(Tickets) \in Nat
  BY <1>1, FS_Subset, FS_CardinalityType
<1>3. /\ Cardinality(granted) \in Nat
      /\ Cardinality(Tickets) + (IF Free(record) THEN 1 ELSE 0) <= 1 + Cardinality(granted)
  BY FS_CardinalityType DEF IInv, Core, TicketInv
<1> QED
  BY <1>2, <1>3

(* Requests that reach Discord are those of a write of the contract.        *)
LEMMA WriteContract ==
  ASSUME IInv, IInv', NEW ks \in SUBSET Call, ks # {},
         \A k \in ks : call[k].pc = "effect", applied' = applied \union ks,
         UNCHANGED <<record, granted, staleGrant>>, Given' = Given
  PROVE  Contract!Next
<1>0. TypeOK /\ Core /\ Core' /\ RecordType(record)
  BY RecordFacts DEF IInv
<1>1. ks \intersect applied = {}
  BY <1>0 DEF Core, CallInv, Ticketed
<1>2. Cardinality(applied') <= 1 + Cardinality(granted)
  <2>1. AppliedNeedsGrant'
    BY GrantsCovered, PTL
  <2> QED
    BY <2>1 DEF AppliedNeedsGrant
<1>3. ASSUME ~staleGrant
      PROVE  applied = {} /\ record.receipt = None /\ \E k \in Call : ks = {k}
  <2>1. PICK k \in Call : k \in ks
    OBVIOUS
  <2>2. record.state = "pending" /\ record.id = k
    BY <1>0, <1>3, <2>1 DEF Core, SafeInv, Ticketed
  <2>3. \A a, b \in applied' : a = b
    BY <1>0, <1>3 DEF Core, SafeInv
  <2>4. ks = {k} /\ applied = {}
    BY <1>1, <2>1, <2>3
  <2>5. record.receipt = None
    BY <1>0, <2>2 DEF RecordType
  <2> QED
    BY <2>4, <2>5
<1>4. Contract!Write(ks)
  <2>1. \/ staleGrant
        \/ applied = {} /\ record.receipt = None /\ \E k \in Call : ks = {k}
    BY <1>3, Zenon
  <2>2. UNCHANGED <<granted, staleGrant, record.receipt, Given>>
    OBVIOUS
  <2>3. \A S : Contract!Cardinality(S) = Cardinality(S)
    BY DEF Contract!Cardinality, Cardinality
  <2> QED
    BY <1>1, <1>2, <2>1, <2>2, <2>3, Zenon DEF Contract!Write
<1> QED
  BY <1>4 DEF Contract!Next

LEMMA CutOffContract ==
  ASSUME IInv, IInv', NEW ks \in SUBSET Call, CutOff(ks),
         UNCHANGED <<record, granted, staleGrant>>, Given' = Given
  PROVE  Contract!Next \/ UNCHANGED Contract!contractVars
<1>1. PICK made \in SUBSET {k \in ks : call[k].pc = "effect"} : applied' = applied \union made
  BY DEF CutOff
<1>2. CASE made = {}
  BY <1>1, <1>2 DEF Contract!contractVars
<1>3. CASE made # {}
  <2>1. made \in SUBSET Call /\ \A k \in made : call[k].pc = "effect"
    BY <1>1
  <2> QED
    BY <1>1, <1>3, <2>1, WriteContract
<1> QED
  BY <1>2, <1>3

(* A request that stores a receipt stores that of its own write.            *)
LEMMA StoreContract ==
  ASSUME IInv, NEW k \in Call, record' \in {record, Stored(k)},
         UNCHANGED <<applied, granted, staleGrant>>, Given' = Given
  PROVE  Contract!Next \/ UNCHANGED Contract!contractVars
<1>0. TypeOK /\ CallInv(k) /\ RecordType(record) /\ RecordType(Stored(k))
  BY RecordFacts, StoredType DEF IInv, Core
<1>1. CASE record'.receipt = record.receipt
  BY <1>1 DEF Contract!contractVars
<1>2. CASE record'.receipt # record.receipt
  <2>1. record' = Stored(k) /\ record.state # "completed" /\ record.receipt = None
    BY <1>0, <1>2, StoredType DEF RecordType
  <2>2. call[k].pc = "complete" /\ record'.receipt = k
    BY <1>2, <2>1
       DEF Stored, Swapped, Pending, NoRecord, CompletedRecord, AmbiguousRecord
  <2>3. k \in applied /\ k \in Call \union {Legacy}
    BY <1>0, <2>2 DEF CallInv
  <2>4. Contract!Record(k)
    BY <2>1, <2>2, <2>3 DEF Contract!Record
  <2> QED
    BY <2>3, <2>4 DEF Contract!Next
<1> QED
  BY <1>1, <1>2

(* A request is given the receipt on record.                                *)
LEMMA AnswerContract ==
  ASSUME IInv, NEW k \in Call, call[k].pc \in {"read", "clear"},
         record.state = "completed", Return(k, "receipt", record.receipt),
         UNCHANGED <<record, applied, granted, staleGrant>>
  PROVE  Contract!Next
<1>0. TypeOK /\ CallInv(k) /\ RecordType(record) /\ record.receipt \in Origin \union {None}
  BY RecordFacts DEF IInv, Core, RecordType, Record
<1>1. /\ CallMoved(k) /\ call'[k].result = "receipt" /\ call'[k].receipt = record.receipt
  BY <1>0, ReturnFacts DEF RequestResult
<1>2. Given[k] = None /\ record.receipt # None
  BY <1>0 DEF CallInv, Given, RecordType
<1>3. Given' = [Given EXCEPT ![k] = record.receipt]
  BY <1>1 DEF Given, CallMoved
<1>4. Contract!Answer(k)
  BY <1>2, <1>3 DEF Contract!Answer
<1> QED
  BY <1>4 DEF Contract!Next

(* Who is not answered by a step leaves the answers as they are.            *)
LEMMA GivenKept ==
  ASSUME \A k \in Call : \/ call'[k] = call[k]
                         \/ call[k].result # "receipt" /\ call'[k].result # "receipt"
  PROVE  Given' = Given
  BY DEF Given

LEMMA AttemptingContract ==
  ASSUME IInv, IInv', NEW k \in Call, Attempting(k)
  PROVE  Contract!Next \/ UNCHANGED Contract!contractVars
<1>0. TypeOK /\ CallInv(k) /\ (call[k].pc # "done" => call[k].result # "receipt")
  BY DEF IInv, Core, CallInv
<1>1. ASSUME CallMoved(k), call[k].pc # "done", call'[k].result # "receipt"
      PROVE  Given' = Given
  BY <1>0, <1>1, GivenKept DEF CallMoved
<1>2. CASE Begin(k) \/ Mark(k) \/ Recheck(k) \/ Remove(k) \/ Complete(k)
  <2>1. /\ record' \in {record, Stored(k)} /\ UNCHANGED <<applied, granted, staleGrant>>
        /\ call[k].pc # "done"
    BY <1>2 DEF Begin, Mark, Recheck, Remove, Complete
  <2>2. CallMoved(k) /\ call'[k].result # "receipt"
    <3>1. CASE \E pc \in RequestPc : Goto(k, pc)
      BY <1>0, <2>1, <3>1, GotoFacts
    <3>2. CASE Fail(k, "changed") \/ Fail(k, "failed")
      BY <1>0, <3>2, FailFacts DEF RequestResult
    <3>3. CASE \E w \in Origin \union {None} :
                 call' = [call EXCEPT ![k].pc = "clear", ![k].receipt = w]
      <4>1. PICK w \in Origin \union {None} :
              call' = [call EXCEPT ![k].pc = "clear", ![k].receipt = w]
        BY <3>3
      <4>2. call' = [call EXCEPT ![k] = [call[k] EXCEPT !.pc = "clear", !.receipt = w]]
        BY <4>1
      <4>3. [call[k] EXCEPT !.pc = "clear", !.receipt = w] \in Request
        BY <1>0 DEF TypeOK, Request
      <4>4. CallMoved(k) /\ call'[k].result = call[k].result
        BY <1>0, <4>2, <4>3 DEF TypeOK, CallMoved
      <4> QED
        BY <1>0, <2>1, <4>4
    <3>4. record.receipt \in Origin \union {None} /\ k \in Origin
      BY <1>0 DEF TypeOK, Record, Origin
    <3> QED
      BY <1>2, <3>1, <3>2, <3>3, <3>4 DEF Begin, Mark, Recheck, Remove, Complete, RequestPc
  <2> QED
    BY <1>1, <2>1, <2>2, StoreContract
<1>3. CASE Reserve(k) \/ Claim(k)
  <2>1. /\ record' \in {record, Stored(k)} /\ UNCHANGED <<applied, granted, staleGrant>>
        /\ call[k].pc # "done"
    BY <1>3 DEF Reserve, Claim
  <2>2. CallMoved(k) /\ call'[k].result # "receipt"
    <3>1. CASE Goto(k, "read")
      BY <1>0, <2>1, <3>1, GotoFacts DEF RequestPc
    <3>2. CASE \E note \in Operator \union {None} : Hold(k, "mark", Pending(k, note))
      BY <1>0, <2>1, <3>2, PendingType, HoldFacts DEF RequestPc, RecordType
    <3>3. CASE TryAgain(k)
      BY <1>0, <2>1, <3>3, TryAgainFacts
    <3>4. call[k].held.note \in Operator \union {None}
      BY <1>0 DEF TypeOK, Request, Record
    <3> QED
      BY <1>3, <3>1, <3>2, <3>3, <3>4 DEF Reserve, Claim
  <2> QED
    BY <1>1, <2>1, <2>2, StoreContract
<1>4. CASE Release(k) \/ ClearRemoved(k) \/ Blur(k) \/ StorageFails(k)
  <2>1. /\ record' \in {record, Stored(k)} /\ UNCHANGED <<applied, granted, staleGrant>>
        /\ call[k].pc # "done" /\ (Fail(k, "failed") \/ Fail(k, "error"))
    BY <1>4 DEF Release, ClearRemoved, Blur, StorageFails
  <2>2. CallMoved(k) /\ call'[k].result # "receipt"
    BY <1>0, <2>1, FailFacts DEF RequestResult
  <2> QED
    BY <1>1, <2>1, <2>2, StoreContract
<1>5. CASE Read(k)
  <2>1. UNCHANGED <<record, applied, granted, staleGrant>> /\ call[k].pc = "read"
    BY <1>5 DEF Read
  <2>2. CASE record.state = "completed" /\ Return(k, "receipt", record.receipt)
    BY <2>1, <2>2, AnswerContract
  <2>3. CASE TryAgain(k) \/ Fail(k, "rejected") \/ Fail(k, "unavailable")
    <3>1. CallMoved(k) /\ call'[k].result # "receipt"
      BY <1>0, <2>1, <2>3, TryAgainFacts, FailFacts DEF RequestResult
    <3> QED
      BY <1>1, <2>1, <3>1, StoreContract
  <2>4. CASE Hold(k, "claim", record)
    <3>1. CallMoved(k) /\ call'[k].result # "receipt"
      BY <1>0, <2>1, <2>4, HoldFacts DEF RequestPc, TypeOK
    <3> QED
      BY <1>1, <2>1, <3>1, StoreContract
  <2> QED
    BY <1>5, <2>2, <2>3, <2>4 DEF Read
<1>6. CASE Clear(k)
  <2>1. /\ UNCHANGED <<record, applied, granted, staleGrant>> /\ call[k].pc = "clear"
        /\ Return(k, "receipt", call[k].receipt)
    BY <1>6 DEF Clear
  <2>2. record.state = "completed" /\ call[k].receipt = record.receipt
    BY <1>0, <2>1 DEF CallInv, Answered
  <2> QED
    BY <2>1, <2>2, AnswerContract
<1>7. CASE Effect(k)
  <2>1. /\ UNCHANGED <<record, granted, staleGrant>> /\ call[k].pc = "effect"
        /\ applied' = applied \/ applied' = applied \union {k}
        /\ \E pc \in RequestPc : Goto(k, pc)
    BY <1>7 DEF Effect, RequestPc
  <2>2. Given' = Given
    BY <1>0, <1>1, <2>1, GotoFacts
  <2>3. CASE applied' = applied
    BY <2>1, <2>2, <2>3, StoreContract
  <2>4. CASE applied' = applied \union {k}
    <3>1. {k} \in SUBSET Call /\ {k} # {} /\ \A j \in {k} : call[j].pc = "effect"
      BY <2>1
    <3> QED
      BY <2>1, <2>2, <2>4, <3>1, WriteContract
  <2> QED
    BY <2>1, <2>3, <2>4
<1>8. CASE Interrupt(k)
  <2>1. /\ UNCHANGED <<record, granted, staleGrant>> /\ call[k].pc # "done"
        /\ CutOff({k}) /\ Fail(k, "interrupted")
    BY <1>8 DEF Interrupt, Running
  <2>2. Given' = Given
    BY <1>0, <1>1, <2>1, FailFacts DEF RequestResult
  <2> QED
    BY <2>1, <2>2, CutOffContract
<1> QED
  BY <1>2, <1>3, <1>4, <1>5, <1>6, <1>7, <1>8 DEF Attempting

LEMMA WritingContract ==
  ASSUME IInv, NEW o \in Operator, op[o].pc = "write", Reconcile(o), UNCHANGED <<call, applied>>
  PROVE  Contract!Next \/ UNCHANGED Contract!contractVars
<1>0. /\ TypeOK /\ OpInv(o) /\ op[o] \in Recovery /\ RecordType(record) /\ SafeInv
      /\ applied \subseteq Call \union {Legacy} /\ staleGrant \in BOOLEAN
  BY RecordFacts DEF IInv, Core, TypeOK, Origin
<1>1. Given' = Given
  BY DEF Given
<1>2. CASE ~Reconcilable(o)
  BY <1>0, <1>1, <1>2 DEF Reconcile, Contract!contractVars
<1>3. CASE Reconcilable(o)
  <2>1. /\ record = op[o].seen /\ Unresolved(record) /\ record' = ReconciledRecord(o)
    BY <1>0, <1>3 DEF OpInv, Reconcile, Reconcilable
  <2>2. record.state # "completed" /\ record.receipt = None
    BY <1>0, <2>1 DEF Unresolved, RecordType
  <2>3. CASE op[o].resolution = "Unresolved"
    <3>1. record'.receipt = record.receipt /\ UNCHANGED <<granted, staleGrant>>
      BY <1>0, <1>3, <2>1, <2>3 DEF Reconcile, ReconciledRecord
    <3> QED
      BY <1>1, <3>1 DEF Contract!contractVars
  <2>4. CASE op[o].resolution = "Confirmed"
    <3>1. record'.receipt = op[o].receipt /\ UNCHANGED <<granted, staleGrant>>
      BY <1>0, <1>3, <2>1, <2>4 DEF Reconcile, ReconciledRecord
    <3>2. op[o].receipt \in applied /\ op[o].receipt \in Call \union {Legacy}
      BY <1>0, <2>4 DEF OpInv
    <3>3. Contract!Record(op[o].receipt)
      BY <1>1, <2>2, <3>1, <3>2 DEF Contract!Record
    <3> QED
      BY <3>2, <3>3 DEF Contract!Next
  <2>5. CASE op[o].resolution = "SafeRetry"
    <3>1. /\ record'.receipt = None /\ granted' = granted \union {o}
          /\ staleGrant' = (staleGrant \/ record.id # op[o].about)
      BY <1>0, <1>3, <2>1, <2>5 DEF Reconcile, ReconciledRecord
    <3>2. o \notin granted
      BY <1>0 DEF OpInv
    <3>3. applied # {} => staleGrant'
      <4> SUFFICES ASSUME NEW a \in applied, ~staleGrant
                   PROVE  record.id # op[o].about
        BY <1>0, <3>1
      <4>1. record.id = a
        BY <1>0, <2>2 DEF SafeInv
      <4> QED
        BY <1>0, <2>5, <4>1 DEF OpInv
    <3>4. staleGrant' \in BOOLEAN /\ (staleGrant => staleGrant')
      BY <1>0, <3>1
    <3>5. Contract!Release(o)
      BY <1>1, <2>2, <3>1, <3>2, <3>3, <3>4 DEF Contract!Release
    <3> QED
      BY <3>5 DEF Contract!Next
  <2> QED
    BY <1>0, <2>3, <2>4, <2>5 DEF Recovery
<1> QED
  BY <1>2, <1>3

LEMMA StepContract ==
  ASSUME IInv, IInv', [Next]_vars
  PROVE  Contract!Next \/ UNCHANGED Contract!contractVars
<1>1. ASSUME NEW k \in Call, Attempting(k)
      PROVE  Contract!Next \/ UNCHANGED Contract!contractVars
  BY <1>1, AttemptingContract
<1>2. ASSUME NEW o \in Operator, Recovering(o)
      PROVE  Contract!Next \/ UNCHANGED Contract!contractVars
  <2>1. CASE OpWrite(o) \/ OpWriteLost(o)
    BY <2>1, WritingContract DEF OpWrite, OpWriteLost
  <2>2. CASE ~(OpWrite(o) \/ OpWriteLost(o))
    <3>1. UNCHANGED <<record, call, applied, granted, staleGrant>>
      BY <1>2, <2>2 DEF Recovering, Inspect, OpRead, OpMark, OpStops, OpClear
    <3> QED
      BY <3>1 DEF Contract!contractVars, Given
  <2> QED
    BY <2>1, <2>2
<1>3. CASE Observing \/ Age \/ UNCHANGED vars
  <2>1. UNCHANGED <<record, call, applied, granted, staleGrant>>
    BY <1>3 DEF Observing, Backfill, BackfillMark, Scan, ScanRemove, GotoScan, Age, vars
  <2> QED
    BY <2>1 DEF Contract!contractVars, Given
<1>4. CASE Crash
  <2>1. UNCHANGED <<record, granted, staleGrant>> /\ CutOff(Call) /\ Call \in SUBSET Call
    BY <1>4 DEF Crash
  <2>2. \A k \in Call : \/ call'[k] = call[k]
                        \/ /\ call[k].pc # "done"
                           /\ call'[k].result = "interrupted"
    BY <1>4 DEF Crash, Running
  <2>3. \A k \in Call : call[k].pc # "done" => call[k].result # "receipt"
    BY DEF IInv, Core, CallInv
  <2>4. Given' = Given
    BY <2>2, <2>3, GivenKept
  <2> QED
    BY <2>1, <2>4, CutOffContract
<1> QED
  BY <1>1, <1>2, <1>3, <1>4 DEF Next

--------------------------------------------------------------------------------
(* Theorems.                                                                *)

\* Tickets and the reservation in the store stay in step, whatever requests,
\* Recovery Commands, crashes and storage errors do (executeDelivery,
\* reconcileDelivery).
THEOREM Inductive == Spec => []IInv
  BY InitInv, NextInv, PTL DEF Spec

\* Every stored record carries what its state says it carries.
THEOREM TypeCorrect == Spec => []TypeOK
<1>1. IInv => TypeOK
  BY DEF IInv
<1> QED
  BY <1>1, Inductive, PTL

\* Discord sees the intended write at most once, as long as no Recovery Command
\* released another reservation than the one its operator looked at.
THEOREM NeverTwice == Spec => []NoDuplicate
<1>1. IInv => NoDuplicate
  <2> SUFFICES ASSUME IInv, ~staleGrant
               PROVE  Cardinality(applied) <= 1
    BY DEF NoDuplicate
  <2>1. \A a, b \in applied : a = b
    BY DEF IInv, Core, SafeInv
  <2>2. CASE applied = {}
    <3>1. Cardinality(applied) = 0
      BY <2>2, FS_EmptySet, Zenon
    <3> QED
      BY <3>1
  <2>3. CASE applied # {}
    <3>1. PICK a : a \in applied
      BY <2>3
    <3>2. applied = {a}
      BY <2>1, <3>1
    <3>3. Cardinality(applied) = 1
      BY <3>2, FS_Singleton, Zenon
    <3> QED
      BY <3>3
  <2> QED
    BY <2>2, <2>3
<1> QED
  BY <1>1, Inductive, PTL

\* Every write after the first was released by a Recovery Command of its own,
\* even when the commands are mistaken.
THEOREM GrantsCover == Spec => []AppliedNeedsGrant
<1>1. IInv => AppliedNeedsGrant
  BY GrantsCovered
<1> QED
  BY <1>1, Inductive, PTL

\* A request about to call Discord owns the stored reservation.
THEOREM AttemptOwns == Spec => []AttemptOwnsReservation
<1>1. IInv => AttemptOwnsReservation
  BY DEF IInv, Core, SafeInv, AttemptOwnsReservation, Ticketed
<1> QED
  BY <1>1, Inductive, PTL

\* A receipt a request returns is the stored one, of a write Discord made.
THEOREM ReceiptsAlwaysAgree == Spec => []ReceiptsAgree
<1>1. IInv => ReceiptsAgree
  BY DEF IInv, Core, CallInv, Answered, ReceiptsAgree
<1> QED
  BY <1>1, Inductive, PTL

\* No step changes or removes a recorded receipt.
THEOREM CompletedStays == Spec => CompletedIsFinal
<1>1. IInv /\ [Next]_vars => (record.state = "completed" => record' = record)
  <2> SUFFICES ASSUME IInv, [Next]_vars, record.state = "completed"
               PROVE  record' = record
    OBVIOUS
  <2>1. ASSUME NEW k \in Call, Attempting(k)
        PROVE  record' = record
    <3>1. record' \in {record, Stored(k)}
      BY <2>1 DEF Attempting, Begin, Reserve, Read, Claim, Mark, Release, Effect, Complete,
                  Recheck, Clear, Remove, ClearRemoved, Blur, StorageFails, Interrupt
    <3> QED
      BY <3>1, StoredType
  <2>2. ASSUME NEW o \in Operator, Recovering(o)
        PROVE  record' = record
    <3>1. CASE OpWrite(o) \/ OpWriteLost(o)
      BY <3>1, ReconcileType DEF OpWrite, OpWriteLost
    <3>2. CASE ~(OpWrite(o) \/ OpWriteLost(o))
      BY <2>2, <3>2 DEF Recovering, Inspect, OpRead, OpMark, OpStops, OpClear
    <3> QED
      BY <3>1, <3>2
  <2>3. CASE Observing \/ Age \/ Crash \/ UNCHANGED vars
    BY <2>3 DEF Observing, Backfill, BackfillMark, Scan, ScanRemove, GotoScan, Age, Crash, vars
  <2> QED
    BY <2>1, <2>2, <2>3 DEF Next
<1>2. IInv /\ [Next]_vars => [record.state = "completed" => record' = record]_vars
  BY <1>1
<1> QED
  BY <1>2, Inductive, PTL DEF Spec, CompletedIsFinal

\* Reservations, Recovery Commands and the failures around them keep the promise
\* of one write and one receipt (DeliveryContract).
THEOREM Implements == Spec => ImplementsContract
<1>1. Init => Contract!Init
  <2> SUFFICES ASSUME Init
               PROVE  Contract!Init
    OBVIOUS
  <2>1. applied \in {{}, {Legacy}} /\ granted = {} /\ staleGrant = FALSE
    BY DEF Init
  <2>2. record.receipt = None
    <3>1. CASE record = NoRecord
      BY <3>1 DEF NoRecord
    <3>2. CASE \E k \in Call : record = [Pending(k, None) EXCEPT !.id = Legacy]
      BY <3>2 DEF Pending
    <3> QED
      BY <3>1, <3>2 DEF Init
  <2>3. Given = [k \in Call |-> None]
    BY DEF Init, Given
  <2> QED
    BY <2>1, <2>2, <2>3 DEF Contract!Init
<1>2. IInv /\ IInv' /\ [Next]_vars => [Contract!Next]_(Contract!contractVars)
  BY StepContract
<1> QED
  BY <1>1, <1>2, Inductive, PTL DEF Spec, ImplementsContract, Contract!Spec

================================================================================
