------------------------- MODULE TeamSubmissionsProofs -------------------------
(***************************************************************************)
(* Theorems about TeamSubmissions for any number of teams, values,         *)
(* invocations, rows, faults and presses.                                  *)
(***************************************************************************)
EXTENDS TeamSubmissions, WellFoundedInduction, TLAPS

-----------------------------------------------------------------------------
(* Types.  An operation that has registered a team knows its row, and has a
   snapshot to record with it; what it writes names rows.                    *)
Snapped(rec) == (\E k \in Team : rec.place[k] # None) => rec.snap # {}
Rowed(items) == \A item \in items : item.row # None

ProcessWell ==
  /\ \A k \in run.registered : content[run.inv][k] # None /\ run.place[k] \in Row
  /\ run.appended \subseteq run.registered
  /\ run.pc = "interim" => run.team \in run.registered
  /\ run.registered # {} \/ (\E k \in Team : run.old.place[k] # None) => run.undo # {}
  /\ run.pc \in WritePc \union {"applying", "terminal"} /\ run.registered # {} => run.snap # {}

RunWell ==
  run # None =>
    /\ Snapped(run.old) /\ Rowed(run.data)
    /\ run.op = "process" => ProcessWell
    /\ run.op = "decide" => clicks > 0

LateWell ==
  \A entry \in late :
    /\ entry[2].type = "upsert" => Snapped(entry[2].new) /\ entry[2].new.status # "missing"
    /\ entry[2].type = "write" => Rowed(entry[2].data)

TypeInv == TypeOK /\ RunWell /\ LateWell

-----------------------------------------------------------------------------
(* Versions.  No operation and no request given up is ahead of the record, and
   one that is level with it knows what the record places: nothing else has
   been recorded since.                                                      *)
Processes == run # None /\ run.op = "process"
Decides == run # None /\ run.op = "decide"
Level == run.version = record.version

(* The teams that the operation has gone through are registered; those ahead
   of it are where the operation found them.                                 *)
GoneThrough(r) ==
  r.op = "process" /\ r.pc \notin EndPc =>
    \A j \in Team :
      /\ content[r.inv][j] # None /\ (r.pc \in EntryPc => j < r.team) => j \in r.registered
      /\ r.pc \in EntryPc /\ (j > r.team \/ (j = r.team /\ r.pc # "interim")) =>
           r.place[j] = r.old.place[j]

(* A team that the record places and the operation's message has is placed by
   the operation too, or is the one whose append is under way.               *)
Unplacing == {"append", "reconcile", "readback"}
PlacedBy(r, rec) ==
  /\ r.op = "process" /\ r.pc \notin EndPc =>
       \A j \in Team : rec.place[j] # None /\ content[r.inv][j] # None =>
         r.place[j] # None \/ (j = r.team /\ r.pc \in Unplacing)
  /\ r.op = "decide" => rec.place = r.old.place /\ rec.entries = r.old.entries

RunKnows ==
  run # None =>
    /\ run.version <= record.version /\ (run.op = "decide" => run.version > 0)
    /\ GoneThrough(run) /\ (Level => PlacedBy(run, record))

KeepsPlaces(inv, new) ==
  \A k \in Team : record.place[k] # None /\ content[inv][k] # None => new.place[k] # None
LateKnows ==
  \A entry \in late : entry[2].type = "upsert" =>
    /\ entry[2].expected = None \/ entry[2].expected \in 1..record.version
    /\ entry[2].expected = record.version => KeepsPlaces(entry[2].inv, entry[2].new)

Requesting(k) == Processes /\ run.pc = "append" /\ run.team = k
AppendsCounted ==
  Had({"overwritten"}) \/
  \A k \in Team :
    appends[k] + (IF Requesting(k) THEN 1 ELSE 0)
      <= removals[k] + (IF record.place[k] # None THEN 1 ELSE 0)

AppendInv == TypeInv /\ RunKnows /\ LateKnows /\ AppendsCounted

-----------------------------------------------------------------------------
(* The confirmation.  A record that can be decided names the confirmation that
   lists its entries, or the operation that has just recorded them has still
   to bind or to end.                                                        *)
Lists(i) == record.entries = content[i]
Named == record.conf \in Invocation /\ Lists(record.conf)
Concluding == Processes /\ run.pc \in EndPc \union {"bind", "enable"}

Bound ==
  /\ record.status \in Actionable => Named \/ (Concluding /\ Lists(run.inv))
  /\ record.status \in Actionable /\ Processes /\ run.pc = "bind" => Lists(run.inv)
  /\ Decides /\ run.pc = "confirm" => run.old.entries = content[run.inv]
  /\ \A entry \in late : entry[2].type = "upsert" /\ entry[2].new.status = "confirmed" =>
       /\ entry[2].expected # None
       /\ entry[2].expected = record.version => Lists(entry[2].inv)

ConfirmInv == AppendInv /\ (Had({"unbound"}) \/ Bound)

-----------------------------------------------------------------------------
(* The rows of other messages.  They stand as they are, and neither the record
   nor the operation nor a request given up names one of them, or the whole
   column, unless it is about to forget the pending place that named it.     *)
Spoiled == Had({"adopted", "forgotten", "reused"})
Unwhole(items) == \A item \in items : item.row # Column

OthersStand ==
  \A o \in others : o[2] \in {Other} \union [team: Team, value: Value, marked: {FALSE}]
                       /\ sheet[o[1]] = o[2]

Absent(inv, k) == content[inv][k] = None
Opening == EntryPc \union {"data", "applying"}

RunKeeps ==
  run # None =>
    /\ Unwhole(run.old.snap)
    /\ Decides => Unwhole(run.data)
    /\ Processes /\ run.pc \notin EndPc =>
         /\ Unwhole(run.undo)
         /\ run.pc \in WritePc \union {"terminal"} => Unwhole(run.data) /\ Unwhole(run.snap)
         /\ run.version = 0 => \A k \in Team : run.old.place[k] = None
         /\ \A k \in Team : Absent(run.inv, k) => run.place[k] = run.old.place[k]
         /\ run.pc \in Opening /\ Level =>
              \A k \in Team : Absent(run.inv, k) => record.place[k] = run.old.place[k]
         /\ run.pc = "applying" =>
              (Unwhole(run.data) /\ Unwhole(run.snap))
                \/ \E k \in Team : Absent(run.inv, k) /\ run.old.place[k] = Column

LateKeeps ==
  \A entry \in late :
    /\ entry[2].type = "write" => Unwhole(entry[2].data)
    /\ entry[2].type = "upsert" =>
         \/ Unwhole(entry[2].new.snap)
         \/ /\ entry[2].expected # None
            /\ entry[2].expected = record.version =>
                 \E k \in Team : /\ Absent(entry[2].inv, k) /\ record.place[k] = Column
                                 /\ entry[2].new.place[k] = None

(* The same of the rows named, one by one.                                   *)
ItemsApart(items) == \A item \in items : item.row \notin OtherRow
PlacesApart(place) == \A k \in Team : place[k] \notin OtherRow
RecordApart(rec) == ItemsApart(rec.snap) /\ PlacesApart(rec.place)
RunApart ==
  run # None =>
    /\ RecordApart(run.old) /\ ItemsApart(run.data)
    /\ Processes =>
         /\ ItemsApart(run.undo) /\ ItemsApart(run.snap) /\ PlacesApart(run.place)
         /\ \A k \in Team : run.dups[k] \intersect OtherRow = {}
LateApart ==
  \A entry \in late :
    /\ entry[2].type = "upsert" => RecordApart(entry[2].new)
    /\ entry[2].type = "write" => ItemsApart(entry[2].data)

Kept ==
  /\ OthersStand /\ Mentioned \intersect OtherRow = {}
  /\ Unwhole(record.snap) /\ RunKeeps /\ LateKeeps

KeptInv == AppendInv /\ (Spoiled \/ Kept)

-----------------------------------------------------------------------------
(* The truth of the record.  Until an operation writes, every row that it or
   the record places holds an entry of the team placed there, so no two teams
   share a row and what blanks or rewrites one leaves the others.  While it
   writes, the record is the one it has just made "applying", or the late
   first upsert of another operation, which places no row.                   *)
Misled == Had({"forgotten", "late write"})
Concluded == Actionable \union {"confirmed"}
Live == Editable \union {"confirmed"}

HoldsTeam(s, r, k) == s[r] \in Entry /\ s[r].team = k
HoldsTeams(s, place) == \A k \in Team : place[k] \in Row => HoldsTeam(s, place[k], k)
HoldsEntries(s, rec) ==
  \A k \in Team : rec.place[k] # None =>
    /\ rec.place[k] \in Row
    /\ s[rec.place[k]] = [team |-> k, value |-> rec.entries[k], marked |-> FALSE]
Truthful(s, rec) ==
  /\ rec.status \in Live => HoldsTeams(s, rec.place)
  /\ rec.status \in Concluded => HoldsEntries(s, rec)
Rowless(rec) == rec.status \in {"applying", "empty"} /\ \A k \in Team : rec.place[k] \notin Row

Writing == run # None /\ run.pc \in WritePc \union {"restore"}

(* What is written to the row of a team that stays is the team's entry.      *)
WritesTeams ==
  \A k \in run.registered :
    /\ [key |-> k, row |-> run.place[k], cell |-> Clean(k)] \in run.data
    /\ \A item \in run.data : RowOf(item) = run.place[k] => item.cell = Clean(k)

RowsApart ==
  /\ HoldsTeams(sheet, run.place) /\ HoldsTeams(sheet, run.old.place)
  /\ \A k \in run.registered :
       run.place[k] \notin run.dups[k] /\ \A r \in run.dups[k] : HoldsTeam(sheet, r, k)

ProcessTells ==
  /\ run.version = 0 =>
       /\ run.registered = {} /\ run.pc \notin EntryPc \ {"entry"}
       /\ \A k \in Team : run.place[k] = None
  /\ Level => record.status \in Editable
  /\ \A k \in Team : Absent(run.inv, k) => run.place[k] = run.old.place[k]
  /\ run.pc \in Opening => RowsApart
  /\ run.pc \in Opening /\ Level =>
       \A k \in Team : Absent(run.inv, k) => record.place[k] = run.old.place[k]
  /\ run.pc = "applying" =>
       WritesTeams \/ \E k \in Team : Absent(run.inv, k) /\ run.old.place[k] = Column
  /\ run.pc \in WritePc => WritesTeams
  /\ run.pc = "terminal" => \A k \in run.registered : sheet[run.place[k]] = Clean(k)

Confirming ==
  /\ HoldsTeams(sheet, run.old.place) /\ HoldsEntries(sheet, run.old)
  /\ Level => record.status \in Editable

WriteTells ==
  Writing /\ record.status \in Live =>
    \/ Rowless(record)
    \/ Processes /\ Level /\ record.status = "applying" /\ record.place = Places(run.registered)

RunTells ==
  /\ Processes /\ run.pc \notin EndPc => ProcessTells
  /\ Decides /\ run.pc = "confirm" => Confirming

LateTells ==
  \A entry \in late : entry[2].type = "upsert" =>
    /\ entry[2].expected = None => Rowless(entry[2].new)
    /\ entry[2].expected = record.version /\ entry[2].new.status \in Live =>
         record.status \in Editable /\ Truthful(sheet, entry[2].new) /\ ~Writing

Told == Truthful(sheet, record) /\ RunTells /\ WriteTells /\ LateTells

ToldInv == AppendInv /\ (Misled \/ Told)

-----------------------------------------------------------------------------
(* The operators of the model.                                             *)

(* A set of naturals has a least element, and a set of team numbers or rows a
   greatest one.                                                             *)
LEMMA LeastExists ==
  ASSUME NEW T, T \subseteq Nat, T # {}
  PROVE  \E x \in T : \A y \in T : x <= y
<1>1. PICK x \in T : \A y \in T : ~ (<<y, x>> \in OpToRel(<, Nat))
  BY NatLessThanWellFounded, WFMin, Zenon
<1>2. \A y \in T : ~ (<<y, x>> \in {ss \in Nat \X Nat : ss[1] < ss[2]})
  BY <1>1, Zenon DEF OpToRel
<1>3. \A y \in T : ~ (y < x)
  BY <1>2
<1> QED
  BY <1>3

LEMMA GreatestExists ==
  ASSUME NEW n \in Nat, NEW T, T \subseteq 0..n, T # {}
  PROVE  \E x \in T : \A y \in T : y <= x
<1> DEFINE U == {n - y : y \in T}
<1>0. \A y \in T : n - y \in Nat
  OBVIOUS
<1>1. U \subseteq Nat /\ U # {}
  BY <1>0
<1> HIDE DEF U
<1>2. PICK u \in U : \A v \in U : u <= v
  BY <1>1, LeastExists
<1>3. PICK x \in T : u = n - x
  BY <1>2 DEF U
<1>4. ASSUME NEW y \in T PROVE y <= x
  <2>1. n - y \in U
    BY DEF U
  <2> QED
    BY <1>2, <1>3, <2>1
<1> QED
  BY <1>4

LEMMA MinOf ==
  ASSUME NEW T, T \subseteq Nat, T # {}
  PROVE  Min(T) \in T /\ \A y \in T : Min(T) <= y
BY LeastExists DEF Min

LEMMA LastRowOf ==
  ASSUME ConstantsAssumption, NEW s
  PROVE  /\ LastRow(s) \in 0..MaxRow
         /\ LastRow(s) # 0 => s[LastRow(s)] # Blank
         /\ \A r \in Row : s[r] # Blank => r <= LastRow(s)
<1> DEFINE T == {0} \union {r \in Row : s[r] # Blank}
<1>1. MaxRow \in Nat /\ T \subseteq 0..MaxRow /\ T # {}
  BY DEF Row, ConstantsAssumption
<1>2. Max(T) \in T /\ \A y \in T : Max(T) >= y
  <2>1. PICK x \in T : \A y \in T : y <= x
    BY <1>1, GreatestExists
  <2>2. \A y \in T : x >= y
    BY <1>1, <2>1
  <2> QED
    BY <2>2 DEF Max
<1>3. LastRow(s) = Max(T)
  BY DEF LastRow
<1> HIDE DEF T
<1>4. LastRow(s) \in T /\ LastRow(s) \in 0..MaxRow /\ \A y \in T : LastRow(s) >= y
  BY <1>1, <1>2, <1>3
<1> QED
  BY <1>1, <1>4 DEF T, Row

LEMMA NextTeamOf ==
  ASSUME ConstantsAssumption, NEW inv, NEW k \in 1..(Teams + 1)
  PROVE  /\ NextTeam(inv, k) \in k..(Teams + 1)
         /\ NextTeam(inv, k) <= Teams => content[inv][NextTeam(inv, k)] # None
         /\ \A j \in Team : j >= k /\ content[inv][j] # None => NextTeam(inv, k) <= j
<1> DEFINE T == {Teams + 1} \union {j \in k..Teams : content[inv][j] # None}
<1>1. Teams \in Nat /\ T \subseteq Nat /\ T # {} /\ T \subseteq k..(Teams + 1)
  BY DEF ConstantsAssumption
<1>2. NextTeam(inv, k) = Min(T)
  BY DEF NextTeam
<1> HIDE DEF T
<1>3. NextTeam(inv, k) \in T /\ \A y \in T : NextTeam(inv, k) <= y
  BY <1>1, <1>2, MinOf
<1> QED
  BY <1>1, <1>3 DEF T, Team

(* Among the items written to a row one wins, so a row keeps holding a cell.  *)
LEMMA WinnerExists ==
  ASSUME ConstantsAssumption, NEW hits, hits \subseteq Item, hits # {}
  PROVE  \E item \in hits : Wins(item, hits)
<1>1. CASE \E item \in hits : item.cell = Blank
  BY <1>1 DEF Wins
<1>2. CASE (\A item \in hits : item.cell # Blank) /\ \A item \in hits : item.key = None
  BY <1>2 DEF Wins
<1>3. CASE (\A item \in hits : item.cell # Blank) /\ \E item \in hits : item.key # None
  <2> DEFINE T == {item.key : item \in {i \in hits : i.key # None}}
  <2>1. Teams \in Nat /\ T \subseteq 0..Teams /\ T # {}
    BY <1>3 DEF Item, Team, ConstantsAssumption
  <2>2. PICK x \in T : \A y \in T : y <= x
    BY <2>1, GreatestExists
  <2>3. PICK item \in hits : item.key # None /\ item.key = x
    BY <2>2
  <2>4. \A other \in hits : other.key # None => other.key <= item.key
    BY <2>2, <2>3
  <2> QED
    BY <1>3, <2>3, <2>4 DEF Wins
<1> QED
  BY <1>1, <1>2, <1>3

LEMMA WrittenTyped ==
  ASSUME ConstantsAssumption, NEW s \in [Row -> Cell], NEW items, items \subseteq Item
  PROVE  Written(s, items) \in [Row -> Cell]
<1>1. ASSUME NEW r \in Row, Hitting(items, r) # {}
      PROVE  (CHOOSE item \in Hitting(items, r) : Wins(item, Hitting(items, r))).cell \in Cell
  <2>1. Hitting(items, r) \subseteq Item
    BY DEF Hitting
  <2>2. (CHOOSE item \in Hitting(items, r) : Wins(item, Hitting(items, r))) \in Item
    BY <1>1, <2>1, WinnerExists
  <2> QED
    BY <2>2 DEF Item
<1> QED
  BY <1>1 DEF Written

LEMMA FoundTyped ==
  ASSUME ConstantsAssumption, NEW k \in Team, Found(k) # {}
  PROVE  Found(k) \subseteq Row
BY DEF Found, RowsWith

LEMMA MinRow ==
  ASSUME ConstantsAssumption, NEW rows, rows \subseteq Row, rows # {}
  PROVE  Min(rows) \in rows /\ Min(rows) \in Row
<1>1. rows \subseteq Nat
  BY DEF Row
<1> QED
  BY <1>1, MinOf

LEMMA BlankRowTyped ==
  ASSUME NEW k \in Team \union {None}, NEW row \in Place
  PROVE  BlankRow(k, row) \in Item
BY DEF BlankRow, Item, Cell

(* A step of the operation that changes only where it stands.                *)
KeptBut(r) ==
  /\ r.op = run.op /\ r.inv = run.inv /\ r.old = run.old /\ r.version = run.version
  /\ r.data = run.data
KeptProcess(r) ==
  /\ r.team = run.team /\ r.place = run.place /\ r.undo = run.undo /\ r.dups = run.dups
  /\ r.registered = run.registered /\ r.appended = run.appended /\ r.snap = run.snap

LEMMA ToProcess ==
  ASSUME run \in ProcessRun, NEW pc \in ProcessPc
  PROVE  /\ To(pc) \in ProcessRun /\ To(pc).pc = pc
         /\ KeptBut(To(pc)) /\ KeptProcess(To(pc))
BY DEF To, ProcessRun, KeptBut, KeptProcess

LEMMA ToDecide ==
  ASSUME run \in DecideRun, NEW pc \in DecidePc
  PROVE  To(pc) \in DecideRun /\ To(pc).pc = pc /\ KeptBut(To(pc))
BY DEF To, DecideRun, KeptBut

LEMMA RunTyped ==
  ASSUME TypeOK
  PROVE  /\ Processes <=> run # None /\ run \in ProcessRun
         /\ Decides <=> run # None /\ run \in DecideRun
         /\ run # None => (Processes \/ Decides) /\ ~(Processes /\ Decides)
         /\ Processes => run.pc \in ProcessPc /\ run.team \in 1..(Teams + 1)
         /\ Decides => run.pc \in DecidePc
         /\ run # None => run.inv \in Invocation /\ run.old \in Submission
                            /\ run.version \in Nat /\ run.data \subseteq Item
BY DEF TypeOK, Processes, Decides, ProcessRun, DecideRun

(* Registering the rows a team was found in or appended to.                  *)
LEMMA RegisterTyped ==
  ASSUME ConstantsAssumption, run \in ProcessRun, NEW k \in Team,
         NEW rows, rows \subseteq Row, rows # {}
  PROVE  LET r == Register(k, rows)
         IN /\ r \in ProcessRun /\ KeptBut(r)
            /\ r.pc = run.pc /\ r.team = run.team /\ r.undo = run.undo
            /\ r.appended = run.appended /\ r.snap = run.snap
            /\ r.registered = run.registered \union {k}
            /\ r.place = [run.place EXCEPT ![k] = Min(rows)]
            /\ r.dups = [run.dups EXCEPT ![k] = rows \ {Min(rows)}]
<1>1. Min(rows) \in Row /\ Min(rows) \in Place /\ rows \ {Min(rows)} \in SUBSET Row
  BY MinRow DEF Place
<1>2. /\ [run.place EXCEPT ![k] = Min(rows)] \in [Team -> Place]
      /\ [run.dups EXCEPT ![k] = rows \ {Min(rows)}] \in [Team -> SUBSET Row]
      /\ run.registered \union {k} \in SUBSET Team
  BY <1>1 DEF ProcessRun
<1> QED
  BY <1>2 DEF Register, ProcessRun, KeptBut

LEMMA RegisterAppendedTyped ==
  ASSUME ConstantsAssumption, run \in ProcessRun, NEW k \in Team,
         NEW rows, rows \subseteq Row, rows # {}
  PROVE  LET r == RegisterAppended(k, rows)
         IN /\ r \in ProcessRun /\ KeptBut(r)
            /\ r.pc = "interim" /\ r.team = run.team /\ r.snap = run.snap
            /\ r.appended = run.appended \union {k}
            /\ r.registered = run.registered \union {k}
            /\ r.place = [run.place EXCEPT ![k] = Min(rows)]
            /\ r.dups = [run.dups EXCEPT ![k] = rows \ {Min(rows)}]
            /\ r.undo = Without(run.undo, k) \union BlankRows(k, rows)
            /\ r.undo # {}
<1> DEFINE b == Register(k, rows)
<1>1. /\ b \in ProcessRun /\ KeptBut(b)
      /\ b.team = run.team /\ b.undo = run.undo
      /\ b.appended = run.appended /\ b.snap = run.snap
      /\ b.registered = run.registered \union {k}
      /\ b.place = [run.place EXCEPT ![k] = Min(rows)]
      /\ b.dups = [run.dups EXCEPT ![k] = rows \ {Min(rows)}]
  BY RegisterTyped
<1>2. /\ Without(run.undo, k) \union BlankRows(k, rows) \in SUBSET Item
      /\ Without(run.undo, k) \union BlankRows(k, rows) # {}
  <2>1. BlankRows(k, rows) \subseteq Item /\ BlankRows(k, rows) # {}
    BY BlankRowTyped DEF BlankRows, Place
  <2>2. Without(run.undo, k) \subseteq Item
    BY DEF Without, ProcessRun
  <2> QED
    BY <2>1, <2>2
<1>3. run.appended \union {k} \in SUBSET Team
  BY DEF ProcessRun
<1>4. RegisterAppended(k, rows) =
        [b EXCEPT !.appended = run.appended \union {k}, !.pc = "interim",
                  !.undo = Without(run.undo, k) \union BlankRows(k, rows)]
  BY <1>1 DEF RegisterAppended
<1> HIDE DEF b
<1>5. "interim" \in ProcessPc
  BY DEF ProcessPc, EntryPc
<1> DEFINE r == RegisterAppended(k, rows)
           undo == Without(run.undo, k) \union BlankRows(k, rows)
           appended == run.appended \union {k}
<1>a. /\ r = [b EXCEPT !.appended = appended, !.pc = "interim", !.undo = undo]
      /\ b \in ProcessRun /\ appended \in SUBSET Team /\ undo \in SUBSET Item
  BY <1>1, <1>2, <1>3, <1>4
<1> HIDE DEF r, undo, appended
<1>6. /\ r \in ProcessRun /\ r.op = b.op /\ r.inv = b.inv /\ r.old = b.old
      /\ r.version = b.version /\ r.data = b.data /\ r.pc = "interim" /\ r.team = b.team
      /\ r.snap = b.snap /\ r.appended = appended /\ r.registered = b.registered
      /\ r.place = b.place /\ r.dups = b.dups /\ r.undo = undo
  BY <1>5, <1>a DEF ProcessRun
<1>7. r \in ProcessRun /\ KeptBut(r) /\ undo # {}
  <2>1. undo # {}
    BY <1>2 DEF undo
  <2> QED
    BY <1>1, <1>6, <2>1 DEF KeptBut
<1> QED
  BY <1>1, <1>6, <1>7 DEF r, undo, appended

(* Going on to the next team that the message has.                           *)
LEMMA OnwardTyped ==
  ASSUME ConstantsAssumption, run \in ProcessRun, run.team \in Team, NEW r \in ProcessRun
  PROVE  LET o == Onward(r)
         IN /\ o \in ProcessRun
            /\ o.op = r.op /\ o.inv = r.inv /\ o.old = r.old /\ o.version = r.version
            /\ o.data = r.data /\ o.place = r.place /\ o.undo = r.undo /\ o.dups = r.dups
            /\ o.registered = r.registered /\ o.appended = r.appended /\ o.snap = r.snap
            /\ o.team \in 1..(Teams + 1) /\ o.team > run.team
            /\ \/ o.pc = "entry" /\ o.team \in Team /\ content[run.inv][o.team] # None
               \/ o.pc = "data" /\ o.team = Teams + 1
            /\ \A j \in Team : content[run.inv][j] # None /\ j < o.team => j <= run.team
<1> DEFINE t == NextTeam(run.inv, run.team + 1)
           p == AtTeam(run.inv, run.team + 1)
<1>1. /\ Teams \in Nat /\ run.team \in 1..Teams
      /\ t \in (run.team + 1)..(Teams + 1)
      /\ t <= Teams => content[run.inv][t] # None
      /\ \A j \in Team : j >= run.team + 1 /\ content[run.inv][j] # None => t <= j
  <2>1. Teams \in Nat /\ run.team \in 1..Teams
    BY DEF ConstantsAssumption, Team
  <2>2. run.team + 1 \in 1..(Teams + 1)
    BY <2>1
  <2> QED
    BY <2>1, <2>2, NextTeamOf
<1>2. t \in 1..(Teams + 1) /\ t > run.team /\ p = IF t > Teams THEN "data" ELSE "entry"
  BY <1>1 DEF AtTeam
<1> HIDE DEF t, p
<1>3. Onward(r) = [r EXCEPT !.team = t, !.pc = p]
  BY DEF Onward, t, p
<1>4. p \in ProcessPc
  BY <1>2 DEF ProcessPc, EntryPc
<1>5. /\ Onward(r) \in ProcessRun
      /\ Onward(r).team = t /\ Onward(r).pc = p
  BY <1>2, <1>3, <1>4 DEF ProcessRun
<1>6. \/ p = "entry" /\ t \in Team /\ content[run.inv][t] # None
      \/ p = "data" /\ t = Teams + 1
  BY <1>1, <1>2 DEF Team
<1>7. \A j \in Team : content[run.inv][j] # None /\ j < t => j <= run.team
  BY <1>1 DEF Team
<1>8. LET o == Onward(r)
      IN /\ o.op = r.op /\ o.inv = r.inv /\ o.old = r.old /\ o.version = r.version
         /\ o.data = r.data /\ o.place = r.place /\ o.undo = r.undo /\ o.dups = r.dups
         /\ o.registered = r.registered /\ o.appended = r.appended /\ o.snap = r.snap
  BY <1>3 DEF ProcessRun
<1> QED
  BY <1>2, <1>5, <1>6, <1>7, <1>8

-----------------------------------------------------------------------------
(* The type invariant, by the part of the state that a step changes.         *)
RecordOK ==
  /\ record \in Submission /\ Snapped(record)
  /\ (record.status = "missing" <=> record.version = 0) /\ (record.version = 0 => record = Missing)

EntryOK == run.pc \in EntryPc => run.team \in Team /\ content[run.inv][run.team] # None

RunOK ==
  /\ run \in ProcessRun \union DecideRun \union {None} /\ RunWell
  /\ Processes => run.inv \notin over /\ EntryOK

LateOK == late \subseteq (0..MaxFaults) \X Request /\ LateWell

RestOK ==
  /\ content \in [Invocation -> [Team -> Value \union {None}]]
  /\ sheet \in [Row -> Cell]
  /\ over \subseteq Invocation /\ shown \subseteq Invocation
  /\ others \subseteq Row \X Cell
  /\ {appends, removals} \subseteq [Team -> Nat] /\ past \subseteq Kind
  /\ before \in (SUBSET [Row -> Cell]) \X [Row -> Cell]
  /\ faults \in 0..MaxFaults /\ clicks \in 0..MaxClicks

LEMMA Parts == TypeInv <=> RecordOK /\ RunOK /\ LateOK /\ RestOK
<1>1. TypeOK <=> /\ RestOK /\ late \subseteq (0..MaxFaults) \X Request
                 /\ run \in ProcessRun \union DecideRun \union {None}
                 /\ Processes => run.inv \notin over /\ EntryOK
                 /\ RecordOK
  BY Zenon DEF TypeOK, RestOK, RecordOK, Processes, EntryOK, Snapped
<1> QED
  BY <1>1, Zenon DEF TypeInv, RunOK, LateOK

LEMMA PartsNext == RecordOK' /\ RunOK' /\ LateOK' /\ RestOK' => TypeInv'
<1>1. RestOK' /\ RecordOK' /\ RunOK' /\ LateOK' => TypeOK'
  BY Zenon DEF TypeOK, RestOK, RecordOK, RunOK, LateOK, Processes, EntryOK, Snapped
<1> QED
  BY <1>1, Zenon DEF TypeInv, RunOK, LateOK

(* A step to another place of the same operation.                            *)
LEMMA MoveOK ==
  ASSUME RunOK, run # None, NEW pc,
         Processes => pc \in ProcessPc,
         Decides => pc \in DecidePc,
         Processes /\ pc \in EntryPc => pc # "interim" /\ run.pc \in EntryPc,
         Processes /\ pc \in WritePc \union {"applying", "terminal"} =>
           run.pc \in WritePc \union {"applying", "terminal"},
         run' = To(pc), UNCHANGED <<content, over, clicks>>
  PROVE  RunOK' /\ run' # None
<1>1. CASE Processes
  <2>1. run \in ProcessRun
    BY <1>1 DEF RunOK, Processes, ProcessRun, DecideRun
  <2>2. run' \in ProcessRun /\ run'.pc = pc /\ KeptBut(run') /\ KeptProcess(run')
    BY <1>1, <2>1, ToProcess
  <2>3. run' # None /\ run'.op = "process"
    BY <1>1, <2>2, NoneAssumption DEF KeptBut, Processes
  <2>4. ProcessWell /\ EntryOK /\ Snapped(run.old) /\ Rowed(run.data) /\ run.inv \notin over
    BY <1>1 DEF RunOK, RunWell, Processes
  <2>5. ProcessWell'
    BY <1>1, <2>2, <2>4 DEF ProcessWell, KeptBut, KeptProcess, EntryPc
  <2>6. EntryOK'
    BY <1>1, <2>2, <2>4 DEF EntryOK, KeptBut, KeptProcess
  <2>7. RunWell'
    BY <2>2, <2>3, <2>4, <2>5 DEF RunWell, KeptBut, Snapped, Rowed
  <2> QED
    BY <2>2, <2>3, <2>4, <2>6, <2>7 DEF RunOK, KeptBut
<1>2. CASE Decides
  <2>1. run \in DecideRun
    BY <1>2 DEF RunOK, Decides, ProcessRun, DecideRun
  <2>2. run' \in DecideRun /\ KeptBut(run')
    BY <1>2, <2>1, ToDecide
  <2>3. run' # None /\ run'.op = "decide"
    BY <1>2, <2>2, NoneAssumption DEF KeptBut, Decides
  <2>4. Snapped(run.old) /\ Rowed(run.data) /\ clicks > 0
    BY <1>2 DEF RunOK, RunWell, Decides
  <2>5. RunWell'
    BY <2>2, <2>3, <2>4 DEF RunWell, KeptBut, Snapped, Rowed
  <2> QED
    BY <2>2, <2>3, <2>5 DEF RunOK, Processes
<1> QED
  BY <1>1, <1>2 DEF RunOK, Processes, Decides, ProcessRun, DecideRun

LEMMA FailedOK ==
  ASSUME RunOK, run # None, run' = Failed, UNCHANGED <<content, over, clicks>>
  PROVE  RunOK' /\ run' # None
<1>1. Failed = To("failed")
  BY DEF Failed, To
<1> QED
  BY <1>1, MoveOK DEF ProcessPc, DecidePc, EntryPc, EndPc, WritePc

(* An upsert, of an operation or late.                                       *)
LEMMA UpsertOK ==
  ASSUME RecordOK, RestOK, NEW req \in Upserts, req.new.status # "missing", Snapped(req.new),
         Upsert(req), UNCHANGED <<content, sheet, over, shown, others, appends, clicks>>,
         faults' \in 0..MaxFaults
  PROVE  RecordOK' /\ RestOK'
<1>1. /\ req.new \in Submission /\ record.version \in Nat
      /\ record' = [req.new EXCEPT !.version = record.version + 1]
  BY DEF RecordOK, Upserts, Upsert, Upserted, Submission
<1>2. /\ record' \in Submission /\ record'.version = record.version + 1
      /\ record'.status = req.new.status /\ record'.place = req.new.place
      /\ record'.snap = req.new.snap
  BY <1>1 DEF Submission
<1>3. RecordOK'
  BY <1>1, <1>2 DEF RecordOK, Snapped
<1>4. removals' \in [Team -> Nat]
  BY DEF RestOK, Upsert
<1>5. before' \in (SUBSET [Row -> Cell]) \X [Row -> Cell]
  BY DEF RestOK, Upsert, Began
<1>6. past' \subseteq Kind
  BY DEF RestOK, Upsert, Note, Kind
<1>7. RestOK'
  BY <1>4, <1>5, <1>6 DEF RestOK
<1> QED
  BY <1>3, <1>7

LEMMA FaultOK ==
  ASSUME RestOK, Fault, ConstantsAssumption
  PROVE  faults' \in 0..MaxFaults
BY DEF RestOK, Fault, ConstantsAssumption

(* Giving a request up.                                                      *)
LEMMA GiveUpOK ==
  ASSUME LateOK, RestOK, NEW req \in Request, GiveUp(req),
         req.type = "upsert" => Snapped(req.new) /\ req.new.status # "missing",
         req.type = "write" => Rowed(req.data)
  PROVE  LateOK'
<1>1. late' = late \union {<<faults, req>>} /\ <<faults, req>> \in (0..MaxFaults) \X Request
  BY DEF GiveUp, RestOK
<1>2. late' \subseteq (0..MaxFaults) \X Request
  BY <1>1 DEF LateOK
<1>3. LateWell'
  BY <1>1 DEF LateOK, LateWell, Snapped, Rowed
<1> QED
  BY <1>2, <1>3 DEF LateOK

LEMMA PersistOK ==
  ASSUME ConstantsAssumption, RecordOK, RunOK, LateOK, RestOK, run # None,
         NEW new \in Submission, Snapped(new), new.status # "missing", NEW next,
         Persist(new, next)
  PROVE  /\ RecordOK' /\ LateOK' /\ RestOK' /\ UNCHANGED <<content, over, clicks>>
         /\ run' \in {[next EXCEPT !.version = @ + 1], Failed}
<1> DEFINE req == [type |-> "upsert", inv |-> run.inv, new |-> new,
                   expected |-> IF run.version = 0 THEN None ELSE run.version]
<1>1. run.inv \in Invocation /\ run.version \in Nat
  BY DEF RunOK, ProcessRun, DecideRun
<1>2. req \in Upserts /\ req.new = new /\ req.type = "upsert"
  BY <1>1 DEF Upserts
<1>3. req \in Request
  BY <1>2 DEF Request
<1>4. /\ \/ UNCHANGED <<late, faults>> /\ Upsert(req)
            /\ run' = [next EXCEPT !.version = @ + 1]
         \/ ~Accepts(req) /\ run' = Failed
            /\ UNCHANGED <<record, removals, before, past, late, faults>>
         \/ Fault /\ UNCHANGED late /\ Upsert(req) /\ run' = Failed
         \/ Fault /\ GiveUp(req) /\ run' = Failed /\ UNCHANGED <<record, removals, before, past>>
      /\ UNCHANGED <<content, sheet, over, shown, others, appends, clicks>>
  BY Zenon DEF Persist
<1> HIDE DEF req
<1>5. UNCHANGED late => LateOK'
  BY DEF LateOK, LateWell, Snapped, Rowed
<1>6. UNCHANGED <<record, removals, before, past>> /\ faults' \in 0..MaxFaults
        => RecordOK' /\ RestOK'
  BY <1>4 DEF RecordOK, RestOK, Snapped
<1>7. CASE UNCHANGED <<late, faults>> /\ Upsert(req)
            /\ run' = [next EXCEPT !.version = @ + 1]
  <2>1. faults' \in 0..MaxFaults
    BY <1>7 DEF RestOK
  <2> QED
    BY <1>2, <1>4, <1>5, <1>7, <2>1, UpsertOK
<1>8. CASE ~Accepts(req) /\ run' = Failed
            /\ UNCHANGED <<record, removals, before, past, late, faults>>
  BY <1>4, <1>5, <1>6, <1>8 DEF RestOK
<1>9. CASE Fault /\ UNCHANGED late /\ Upsert(req) /\ run' = Failed
  BY <1>2, <1>4, <1>5, <1>9, UpsertOK, FaultOK
<1>10. CASE Fault /\ GiveUp(req) /\ run' = Failed /\ UNCHANGED <<record, removals, before, past>>
  <2>1. LateOK'
    BY <1>2, <1>3, <1>10, GiveUpOK DEF Upserts
  <2> QED
    BY <1>4, <1>6, <1>10, <2>1, FaultOK
<1> QED
  BY <1>4, <1>7, <1>8, <1>9, <1>10

LEMMA InitTyped == ConstantsAssumption /\ Init => TypeInv
<1> SUFFICES ASSUME ConstantsAssumption, Init PROVE TypeInv
  OBVIOUS
<1>1. RecordOK
  BY DEF Init, RecordOK, Missing, Submission, Status, Place, Snapped
<1>2. RunOK
  BY DEF Init, RunOK, RunWell, Processes
<1>3. LateOK
  BY DEF Init, LateOK, LateWell
<1>4. PICK top \in {Other} \union [team: {1}, value: Value, marked: {FALSE}] :
        sheet = [r \in Row |-> IF r = 1 THEN top ELSE Blank] /\ others = {<<1, top>>}
  BY DEF Init
<1>5. top \in Cell /\ Blank \in Cell /\ 1 \in Row
  <2>1. 1 \in Team /\ 1 \in Row
    BY DEF Team, Row, ConstantsAssumption
  <2>2. top \in {Other} \union [team: {1}, value: Value, marked: {FALSE}]
    BY <1>4
  <2> QED
    BY <2>1, <2>2 DEF Cell, Entry
<1>6. sheet \in [Row -> Cell] /\ others \subseteq Row \X Cell
  BY <1>4, <1>5
<1>7. RestOK
  BY <1>6, ConstantsAssumption DEF Init, RestOK
<1> QED
  BY <1>1, <1>2, <1>3, <1>7, Parts

(* Each step keeps the types.                                                *)
LEMMA StartTyped ==
  ASSUME ConstantsAssumption, TypeInv, NEW i \in Invocation, Start(i)
  PROVE  TypeInv'
<1>1. RecordOK /\ RunOK /\ LateOK /\ RestOK
  BY Parts
<1>2. run = None /\ i \notin over /\ UNCHANGED <<content, sheet, record, late, shown, others,
                                                appends, removals, before, faults, clicks>>
  BY DEF Start, world
<1>3. RecordOK' /\ LateOK'
  BY <1>1, <1>2 DEF RecordOK, LateOK, LateWell, Snapped, Rowed
<1>4. CASE over' = over \union {i} /\ UNCHANGED <<run, past>>
  <2>1. RunOK' /\ RestOK'
    BY <1>1, <1>2, <1>4 DEF RunOK, RunWell, Processes, RestOK
  <2> QED
    BY <1>3, <2>1, PartsNext
<1>5. CASE over' # over \union {i} \/ ~UNCHANGED <<run, past>>
  <2>1. /\ run' = [op |-> "process", inv |-> i, pc |-> AtTeam(i, 1), team |-> NextTeam(i, 1),
                   old |-> record, version |-> record.version, place |-> record.place,
                   undo |-> record.snap, dups |-> [k \in Team |-> {}],
                   registered |-> {}, appended |-> {}, snap |-> {}, data |-> {}]
        /\ past' \subseteq Kind /\ UNCHANGED over
    BY <1>1, <1>5 DEF Start, Note, RestOK, Kind
  <2>2. /\ NextTeam(i, 1) \in 1..(Teams + 1)
        /\ NextTeam(i, 1) <= Teams => content[i][NextTeam(i, 1)] # None
    <3>1. 1 \in 1..(Teams + 1)
      BY DEF ConstantsAssumption
    <3> QED
      BY <3>1, NextTeamOf
  <2>3. /\ AtTeam(i, 1) \in ProcessPc /\ AtTeam(i, 1) # "interim"
        /\ AtTeam(i, 1) \notin WritePc \union {"applying", "terminal"}
        /\ AtTeam(i, 1) \in EntryPc =>
             NextTeam(i, 1) \in Team /\ content[i][NextTeam(i, 1)] # None
    BY <2>2 DEF AtTeam, ProcessPc, EntryPc, WritePc, Team, ConstantsAssumption
  <2>4. run' \in ProcessRun
    <3>1. record \in Submission /\ record.version \in Nat /\ record.place \in [Team -> Place]
            /\ record.snap \in SUBSET Item
      BY <1>1 DEF RecordOK, Submission
    <3> HIDE DEF Submission
    <3> QED
      BY <2>1, <2>2, <2>3, <3>1 DEF ProcessRun
  <2>5. run' # None
    BY <2>4, NoneAssumption
  <2>6. ProcessWell'
    BY <1>1, <2>1, <2>3 DEF ProcessWell, RecordOK, Snapped
  <2>7. RunWell'
    BY <1>1, <2>1, <2>6 DEF RunWell, RecordOK, Snapped, Rowed
  <2>8. RunOK'
    BY <1>2, <2>1, <2>3, <2>4, <2>7 DEF RunOK, EntryOK
  <2>9. RestOK'
    BY <1>1, <1>2, <2>1 DEF RestOK
  <2> QED
    BY <1>3, <2>8, <2>9, PartsNext
<1> QED
  BY <1>4, <1>5

(* A step that goes on with the operation and notes what it adopted.         *)
LEMMA ContinueTyped ==
  ASSUME TypeInv, RunOK', run' # None,
         UNCHANGED <<content, world, over, shown, others, appends, removals, before, clicks>>,
         past' \subseteq Kind, faults' \in 0..MaxFaults
  PROVE  TypeInv'
<1>1. RecordOK /\ LateOK /\ RestOK
  BY Parts
<1>2. RecordOK' /\ LateOK' /\ RestOK'
  BY <1>1 DEF RecordOK, LateOK, LateWell, RestOK, Snapped, Rowed, world
<1> QED
  BY <1>2, PartsNext

LEMMA ContinuesTyped ==
  ASSUME ConstantsAssumption, TypeInv, RunOK', run' # None, NEW next,
         Continue(next) \/ (\E rows : Adopt(rows, next))
  PROVE  TypeInv'
<1>1. RestOK
  BY Parts
<1>2. past' \subseteq Kind /\ faults' \in 0..MaxFaults
  BY <1>1 DEF Continue, Adopt, Note, Kind, RestOK, history
<1> QED
  BY <1>2, ContinueTyped DEF Continue, Adopt, history

(* The operation has registered a team, and goes on with another or records
   the row it appended.                                                      *)
LEMMA RegisteredOK ==
  ASSUME ConstantsAssumption, TypeInv, Processes, run.team \in Team,
         content[run.inv][run.team] # None,
         NEW rows, rows \subseteq Row, rows # {},
         \/ run' = RegisterAppended(run.team, rows)
         \/ run' = Onward(Register(run.team, rows)) /\ \E k \in Team : run.old.place[k] # None,
         UNCHANGED <<content, over, clicks>>
  PROVE  RunOK' /\ run' # None
<1>1. run \in ProcessRun /\ ProcessWell /\ Snapped(run.old) /\ Rowed(run.data) /\ run.inv \notin over
  BY RunTyped DEF TypeInv, TypeOK, RunWell, Processes
<1>2. Min(rows) \in Row
  BY MinRow
<1>3. CASE run' = RegisterAppended(run.team, rows)
  <2>1. /\ run' \in ProcessRun /\ KeptBut(run')
        /\ run'.pc = "interim" /\ run'.team = run.team /\ run'.snap = run.snap
        /\ run'.appended = run.appended \union {run.team}
        /\ run'.registered = run.registered \union {run.team}
        /\ run'.place = [run.place EXCEPT ![run.team] = Min(rows)]
        /\ run'.undo # {}
    BY <1>1, <1>3, RegisterAppendedTyped
  <2>2. run' # None /\ run'.op = "process"
    BY <2>1, NoneAssumption DEF KeptBut, Processes
  <2>3. EntryOK'
    BY <2>1 DEF EntryOK, KeptBut
  <2>4. ProcessWell'
    <3>1. \A k \in run'.registered : content[run.inv][k] # None /\ run'.place[k] \in Row
      BY <1>1, <1>2, <2>1 DEF ProcessWell, ProcessRun
    <3>2. run'.appended \subseteq run'.registered /\ run'.team \in run'.registered
      BY <1>1, <2>1 DEF ProcessWell
    <3>3. run'.pc \notin WritePc \union {"applying", "terminal"}
      BY <2>1 DEF WritePc
    <3> QED
      BY <2>1, <3>1, <3>2, <3>3 DEF ProcessWell, KeptBut
  <2>5. RunWell'
    BY <1>1, <2>1, <2>2, <2>4 DEF RunWell, KeptBut, Snapped, Rowed
  <2> QED
    BY <1>1, <2>1, <2>2, <2>3, <2>5 DEF RunOK, KeptBut
<1>4. CASE run' = Onward(Register(run.team, rows)) /\ \E k \in Team : run.old.place[k] # None
  <2>0. PICK r : r = Register(run.team, rows)
    OBVIOUS
  <2>1. /\ r \in ProcessRun /\ KeptBut(r)
        /\ r.team = run.team /\ r.undo = run.undo
        /\ r.appended = run.appended /\ r.snap = run.snap
        /\ r.registered = run.registered \union {run.team}
        /\ r.place = [run.place EXCEPT ![run.team] = Min(rows)]
    <3>1. run \in ProcessRun
      BY <1>1
    <3> QED
      BY <3>1, <2>0, RegisterTyped
  <2>2. run' = Onward(r)
    BY <1>4, <2>0
  <2>3. /\ run' \in ProcessRun
        /\ run'.op = r.op /\ run'.inv = r.inv /\ run'.old = r.old /\ run'.data = r.data
        /\ run'.place = r.place /\ run'.undo = r.undo
        /\ run'.registered = r.registered /\ run'.appended = r.appended
        /\ \/ run'.pc = "entry" /\ run'.team \in Team /\ content[run.inv][run'.team] # None
           \/ run'.pc = "data"
    BY <1>1, <2>1, <2>2, OnwardTyped
  <2>4. run' # None /\ run'.op = "process"
    BY <2>1, <2>3, NoneAssumption DEF KeptBut, Processes
  <2>5. EntryOK'
    BY <2>1, <2>3 DEF EntryOK, KeptBut, EntryPc
  <2>6. ProcessWell'
    <3>1. \A k \in run'.registered : content[run.inv][k] # None /\ run'.place[k] \in Row
      BY <1>1, <1>2, <2>1, <2>3 DEF ProcessWell, ProcessRun
    <3>2. run'.appended \subseteq run'.registered
      BY <1>1, <2>1, <2>3 DEF ProcessWell
    <3>3. run'.undo # {} /\ run'.pc # "interim" /\ run'.pc \notin WritePc \union {"applying", "terminal"}
      BY <1>1, <1>4, <2>1, <2>3 DEF ProcessWell, WritePc
    <3> QED
      BY <2>1, <2>3, <3>1, <3>2, <3>3 DEF ProcessWell, KeptBut
  <2>7. RunWell'
    BY <1>1, <2>1, <2>3, <2>4, <2>6 DEF RunWell, KeptBut, Snapped, Rowed
  <2> QED
    BY <1>1, <2>1, <2>3, <2>4, <2>5, <2>7 DEF RunOK, KeptBut
<1> QED
  BY <1>3, <1>4

(* At an entry the team is one of the message, and an item of it is a cell.  *)
LEMMA AtTeamFacts ==
  ASSUME TypeInv, Processes, run.pc \in EntryPc
  PROVE  /\ run \in ProcessRun /\ run.team \in Team /\ content[run.inv][run.team] \in Value
         /\ content[run.inv][run.team] # None
         /\ Marked(run.team) \in Cell /\ Clean(run.team) \in Cell
<1>1. run \in ProcessRun /\ run.team \in Team /\ content[run.inv][run.team] # None
  BY RunTyped DEF TypeInv, TypeOK, Processes
<1>2. content[run.inv][run.team] \in Value
  BY <1>1 DEF TypeInv, TypeOK, ProcessRun
<1>3. Marked(run.team) \in Cell
  BY <1>1, <1>2 DEF Marked, Cell, Entry
<1>4. Clean(run.team) \in Cell
  BY <1>1, <1>2 DEF Clean, Cell, Entry
<1> QED
  BY <1>1, <1>2, <1>3, <1>4

LEMMA ResolveMappedTyped ==
  ASSUME ConstantsAssumption, TypeInv, NEW k \in Team, ResolveMapped(k)
  PROVE  TypeInv'
<1>1. run # None /\ run.pc = "entry" /\ k = run.team /\ run.old.place[k] \in Row
  BY DEF ResolveMapped, AtEntry
<1>2. Processes
  BY <1>1, RunTyped DEF TypeInv, DecidePc, WritePc, EndPc
<1>3. run.team \in Team /\ content[run.inv][run.team] # None
  BY <1>1, <1>2, AtTeamFacts DEF EntryPc
<1>4. \E j \in Team : run.old.place[j] # None
  BY <1>1 DEF Row, ConstantsAssumption
<1>5. CASE Continue(Onward(Register(k, {run.old.place[k]})))
  <2>1. RunOK' /\ run' # None
    BY <1>1, <1>2, <1>3, <1>4, <1>5, RegisteredOK DEF Continue
  <2> QED
    BY <1>5, <2>1, ContinuesTyped
<1>6. CASE Found(k) # {} /\ Adopt(Found(k), RegisterAppended(k, Found(k)))
  <2>1. RunOK' /\ run' # None
    BY <1>1, <1>2, <1>3, <1>6, RegisteredOK, FoundTyped DEF Adopt
  <2> QED
    BY <1>6, <2>1, ContinuesTyped
<1> QED
  BY <1>5, <1>6 DEF ResolveMapped

LEMMA ReconcileTyped ==
  ASSUME ConstantsAssumption, TypeInv, NEW k \in Team, Reconcile(k)
  PROVE  TypeInv'
<1>1. run # None /\ run.pc \in {"entry", "reconcile"} /\ k = run.team
  BY DEF Reconcile, AtEntry
<1>2. Processes
  BY <1>1, RunTyped DEF TypeInv, DecidePc, WritePc, EndPc
<1>3. run.team \in Team /\ content[run.inv][run.team] # None
  BY <1>1, <1>2, AtTeamFacts DEF EntryPc
<1>4. CASE Found(k) = {} /\ Adopt(Found(k), Failed)
  <2>1. RunOK' /\ run' # None
    BY <1>1, <1>4, Parts, FailedOK DEF Adopt
  <2> QED
    BY <1>4, <2>1, ContinuesTyped
<1>5. CASE Found(k) # {} /\ Adopt(Found(k), RegisterAppended(k, Found(k)))
  <2>1. RunOK' /\ run' # None
    BY <1>1, <1>2, <1>3, <1>5, RegisteredOK, FoundTyped DEF Adopt
  <2> QED
    BY <1>5, <2>1, ContinuesTyped
<1> QED
  BY <1>4, <1>5 DEF Reconcile

(* What the operation records.                                               *)
LEMMA RecordTyped ==
  ASSUME TypeInv, Processes, NEW status \in Status, NEW teams \in SUBSET Team,
         NEW place \in [Team -> Place], NEW snap \in SUBSET Item
  PROVE  /\ Record(status, teams, place, snap) \in Submission
         /\ Record(status, teams, place, snap).status = status
         /\ Record(status, teams, place, snap).place = place
         /\ Record(status, teams, place, snap).snap = snap
         /\ Record(status, teams, place, snap).entries = Says(teams)
<1>1. Says(teams) \in [Team -> Value \union {None}]
  BY RunTyped DEF Says, TypeInv, TypeOK
<1>2. run.old.conf \in Invocation \union {None}
  BY RunTyped DEF TypeInv, Processes, Submission
<1> QED
  BY <1>1, <1>2 DEF Record, Submission

LEMMA ApplyingTyped ==
  ASSUME TypeInv, Processes, NEW teams \in SUBSET Team, NEW place \in [Team -> Place],
         NEW snap \in SUBSET Item
  PROVE  /\ Record("applying", teams, place, snap) \in Submission
         /\ Record("applying", teams, place, snap).status = "applying"
         /\ Record("applying", teams, place, snap).place = place
         /\ Record("applying", teams, place, snap).snap = snap
<1> DEFINE status == "applying"
<1>1. status \in Status
  BY DEF Status
<1> HIDE DEF status
<1>2. /\ Record(status, teams, place, snap) \in Submission
      /\ Record(status, teams, place, snap).status = status
      /\ Record(status, teams, place, snap).place = place
      /\ Record(status, teams, place, snap).snap = snap
  BY <1>1, RecordTyped
<1> QED
  BY <1>2 DEF status

(* An upsert after which the operation goes on.                              *)
LEMMA PersistMoveTyped ==
  ASSUME ConstantsAssumption, TypeInv, run # None,
         NEW new \in Submission, Snapped(new), new.status # "missing",
         NEW pc, Persist(new, To(pc)),
         Processes => pc \in ProcessPc,
         Decides => pc \in DecidePc,
         Processes /\ pc \in EntryPc => pc # "interim" /\ run.pc \in EntryPc,
         Processes /\ pc \in WritePc \union {"applying", "terminal"} =>
           run.pc \in WritePc \union {"applying", "terminal"}
  PROVE  TypeInv'
<1>1. RecordOK /\ RunOK /\ LateOK /\ RestOK
  BY Parts
<1>2. /\ RecordOK' /\ LateOK' /\ RestOK' /\ UNCHANGED <<content, over, clicks>>
      /\ run' \in {[To(pc) EXCEPT !.version = @ + 1], Failed}
  BY <1>1, PersistOK
<1>3. CASE run' = Failed
  BY <1>1, <1>2, <1>3, FailedOK, PartsNext
<1>4. CASE run' = [To(pc) EXCEPT !.version = @ + 1]
  <2>1. CASE Processes
    <3>1. run \in ProcessRun
      BY <2>1, RunTyped DEF TypeInv
    <3>2. To(pc) \in ProcessRun /\ To(pc).pc = pc /\ KeptBut(To(pc)) /\ KeptProcess(To(pc))
      BY <2>1, <3>1, ToProcess
    <3>3. /\ run' \in ProcessRun /\ run'.pc = pc /\ run'.op = run.op /\ run'.inv = run.inv
          /\ run'.old = run.old /\ run'.data = run.data /\ KeptProcess(run')
      BY <1>4, <3>2 DEF ProcessRun, KeptBut, KeptProcess
    <3>4. run' # None /\ run'.op = "process"
      BY <2>1, <3>3, NoneAssumption DEF Processes
    <3>5. ProcessWell /\ EntryOK /\ Snapped(run.old) /\ Rowed(run.data) /\ run.inv \notin over
      BY <1>1, <2>1 DEF RunOK, RunWell, Processes
    <3>6. ProcessWell'
      BY <1>2, <2>1, <3>3, <3>5 DEF ProcessWell, KeptProcess, EntryPc
    <3>7. EntryOK'
      BY <1>2, <2>1, <3>3, <3>5 DEF EntryOK, KeptProcess
    <3>8. RunWell'
      BY <3>3, <3>4, <3>5, <3>6 DEF RunWell, Snapped, Rowed
    <3>9. RunOK'
      BY <1>2, <3>3, <3>4, <3>5, <3>7, <3>8 DEF RunOK
    <3> QED
      BY <1>2, <3>9, PartsNext
  <2>2. CASE Decides
    <3>1. run \in DecideRun
      BY <2>2, RunTyped DEF TypeInv
    <3>2. To(pc) \in DecideRun /\ KeptBut(To(pc))
      BY <2>2, <3>1, ToDecide
    <3>3. /\ run' \in DecideRun /\ run'.op = run.op /\ run'.inv = run.inv
          /\ run'.old = run.old /\ run'.data = run.data
      BY <1>4, <3>2 DEF DecideRun, KeptBut
    <3>4. run' # None /\ run'.op = "decide"
      BY <2>2, <3>3, NoneAssumption DEF Decides
    <3>5. Snapped(run.old) /\ Rowed(run.data) /\ clicks > 0
      BY <1>1, <2>2 DEF RunOK, RunWell, Decides
    <3>6. RunOK'
      BY <1>2, <3>3, <3>4, <3>5 DEF RunOK, RunWell, Snapped, Rowed, Processes
    <3> QED
      BY <1>2, <3>6, PartsNext
  <2> QED
    BY <2>1, <2>2, RunTyped DEF TypeInv
<1> QED
  BY <1>2, <1>3, <1>4

LEMMA BeforeAppendTyped ==
  ASSUME ConstantsAssumption, TypeInv, NEW k \in Team, BeforeAppend(k)
  PROVE  TypeInv'
<1>1. run # None /\ run.pc = "entry" /\ k = run.team
  BY DEF BeforeAppend, AtEntry
<1>2. Processes /\ run \in ProcessRun
  BY <1>1, RunTyped DEF TypeInv, DecidePc, WritePc, EndPc
<1> DEFINE teams == run.registered \union {k}
           place == [run.place EXCEPT ![k] = Column]
           snap == Without(run.undo, k) \union {BlankRow(k, None)}
           new == Record("applying", teams, place, snap)
<1>3. /\ teams \in SUBSET Team /\ place \in [Team -> Place]
      /\ snap \in SUBSET Item /\ snap # {}
  BY <1>2, BlankRowTyped DEF ProcessRun, Place, Without
<1>4. Persist(new, To("append"))
  BY Zenon DEF BeforeAppend
<1> HIDE DEF teams, place, snap
<1>5. new \in Submission /\ new.status = "applying" /\ new.snap = snap
  <2>1. Record("applying", teams, place, snap) \in Submission
        /\ Record("applying", teams, place, snap).status = "applying"
        /\ Record("applying", teams, place, snap).snap = snap
    BY <1>2, <1>3, ApplyingTyped
  <2> QED
    BY <2>1 DEF new
<1> HIDE DEF new
<1>6. Snapped(new)
  BY <1>3, <1>5 DEF Snapped
<1> QED
  BY <1>1, <1>2, <1>4, <1>5, <1>6, PersistMoveTyped
     DEF ProcessPc, EntryPc, WritePc, Processes, Decides

LEMMA AppendedTyped ==
  ASSUME ConstantsAssumption, RestOK, LastRow(sheet) < MaxRow, NEW cell \in Cell
  PROVE  /\ LastRow(sheet) + 1 \in Row
         /\ Appended(sheet, cell) \in [Row -> Cell]
<1>1. LastRow(sheet) \in 0..MaxRow
  BY LastRowOf
<1> QED
  BY <1>1 DEF Appended, RestOK, Row, ConstantsAssumption

LEMMA RequestAppendTyped ==
  ASSUME ConstantsAssumption, TypeInv, NEW k \in Team, RequestAppend(k)
  PROVE  TypeInv'
<1>1. /\ run # None /\ run.pc = "append" /\ k = run.team /\ LastRow(sheet) < MaxRow
      /\ UNCHANGED <<content, record, over, shown, others, removals, before, past, clicks>>
  BY DEF RequestAppend
<1>2. RecordOK /\ RunOK /\ LateOK /\ RestOK
  BY Parts
<1>3. Processes
  BY <1>1, RunTyped DEF TypeInv, DecidePc, WritePc, EndPc
<1>4. run.team \in Team /\ content[run.inv][run.team] # None /\ Marked(k) \in Cell
  BY <1>1, <1>3, AtTeamFacts DEF EntryPc
<1>5. LastRow(sheet) + 1 \in Row /\ Appended(sheet, Marked(k)) \in [Row -> Cell]
  BY <1>1, <1>2, <1>4, AppendedTyped
<1>6. sheet' \in [Row -> Cell]
  BY <1>2, <1>5 DEF RequestAppend, RestOK
<1>7. faults' \in 0..MaxFaults
  BY <1>2, FaultOK DEF RequestAppend, RestOK
<1>8. appends' \in [Team -> Nat]
  BY <1>2 DEF RequestAppend, RestOK
<1>9. RecordOK' /\ RestOK'
  BY <1>1, <1>2, <1>6, <1>7, <1>8 DEF RecordOK, RestOK, Snapped
<1>10. LateOK'
  <2>1. CASE UNCHANGED late
    BY <1>2, <2>1 DEF LateOK, LateWell, Snapped, Rowed
  <2>2. CASE GiveUp([type |-> "append", cell |-> Marked(k)])
    <3>1. [type |-> "append", cell |-> Marked(k)] \in Request
      BY <1>4 DEF Request
    <3> QED
      BY <1>2, <2>2, <3>1, GiveUpOK
  <2> QED
    BY <2>1, <2>2 DEF RequestAppend
<1>11. RunOK'
  <2>1. CASE run' = RegisterAppended(k, {LastRow(sheet) + 1})
    <3>1. {LastRow(sheet) + 1} \subseteq Row /\ {LastRow(sheet) + 1} # {}
      BY <1>5
    <3> QED
      BY <1>1, <1>3, <1>4, <2>1, <3>1, RegisteredOK
  <2>2. CASE run' = To("reconcile") \/ run' = To("readback")
    BY <1>1, <1>2, <1>3, <2>2, MoveOK DEF ProcessPc, EntryPc, WritePc, Processes, Decides
  <2>3. CASE run' = Failed
    BY <1>1, <1>2, <2>3, FailedOK
  <2> QED
    BY <2>1, <2>2, <2>3 DEF RequestAppend
<1> QED
  BY <1>9, <1>10, <1>11, PartsNext

LEMMA ReadBackAppendTyped ==
  ASSUME ConstantsAssumption, TypeInv, NEW k \in Team, ReadBackAppend(k)
  PROVE  TypeInv'
<1>1. run # None /\ run.pc = "readback" /\ k = run.team
  BY DEF ReadBackAppend
<1>2. Processes
  BY <1>1, RunTyped DEF TypeInv, DecidePc, WritePc, EndPc
<1>3. run.team \in Team /\ content[run.inv][run.team] # None
  BY <1>1, <1>2, AtTeamFacts DEF EntryPc
<1>4. CASE Continue(Failed)
  <2>1. RunOK' /\ run' # None
    BY <1>1, <1>4, Parts, FailedOK DEF Continue
  <2> QED
    BY <1>4, <2>1, ContinuesTyped
<1>5. CASE /\ \E r \in Row : RowsWith(Marked(k)) = {r}
           /\ Adopt(RowsWith(Marked(k)), RegisterAppended(k, RowsWith(Marked(k))))
  <2>1. RowsWith(Marked(k)) \subseteq Row /\ RowsWith(Marked(k)) # {}
    BY <1>5
  <2>2. RunOK' /\ run' # None
    BY <1>1, <1>2, <1>3, <1>5, <2>1, RegisteredOK DEF Adopt
  <2> QED
    BY <1>5, <2>2, ContinuesTyped
<1> QED
  BY <1>4, <1>5 DEF ReadBackAppend

LEMMA ReadFailsTyped ==
  ASSUME ConstantsAssumption, TypeInv, run # None, ReadFails
  PROVE  TypeInv'
<1>1. RunOK' /\ run' # None
  BY Parts, FailedOK DEF ReadFails
<1>2. RestOK /\ faults' \in 0..MaxFaults
  BY Parts, FaultOK DEF ReadFails
<1>3. past' \subseteq Kind
  BY <1>2 DEF RestOK, ReadFails, history
<1> QED
  BY <1>1, <1>2, <1>3, ContinueTyped DEF ReadFails, history

LEMMA PersistAppendedTyped ==
  ASSUME ConstantsAssumption, TypeInv, PersistAppended
  PROVE  TypeInv'
<1>1. run # None /\ run.pc = "interim"
  BY DEF PersistAppended
<1>2. Processes /\ run \in ProcessRun
  BY <1>1, RunTyped DEF TypeInv, DecidePc, WritePc, EndPc
<1>3. RecordOK /\ RunOK /\ LateOK /\ RestOK
  BY Parts
<1>4. /\ ProcessWell /\ EntryOK /\ Snapped(run.old) /\ Rowed(run.data) /\ run.inv \notin over
      /\ run.team \in Team
  BY <1>1, <1>2, <1>3 DEF RunOK, RunWell, Processes, EntryOK, EntryPc
<1> DEFINE new == Record("applying", run.registered, run.place, run.undo)
<1>5. new \in Submission /\ new.status = "applying" /\ new.snap = run.undo
  <2>1. /\ run.registered \in SUBSET Team /\ run.place \in [Team -> Place]
        /\ run.undo \in SUBSET Item
    BY <1>2 DEF ProcessRun
  <2> QED
    BY <1>2, <2>1, ApplyingTyped
<1>6. Persist(new, Onward(run))
  BY Zenon DEF PersistAppended
<1> HIDE DEF new
<1>7. Snapped(new)
  BY <1>1, <1>4, <1>5 DEF Snapped, ProcessWell
<1>8. /\ RecordOK' /\ LateOK' /\ RestOK' /\ UNCHANGED <<content, over, clicks>>
      /\ run' \in {[Onward(run) EXCEPT !.version = @ + 1], Failed}
  BY <1>1, <1>3, <1>5, <1>6, <1>7, PersistOK
<1>9. CASE run' = Failed
  BY <1>1, <1>3, <1>8, <1>9, FailedOK, PartsNext
<1>10. CASE run' = [Onward(run) EXCEPT !.version = @ + 1]
  <2> DEFINE o == Onward(run)
  <2>1. /\ o \in ProcessRun
        /\ o.op = run.op /\ o.inv = run.inv /\ o.old = run.old /\ o.data = run.data
        /\ o.place = run.place /\ o.undo = run.undo
        /\ o.registered = run.registered /\ o.appended = run.appended
        /\ \/ o.pc = "entry" /\ o.team \in Team /\ content[run.inv][o.team] # None
           \/ o.pc = "data"
    BY <1>2, <1>4, OnwardTyped
  <2>2. run' = [o EXCEPT !.version = @ + 1]
    BY <1>10
  <2> HIDE DEF o
  <2>3. /\ run' \in ProcessRun
        /\ run'.op = run.op /\ run'.inv = run.inv /\ run'.old = run.old /\ run'.data = run.data
        /\ run'.place = run.place /\ run'.undo = run.undo
        /\ run'.registered = run.registered /\ run'.appended = run.appended
        /\ run'.pc = o.pc /\ run'.team = o.team
    BY <2>1, <2>2 DEF ProcessRun
  <2>4. run' # None /\ run'.op = "process"
    BY <1>2, <2>3, NoneAssumption DEF Processes
  <2>5. EntryOK'
    BY <1>8, <2>1, <2>3 DEF EntryOK, EntryPc
  <2>6. ProcessWell'
    BY <1>4, <1>8, <2>1, <2>3 DEF ProcessWell, WritePc
  <2>7. RunOK'
    BY <1>4, <1>8, <2>3, <2>4, <2>5, <2>6 DEF RunOK, RunWell, Snapped, Rowed
  <2> QED
    BY <1>8, <2>7, PartsNext
<1> QED
  BY <1>8, <1>9, <1>10

(* Moving within an operation, without any other change but to the faults.   *)
LEMMA MoveTyped ==
  ASSUME ConstantsAssumption, TypeInv, run # None, NEW pc, run' = To(pc),
         UNCHANGED <<content, world, over, shown, others, history, clicks>>,
         faults' \in 0..MaxFaults,
         Processes => pc \in ProcessPc,
         Decides => pc \in DecidePc,
         Processes /\ pc \in EntryPc => pc # "interim" /\ run.pc \in EntryPc,
         Processes /\ pc \in WritePc \union {"applying", "terminal"} =>
           run.pc \in WritePc \union {"applying", "terminal"}
  PROVE  TypeInv'
<1>1. RunOK /\ RestOK
  BY Parts
<1>2. RunOK' /\ run' # None
  BY <1>1, MoveOK
<1> QED
  BY <1>1, <1>2, ContinueTyped DEF RestOK, history

LEMMA RowOfTyped ==
  ASSUME ConstantsAssumption, NEW item \in Item, item.row # None
  PROVE  RowOf(item) \in Row
BY DEF RowOf, Item, Place, Row, ConstantsAssumption

LEMMA AsReadTyped ==
  ASSUME ConstantsAssumption, sheet \in [Row -> Cell], NEW items, items \subseteq Item, Rowed(items)
  PROVE  AsRead(items) \subseteq Item /\ (items # {} => AsRead(items) # {})
<1>1. ASSUME NEW item \in items
      PROVE  [item EXCEPT !.cell = sheet[RowOf(item)]] \in Item
  <2>1. item \in Item /\ sheet[RowOf(item)] \in Cell
    BY RowOfTyped DEF Rowed
  <2> QED
    BY <2>1 DEF Item
<1>2. AsRead(items) \subseteq Item
  BY Zenon, <1>1 DEF AsRead
<1>3. \A item \in items : [item EXCEPT !.cell = sheet[RowOf(item)]] \in AsRead(items)
  BY Zenon DEF AsRead
<1> QED
  BY Zenon, <1>2, <1>3

LEMMA UpdatesTyped ==
  ASSUME ConstantsAssumption, TypeInv, Processes
  PROVE  Updates \subseteq Item /\ Rowed(Updates)
<1>1. run \in ProcessRun /\ ProcessWell /\ run.old \in Submission
  BY RunTyped DEF TypeInv, RunWell, Processes
<1> DEFINE A == {[key |-> k, row |-> run.place[k], cell |-> Clean(k)] : k \in run.registered}
           B == UNION {BlankRows(k, run.dups[k]) : k \in run.registered}
           C == {BlankRow(None, run.old.place[k]) : k \in Removed}
<1>2. Updates = A \union B \union C
  BY DEF Updates
<1>3. A \subseteq Item /\ Rowed(A)
  <2>1. ASSUME NEW k \in run.registered
        PROVE  /\ [key |-> k, row |-> run.place[k], cell |-> Clean(k)] \in Item
               /\ run.place[k] # None
    <3>1. k \in Team /\ content[run.inv][k] \in Value /\ run.place[k] \in Row
      BY <1>1 DEF ProcessRun, ProcessWell, TypeInv, TypeOK
    <3>2. Clean(k) \in Cell
      BY <3>1 DEF Clean, Cell, Entry
    <3>3. run.place[k] # None
      BY <3>1, ConstantsAssumption DEF Row, ConstantsAssumption
    <3> QED
      BY <3>1, <3>2, <3>3 DEF Item, Place
  <2> QED
    BY <2>1 DEF Rowed
<1>4. B \subseteq Item /\ Rowed(B)
  <2>1. ASSUME NEW k \in run.registered, NEW row \in run.dups[k]
        PROVE  BlankRow(k, row) \in Item /\ BlankRow(k, row).row # None
    <3>1. k \in Team /\ row \in Row /\ row # None
      BY <1>1 DEF ProcessRun, Row, ConstantsAssumption
    <3> QED
      BY <3>1, BlankRowTyped DEF BlankRow, Place
  <2> QED
    BY <2>1 DEF Rowed, BlankRows
<1>5. C \subseteq Item /\ Rowed(C)
  <2>1. ASSUME NEW k \in Removed
        PROVE  BlankRow(None, run.old.place[k]) \in Item /\ BlankRow(None, run.old.place[k]).row # None
    <3>1. run.old.place[k] \in Place /\ run.old.place[k] # None
      BY <1>1 DEF Submission, Removed
    <3> QED
      BY <3>1, BlankRowTyped DEF BlankRow
  <2> QED
    BY <2>1 DEF Rowed
<1> HIDE DEF A, B, C
<1> QED
  BY <1>2, <1>3, <1>4, <1>5 DEF Rowed

LEMMA SnapshotTyped ==
  ASSUME ConstantsAssumption, TypeInv, Processes
  PROVE  Snapshot \subseteq Item /\ (run.registered # {} => Snapshot # {})
<1>1. run \in ProcessRun /\ ProcessWell /\ sheet \in [Row -> Cell]
  BY RunTyped DEF TypeInv, TypeOK, RunWell, Processes
<1>2. CASE run.old.status = "applying"
  BY <1>1, <1>2 DEF Snapshot, ProcessRun, ProcessWell
<1>3. CASE run.old.status # "applying"
  <2> DEFINE items == {item \in Updates : item.key \notin run.appended}
             blanks == UNION {BlankRows(k, {run.place[k]} \union run.dups[k]) : k \in run.appended}
  <2>1. Snapshot = AsRead(items) \union blanks
    BY <1>3 DEF Snapshot
  <2>2. items \subseteq Item /\ Rowed(items)
    BY UpdatesTyped DEF Rowed
  <2>3. AsRead(items) \subseteq Item /\ (items # {} => AsRead(items) # {})
    BY <1>1, <2>2, AsReadTyped
  <2>4. blanks \subseteq Item
    <3>1. ASSUME NEW k \in run.appended, NEW row \in {run.place[k]} \union run.dups[k]
          PROVE  BlankRow(k, row) \in Item
      <4>1. k \in Team /\ row \in Place
        BY <1>1 DEF ProcessRun, Place
      <4> QED
        BY <4>1, BlankRowTyped
    <3> QED
      BY <3>1 DEF BlankRows
  <2>5. ASSUME NEW k \in run.registered PROVE Snapshot # {}
    <3>1. CASE k \in run.appended
      <4>1. BlankRow(k, run.place[k]) \in blanks
        BY <3>1 DEF BlankRows
      <4> QED
        BY <2>1, <4>1
    <3>2. CASE k \notin run.appended
      <4>1. [key |-> k, row |-> run.place[k], cell |-> Clean(k)] \in Updates
        BY DEF Updates
      <4>2. [key |-> k, row |-> run.place[k], cell |-> Clean(k)] \in items
        BY <3>2, <4>1
      <4> HIDE DEF items
      <4> QED
        BY <2>1, <2>3, <4>2
    <3> QED
      BY <3>1, <3>2
  <2> HIDE DEF items, blanks
  <2> QED
    BY <2>1, <2>3, <2>4, <2>5
<1> QED
  BY <1>2, <1>3

LEMMA ReadSnapshotTyped ==
  ASSUME ConstantsAssumption, TypeInv, ReadSnapshot
  PROVE  TypeInv'
<1>1. run # None /\ run.pc = "data"
  BY DEF ReadSnapshot
<1>2. Processes /\ run \in ProcessRun
  BY <1>1, RunTyped DEF TypeInv, DecidePc, WritePc, EndPc
<1>3. CASE ReadFails
  BY <1>1, <1>3, ReadFailsTyped
<1>4. CASE ~ReadFails
  <2> DEFINE pc == IF Updates = {} THEN "terminal" ELSE "applying"
             next == [run EXCEPT !.data = Updates, !.snap = Snapshot, !.pc = pc]
  <2>1. Continue(next)
    BY <1>4 DEF ReadSnapshot
  <2>2. /\ Updates \in SUBSET Item /\ Rowed(Updates)
        /\ Snapshot \in SUBSET Item /\ (run.registered # {} => Snapshot # {})
    BY <1>2, UpdatesTyped, SnapshotTyped
  <2>3. pc \in ProcessPc /\ pc \notin EntryPc
    BY DEF ProcessPc, EntryPc
  <2> HIDE DEF pc
  <2>4. /\ run' \in ProcessRun /\ run'.pc = pc /\ run'.op = run.op /\ run'.inv = run.inv
        /\ run'.old = run.old /\ run'.data = Updates /\ run'.snap = Snapshot
        /\ run'.place = run.place /\ run'.registered = run.registered
        /\ run'.appended = run.appended /\ run'.undo = run.undo
    BY <1>2, <2>1, <2>2, <2>3 DEF Continue, ProcessRun
  <2>5. run' # None /\ run'.op = "process"
    BY <1>2, <2>4, NoneAssumption DEF Processes
  <2>6. ProcessWell /\ Snapped(run.old) /\ run.inv \notin over /\ UNCHANGED <<content, over>>
    BY <1>2, <2>1, Parts DEF RunOK, RunWell, Processes, Continue
  <2>7. ProcessWell'
    BY <2>2, <2>3, <2>4, <2>6 DEF ProcessWell, EntryPc
  <2>8. RunOK'
    BY <2>2, <2>3, <2>4, <2>5, <2>6, <2>7 DEF RunOK, RunWell, Snapped, Rowed, EntryOK
  <2> QED
    BY <2>1, <2>5, <2>8, ContinuesTyped
<1> QED
  BY <1>3, <1>4

LEMMA PlacesTyped ==
  ASSUME TypeInv, Processes
  PROVE  /\ Places(run.registered) \in [Team -> Place]
         /\ \A k \in Team : Places(run.registered)[k] # None => k \in run.registered
BY RunTyped DEF TypeInv, Processes, ProcessRun, Places, Place

LEMMA PersistApplyingTyped ==
  ASSUME ConstantsAssumption, TypeInv, PersistApplying
  PROVE  TypeInv'
<1>1. run # None /\ run.pc = "applying"
  BY DEF PersistApplying
<1>2. Processes /\ run \in ProcessRun /\ ProcessWell
  BY <1>1, RunTyped DEF TypeInv, RunWell, Processes, DecidePc, WritePc, EndPc
<1> DEFINE new == Record("applying", run.registered, Places(run.registered), run.snap)
<1>3. Persist(new, To("write"))
  BY Zenon DEF PersistApplying
<1>4. /\ new \in Submission /\ new.status = "applying" /\ new.snap = run.snap
      /\ new.place = Places(run.registered)
  <2>1. /\ run.registered \in SUBSET Team /\ Places(run.registered) \in [Team -> Place]
        /\ run.snap \in SUBSET Item
    BY <1>2, PlacesTyped DEF ProcessRun
  <2> QED
    BY <1>2, <2>1, ApplyingTyped
<1> HIDE DEF new
<1>5. Snapped(new)
  BY <1>1, <1>2, <1>4, PlacesTyped DEF Snapped, ProcessWell
<1> QED
  BY <1>1, <1>2, <1>3, <1>4, <1>5, PersistMoveTyped
     DEF ProcessPc, EntryPc, WritePc, Processes, Decides

LEMMA PersistTerminalTyped ==
  ASSUME ConstantsAssumption, TypeInv, PersistTerminal
  PROVE  TypeInv'
<1>1. run # None /\ run.pc = "terminal"
  BY DEF PersistTerminal
<1>2. Processes /\ run \in ProcessRun /\ ProcessWell
  BY <1>1, RunTyped DEF TypeInv, RunWell, Processes, DecidePc, WritePc, EndPc
<1> DEFINE status == IF run.registered = {} THEN "empty"
                     ELSE IF run.old = Missing THEN "registered" ELSE "updated"
           new == Record(status, run.registered, Places(run.registered), run.snap)
<1>3. status \in Status \ {"missing"}
  BY DEF Status
<1>4. Persist(new, To("bind"))
  BY Zenon DEF PersistTerminal
<1> HIDE DEF status
<1>5. /\ new \in Submission /\ new.status # "missing" /\ new.snap = run.snap
      /\ new.place = Places(run.registered)
  <2>1. /\ run.registered \in SUBSET Team /\ Places(run.registered) \in [Team -> Place]
        /\ run.snap \in SUBSET Item
    BY <1>2, PlacesTyped DEF ProcessRun
  <2>2. /\ Record(status, run.registered, Places(run.registered), run.snap) \in Submission
        /\ Record(status, run.registered, Places(run.registered), run.snap).status = status
        /\ Record(status, run.registered, Places(run.registered), run.snap).snap = run.snap
        /\ Record(status, run.registered, Places(run.registered), run.snap).place
              = Places(run.registered)
    BY <1>2, <1>3, <2>1, RecordTyped
  <2> QED
    BY <1>3, <2>2 DEF new
<1> HIDE DEF new
<1>6. Snapped(new)
  BY <1>1, <1>2, <1>5, PlacesTyped DEF Snapped, ProcessWell
<1> QED
  BY <1>1, <1>2, <1>4, <1>5, <1>6, PersistMoveTyped
     DEF ProcessPc, EntryPc, WritePc, Processes, Decides

LEMMA WriteTyped ==
  ASSUME ConstantsAssumption, TypeInv, Write
  PROVE  TypeInv'
<1>1. /\ run # None /\ run.pc \in {"write", "rewrite"}
      /\ UNCHANGED <<content, record, over, shown, others, history, clicks>>
  BY DEF Write
<1>2. RecordOK /\ RunOK /\ LateOK /\ RestOK
  BY Parts
<1>3. run.data \subseteq Item /\ Rowed(run.data)
  BY <1>1, RunTyped DEF TypeInv, RunWell
<1>4. Written(sheet, run.data) \in [Row -> Cell]
  BY <1>2, <1>3, WrittenTyped DEF RestOK
<1>5. sheet' \in [Row -> Cell] /\ faults' \in 0..MaxFaults
  BY <1>2, <1>4, FaultOK DEF Write, RestOK
<1>6. RecordOK' /\ RestOK'
  BY <1>1, <1>2, <1>5 DEF RecordOK, RestOK, Snapped, history
<1>7. LateOK'
  <2>1. CASE UNCHANGED late
    BY <1>2, <2>1 DEF LateOK, LateWell, Snapped, Rowed
  <2>2. CASE GiveUp([type |-> "write", data |-> run.data])
    <3>1. [type |-> "write", data |-> run.data] \in Request
      BY <1>3 DEF Request
    <3> QED
      BY <1>2, <1>3, <2>2, <3>1, GiveUpOK
  <2> QED
    BY <2>1, <2>2 DEF Write
<1>8. \E pc \in {AfterWrite, "readback write", IF run.op = "process" THEN "failed" ELSE "check"} :
        run' = To(pc)
  BY DEF Write, WriteFailed
<1>9. RunOK'
  <2>1. CASE Processes
    <3>1. \E pc \in {"terminal", "readback write", "failed"} : run' = To(pc)
      BY <1>8, <2>1 DEF AfterWrite, Processes
    <3> QED
      BY <1>1, <1>2, <2>1, <3>1, MoveOK
         DEF Processes, Decides, ProcessPc, EntryPc, WritePc, EndPc
  <2>2. CASE Decides
    <3>1. \E pc \in {"reject", "readback write", "check"} : run' = To(pc)
      BY <1>8, <2>2 DEF AfterWrite, Decides
    <3> QED
      BY <1>1, <1>2, <2>2, <3>1, MoveOK DEF Processes, Decides, DecidePc, WritePc
  <2> QED
    BY <1>1, <2>1, <2>2, RunTyped DEF TypeInv
<1> QED
  BY <1>6, <1>7, <1>9, PartsNext

LEMMA ReadBackWriteTyped ==
  ASSUME ConstantsAssumption, TypeInv, ReadBackWrite
  PROVE  TypeInv'
<1>1. run # None /\ run.pc = "readback write"
  BY DEF ReadBackWrite
<1>2. /\ UNCHANGED <<content, world, over, shown, others, history, clicks>>
      /\ faults' \in 0..MaxFaults
  BY Parts, FaultOK DEF ReadBackWrite, Continue, RestOK
<1>3. \E pc \in {AfterWrite, "rewrite"} : run' = To(pc)
  BY DEF ReadBackWrite, Continue
<1>4. CASE Processes
  <2>1. \E pc \in {"terminal", "rewrite"} : run' = To(pc)
    BY <1>3, <1>4 DEF AfterWrite, Processes
  <2> QED
    BY <1>1, <1>2, <1>4, <2>1, MoveTyped DEF Processes, Decides, ProcessPc, EntryPc, WritePc
<1>5. CASE Decides
  <2>1. \E pc \in {"reject", "rewrite"} : run' = To(pc)
    BY <1>3, <1>5 DEF AfterWrite, Decides
  <2> QED
    BY <1>1, <1>2, <1>5, <2>1, MoveTyped DEF Processes, Decides, DecidePc, WritePc
<1> QED
  BY <1>1, <1>4, <1>5, RunTyped DEF TypeInv

LEMMA BindTyped ==
  ASSUME RecordOK, NEW i \in Invocation, record' = Bind(i)
  PROVE  /\ RecordOK'
         /\ record'.status = record.status /\ record'.version = record.version
         /\ record'.place = record.place /\ record'.entries = record.entries
         /\ record'.snap = record.snap
<1>1. CASE record = Missing
  BY <1>1 DEF Bind, RecordOK, Snapped
<1>2. CASE record # Missing
  <2>1. /\ record' \in Submission
        /\ record'.status = record.status /\ record'.version = record.version
        /\ record'.place = record.place /\ record'.entries = record.entries
        /\ record'.snap = record.snap
    BY <1>2 DEF Bind, RecordOK, Submission
  <2> QED
    BY <1>2, <2>1 DEF RecordOK, Snapped
<1> QED
  BY <1>1, <1>2

LEMMA SetConfirmationTyped ==
  ASSUME ConstantsAssumption, TypeInv, SetConfirmation
  PROVE  TypeInv'
<1>1. /\ run # None /\ run.pc = "bind"
      /\ UNCHANGED <<content, sheet, over, shown, others, history, clicks>>
  BY DEF SetConfirmation
<1>2. RecordOK /\ RunOK /\ LateOK /\ RestOK
  BY Parts
<1>3. Processes /\ run.inv \in Invocation
  BY <1>1, RunTyped DEF TypeInv, DecidePc, WritePc, EndPc
<1>4. RecordOK'
  <2>1. CASE UNCHANGED record
    BY <1>2, <2>1 DEF RecordOK, Snapped
  <2> QED
    BY <1>2, <1>3, <2>1, BindTyped DEF SetConfirmation
<1>5. faults' \in 0..MaxFaults
  BY <1>2, FaultOK DEF SetConfirmation, RestOK
<1>6. RestOK'
  BY <1>1, <1>2, <1>5 DEF RestOK, history
<1>7. LateOK'
  <2>1. CASE UNCHANGED late
    BY <1>2, <2>1 DEF LateOK, LateWell, Snapped, Rowed
  <2>2. CASE GiveUp([type |-> "bind", inv |-> run.inv])
    <3>1. [type |-> "bind", inv |-> run.inv] \in Request
      BY <1>3 DEF Request
    <3> QED
      BY <1>2, <2>2, <3>1, GiveUpOK
  <2> QED
    BY <2>1, <2>2 DEF SetConfirmation
<1>8. RunOK'
  <2>1. CASE run' = Failed
    BY <1>1, <1>2, <2>1, FailedOK
  <2>2. CASE run' = To("enable")
    BY <1>1, <1>2, <1>3, <2>2, MoveOK DEF Processes, Decides, ProcessPc, EntryPc, WritePc
  <2> QED
    BY <2>1, <2>2 DEF SetConfirmation
<1> QED
  BY <1>4, <1>6, <1>7, <1>8, PartsNext

LEMMA EnableButtonsTyped ==
  ASSUME ConstantsAssumption, TypeInv, EnableButtons
  PROVE  TypeInv'
<1>1. /\ run # None /\ run.pc = "enable"
      /\ UNCHANGED <<content, world, over, others, history, clicks>>
  BY DEF EnableButtons
<1>2. RecordOK /\ RunOK /\ LateOK /\ RestOK
  BY Parts
<1>3. Processes /\ run.inv \in Invocation
  BY <1>1, RunTyped DEF TypeInv, DecidePc, WritePc, EndPc
<1>4. faults' \in 0..MaxFaults /\ shown' \subseteq Invocation
  BY <1>2, <1>3, FaultOK DEF EnableButtons, RestOK
<1>5. RecordOK' /\ LateOK' /\ RestOK'
  BY <1>1, <1>2, <1>4 DEF RecordOK, LateOK, LateWell, RestOK, Snapped, Rowed, world, history
<1>6. RunOK'
  <2>1. CASE run' = Failed
    BY <1>1, <1>2, <2>1, FailedOK
  <2>2. CASE run' = Done
    <3>1. Done = To("done")
      BY DEF Done, To
    <3> QED
      BY <1>1, <1>2, <1>3, <2>2, <3>1, MoveOK
         DEF Processes, Decides, ProcessPc, EntryPc, WritePc, EndPc
  <2> QED
    BY <2>1, <2>2 DEF EnableButtons
<1> QED
  BY <1>5, <1>6, PartsNext

LEMMA DecideTyped ==
  ASSUME ConstantsAssumption, TypeInv, NEW i \in Invocation, NEW pc \in DecidePc, Decide(i, pc)
  PROVE  TypeInv'
<1>1. /\ run = None /\ clicks < MaxClicks /\ clicks' = clicks + 1
      /\ run' = [op |-> "decide", inv |-> i, pc |-> pc, old |-> record,
                 version |-> record.version, data |-> {}]
      /\ UNCHANGED <<content, world, over, shown, others, history, faults>>
  BY DEF Decide
<1>2. RecordOK /\ RunOK /\ LateOK /\ RestOK
  BY Parts
<1>3. clicks' \in 0..MaxClicks /\ clicks' > 0
  BY <1>1, <1>2, ConstantsAssumption DEF RestOK, ConstantsAssumption
<1>4. RecordOK' /\ LateOK' /\ RestOK'
  BY <1>1, <1>2, <1>3 DEF RecordOK, LateOK, LateWell, RestOK, Snapped, Rowed, world, history
<1>5. record \in Submission /\ record.version \in Nat
  BY <1>2 DEF RecordOK, Submission
<1>6. run' \in DecideRun /\ run'.op = "decide" /\ run'.old = record /\ run'.data = {}
  BY <1>1, <1>5 DEF DecideRun
<1>7. RunOK'
  BY <1>2, <1>3, <1>6 DEF RunOK, RunWell, RecordOK, Snapped, Rowed, Processes
<1> QED
  BY <1>4, <1>7, PartsNext

LEMMA PersistDecisionTyped ==
  ASSUME ConstantsAssumption, TypeInv, PersistDecision
  PROVE  TypeInv'
<1>1. run # None /\ run.op = "decide"
  BY DEF PersistDecision
<1>2. Decides /\ run \in DecideRun /\ run.old \in Submission /\ Snapped(run.old)
  BY <1>1, RunTyped DEF TypeInv, RunWell, Decides
<1>3. PICK status \in Status \ {"missing"}, pc \in {"done", "restore"} :
        Persist([run.old EXCEPT !.status = status], To(pc))
  <2>1. Done = To("done")
    BY DEF Done, To
  <2>2. {"confirmed", "rejected", "rollbackFailed", "reverting"} \subseteq Status \ {"missing"}
    BY DEF Status
  <2> QED
    BY <2>1, <2>2 DEF PersistDecision, PersistStatus
<1> DEFINE new == [run.old EXCEPT !.status = status]
<1>4. /\ new \in Submission /\ new.status = status /\ new.place = run.old.place
      /\ new.snap = run.old.snap
  BY <1>2, <1>3 DEF Submission
<1>5. Persist(new, To(pc))
  BY <1>3
<1> HIDE DEF new
<1>6. Snapped(new)
  BY <1>2, <1>4 DEF Snapped
<1> QED
  BY <1>1, <1>2, <1>3, <1>4, <1>5, <1>6, PersistMoveTyped
     DEF Processes, Decides, DecidePc, EndPc

LEMMA RestoreTyped ==
  ASSUME ConstantsAssumption, TypeInv, Restore
  PROVE  TypeInv'
<1>1. run # None /\ run.pc = "restore"
  BY DEF Restore
<1>2. Decides /\ run \in DecideRun
  BY <1>1, RunTyped DEF TypeInv, ProcessPc, EntryPc, WritePc, EndPc
<1> DEFINE rows == {item \in run.old.snap : item.row # None}
           pc == IF rows = {} THEN "fail" ELSE "write"
           next == [run EXCEPT !.data = rows, !.pc = pc]
<1>3. Continue(next)
  BY Zenon DEF Restore
<1>4. rows \in SUBSET Item /\ Rowed(rows)
  BY <1>2 DEF DecideRun, Submission, Rowed
<1>5. pc \in DecidePc
  BY DEF DecidePc, WritePc
<1> HIDE DEF rows, pc
<1>6. /\ run' \in DecideRun /\ run'.op = run.op /\ run'.old = run.old /\ run'.data = rows
  BY <1>2, <1>3, <1>4, <1>5 DEF Continue, DecideRun
<1>7. run' # None /\ run'.op = "decide"
  BY <1>2, <1>6, NoneAssumption DEF Decides
<1>8. Snapped(run.old) /\ clicks > 0 /\ UNCHANGED clicks
  BY <1>2, <1>3, Parts DEF RunOK, RunWell, Decides, Continue
<1>9. RunOK'
  BY <1>4, <1>6, <1>7, <1>8 DEF RunOK, RunWell, Snapped, Rowed, Processes
<1> HIDE DEF next
<1> QED
  BY <1>3, <1>7, <1>9, ContinuesTyped

LEMMA CheckRestoredTyped ==
  ASSUME ConstantsAssumption, TypeInv, CheckRestored
  PROVE  TypeInv'
<1>1. run # None /\ run.pc = "check"
  BY DEF CheckRestored
<1>2. /\ UNCHANGED <<content, world, over, shown, others, history, clicks>>
      /\ faults' \in 0..MaxFaults
  BY Parts, FaultOK DEF CheckRestored, Continue, RestOK
<1>3. \E pc \in {"reject", "fail"} : run' = To(pc)
  BY DEF CheckRestored, Continue
<1>4. Decides
  BY <1>1, RunTyped DEF TypeInv, ProcessPc, EntryPc, WritePc, EndPc
<1> QED
  BY <1>1, <1>2, <1>3, <1>4, MoveTyped DEF Processes, Decides, DecidePc, WritePc

LEMMA StopTyped ==
  ASSUME ConstantsAssumption, TypeInv, End \/ Interrupt
  PROVE  TypeInv'
<1>1. /\ run # None /\ run' = None
      /\ UNCHANGED <<content, world, shown, others, appends, removals, before>>
  BY DEF End, Interrupt
<1>2. RecordOK /\ RunOK /\ LateOK /\ RestOK
  BY Parts
<1>3. faults' \in 0..MaxFaults
  BY <1>2, FaultOK DEF End, Interrupt, RestOK
<1>4. past' \subseteq Kind
  BY <1>2 DEF End, Interrupt, Note, Unbound, Kind, RestOK
<1>5. over' \subseteq Invocation
  BY <1>1, <1>2, RunTyped DEF TypeInv, End, Interrupt, RestOK
<1>6. clicks' \in 0..MaxClicks
  BY <1>1, <1>2, ConstantsAssumption DEF End, Interrupt, RestOK, RunOK, RunWell, ConstantsAssumption
<1>7. RecordOK' /\ LateOK' /\ RestOK'
  BY <1>1, <1>2, <1>3, <1>4, <1>5, <1>6
     DEF RecordOK, LateOK, LateWell, RestOK, Snapped, Rowed, world
<1>8. RunOK'
  BY <1>1 DEF RunOK, RunWell, Processes
<1> QED
  BY <1>7, <1>8, PartsNext

LEMMA ApplyLateTyped ==
  ASSUME ConstantsAssumption, TypeInv, ApplyLate
  PROVE  TypeInv'
<1>1. UNCHANGED <<content, run, over, shown, others, appends, faults, clicks>>
  BY DEF ApplyLate
<1>2. RecordOK /\ RunOK /\ LateOK /\ RestOK
  BY Parts
<1>3. PICK entry \in late :
        /\ late' = late \ {entry}
        /\ \/ entry[2].type = "upsert" /\ Upsert(entry[2]) /\ UNCHANGED sheet
           \/ /\ entry[2].type = "append" /\ LastRow(sheet) < MaxRow
              /\ sheet' = Appended(sheet, entry[2].cell)
              /\ UNCHANGED <<record, removals, before, past>>
           \/ /\ entry[2].type = "write" /\ sheet' = Written(sheet, entry[2].data)
              /\ Note(IF sheet' = sheet THEN {} ELSE {"late write"})
              /\ UNCHANGED <<record, removals, before>>
           \/ /\ entry[2].type = "bind" /\ record' = Bind(entry[2].inv)
              /\ Note(IF record.conf \notin {None, entry[2].inv} THEN {"unbound"} ELSE {})
              /\ UNCHANGED <<sheet, removals, before>>
  BY Zenon DEF ApplyLate
<1>4. entry[2] \in Request
  BY <1>2 DEF LateOK
<1>5. LateOK'
  BY <1>2, <1>3 DEF LateOK, LateWell, Snapped, Rowed
<1>6. RunOK'
  <2>1. ProcessWell => ProcessWell'
    BY <1>1 DEF ProcessWell
  <2> QED
    BY <1>1, <1>2, <2>1 DEF RunOK, RunWell, Processes, EntryOK, Snapped, Rowed
<1>7. CASE entry[2].type = "upsert" /\ Upsert(entry[2]) /\ UNCHANGED sheet
  <2>1. entry[2] \in Upserts
    BY <1>4, <1>7 DEF Request, Upserts
  <2>2. entry[2].new.status # "missing" /\ Snapped(entry[2].new)
    BY <1>2, <1>7 DEF LateOK, LateWell
  <2>3. faults' \in 0..MaxFaults
    BY <1>1, <1>2 DEF RestOK
  <2>4. RecordOK' /\ RestOK'
    BY <1>1, <1>2, <1>7, <2>1, <2>2, <2>3, UpsertOK
  <2> QED
    BY <1>5, <1>6, <2>4, PartsNext
<1>8. CASE /\ entry[2].type = "append" /\ LastRow(sheet) < MaxRow
           /\ sheet' = Appended(sheet, entry[2].cell)
           /\ UNCHANGED <<record, removals, before, past>>
  <2>1. entry[2].cell \in Cell
    BY <1>4, <1>8 DEF Request, Upserts
  <2>2. sheet' \in [Row -> Cell]
    BY <1>2, <1>8, <2>1, AppendedTyped
  <2>3. RecordOK' /\ RestOK'
    BY <1>1, <1>2, <1>8, <2>2 DEF RecordOK, RestOK, Snapped
  <2> QED
    BY <1>5, <1>6, <2>3, PartsNext
<1>9. CASE /\ entry[2].type = "write" /\ sheet' = Written(sheet, entry[2].data)
           /\ Note(IF sheet' = sheet THEN {} ELSE {"late write"})
           /\ UNCHANGED <<record, removals, before>>
  <2>1. entry[2].data \subseteq Item
    BY <1>4, <1>9 DEF Request, Upserts
  <2>2. sheet' \in [Row -> Cell]
    BY <1>2, <1>9, <2>1, WrittenTyped DEF RestOK
  <2>3. past' \subseteq Kind
    BY <1>2, <1>9 DEF RestOK, Note, Kind
  <2>4. RecordOK' /\ RestOK'
    BY <1>1, <1>2, <1>9, <2>2, <2>3 DEF RecordOK, RestOK, Snapped
  <2> QED
    BY <1>5, <1>6, <2>4, PartsNext
<1>10. CASE /\ entry[2].type = "bind" /\ record' = Bind(entry[2].inv)
            /\ Note(IF record.conf \notin {None, entry[2].inv} THEN {"unbound"} ELSE {})
            /\ UNCHANGED <<sheet, removals, before>>
  <2>1. entry[2].inv \in Invocation
    BY <1>4, <1>10 DEF Request, Upserts
  <2>2. RecordOK'
    BY <1>2, <1>10, <2>1, BindTyped
  <2>3. past' \subseteq Kind
    BY <1>2, <1>10 DEF RestOK, Note, Kind
  <2>4. RestOK'
    BY <1>1, <1>2, <1>10, <2>3 DEF RestOK
  <2> QED
    BY <1>5, <1>6, <2>2, <2>4, PartsNext
<1> QED
  BY <1>3, <1>7, <1>8, <1>9, <1>10

LEMMA OtherAppendsTyped ==
  ASSUME ConstantsAssumption, TypeInv, OtherAppends
  PROVE  TypeInv'
<1>1. /\ LastRow(sheet) < MaxRow /\ sheet' = Appended(sheet, Other)
      /\ others' = others \union {<<LastRow(sheet) + 1, Other>>}
      /\ UNCHANGED <<content, record, run, over, shown, late, appends, removals, before, clicks>>
  BY DEF OtherAppends
<1>2. RecordOK /\ RunOK /\ LateOK /\ RestOK
  BY Parts
<1>3. faults' \in 0..MaxFaults /\ past' \subseteq Kind
  BY <1>2, FaultOK DEF OtherAppends, Note, Kind, RestOK
<1>4. Other \in Cell
  BY DEF Cell
<1>5. sheet' \in [Row -> Cell] /\ LastRow(sheet) + 1 \in Row
  BY <1>1, <1>2, <1>4, AppendedTyped
<1>6. others' \subseteq Row \X Cell
  BY <1>1, <1>2, <1>4, <1>5 DEF RestOK
<1>7. RecordOK' /\ LateOK' /\ RestOK'
  BY <1>1, <1>2, <1>3, <1>5, <1>6 DEF RecordOK, LateOK, LateWell, RestOK, Snapped, Rowed
<1>8. RunOK'
  <2>1. ProcessWell => ProcessWell'
    BY <1>1 DEF ProcessWell
  <2> QED
    BY <1>1, <1>2, <2>1 DEF RunOK, RunWell, Processes, EntryOK, Snapped, Rowed
<1> QED
  BY <1>7, <1>8, PartsNext

LEMMA StutterTyped ==
  ASSUME TypeInv, UNCHANGED vars
  PROVE  TypeInv'
<1>1. RecordOK' /\ LateOK' /\ RestOK' /\ (ProcessWell => ProcessWell')
  BY Parts DEF RecordOK, LateOK, LateWell, RestOK, Snapped, Rowed, vars, world, history, ProcessWell
<1>2. RunOK'
  BY <1>1, Parts DEF RunOK, RunWell, Processes, EntryOK, Snapped, Rowed, vars, world, history
<1> QED
  BY <1>1, <1>2, PartsNext

LEMMA NextTyped ==
  ASSUME ConstantsAssumption, TypeInv, [Next]_vars
  PROVE  TypeInv'
<1>1. CASE ProcessStep
  <2>1. CASE \E k \in Team : ProcessEntry(k)
    BY <2>1, ResolveMappedTyped, ReconcileTyped, BeforeAppendTyped, RequestAppendTyped,
       ReadBackAppendTyped, ReadFailsTyped DEF ProcessEntry
  <2> QED
    BY <1>1, <2>1, StartTyped, PersistAppendedTyped, ReadSnapshotTyped, PersistApplyingTyped,
       PersistTerminalTyped, SetConfirmationTyped, EnableButtonsTyped DEF ProcessStep
<1>2. CASE DecideStep
  <2>1. ASSUME NEW i \in Invocation, Confirm(i) \/ Reject(i)
        PROVE  TypeInv'
    <3>1. \E pc \in DecidePc : Decide(i, pc)
      BY <2>1 DEF Confirm, Reject, DecidePc
    <3> QED
      BY <3>1, DecideTyped
  <2> QED
    BY <1>2, <2>1, PersistDecisionTyped, RestoreTyped, CheckRestoredTyped DEF DecideStep
<1>3. CASE UNCHANGED vars
  BY <1>3, StutterTyped
<1> QED
  BY <1>1, <1>2, <1>3, WriteTyped, ReadBackWriteTyped, StopTyped, ApplyLateTyped,
     OtherAppendsTyped DEF Next

(* Every variable keeps its type; a stored record has a version, a record that
   places a team has a snapshot to undo it with, and an operation that goes
   through the entries stands at a team of its message.                      *)
THEOREM TypeCorrect == Spec => []TypeOK
<1>1. Init => TypeInv
  BY InitTyped, ConstantsAssumption
<1>2. TypeInv /\ [Next]_vars => TypeInv'
  BY NextTyped, ConstantsAssumption
<1>3. TypeInv => TypeOK
  BY DEF TypeInv
<1> QED
  BY <1>1, <1>2, <1>3, PTL DEF Spec

-----------------------------------------------------------------------------
(* A team's row is appended once.  Steps that leave what the record places.  *)
Steady ==
  /\ record'.version = record.version /\ record'.place = record.place
  /\ record'.entries = record.entries /\ content' = content

LEMMA LateSteady ==
  ASSUME LateKnows, Steady,
         \A entry \in late' : entry \in late \/ entry[2].type # "upsert"
  PROVE  LateKnows'
BY DEF LateKnows, Steady, KeepsPlaces

LEMMA GiveUpSteady ==
  ASSUME LateKnows, Steady, NEW req, req.type # "upsert", UNCHANGED late \/ GiveUp(req)
  PROVE  LateKnows'
<1>1. \A entry \in late' : entry \in late \/ entry[2].type # "upsert"
  BY DEF GiveUp
<1> QED
  BY <1>1, LateSteady

LEMMA CountSteady ==
  ASSUME TypeInv, AppendsCounted, record'.place = record.place,
         UNCHANGED <<appends, removals>>, past \subseteq past',
         \A k \in Team : Requesting(k)' => Requesting(k)
  PROVE  AppendsCounted'
<1>1. /\ appends \in [Team -> Nat] /\ removals \in [Team -> Nat]
      /\ Had({"overwritten"}) => Had({"overwritten"})'
  BY DEF TypeInv, TypeOK, Had
<1>2. ASSUME NEW k \in Team,
             appends[k] + (IF Requesting(k) THEN 1 ELSE 0)
               <= removals[k] + (IF record.place[k] # None THEN 1 ELSE 0)
      PROVE  appends[k] + (IF Requesting(k)' THEN 1 ELSE 0)
               <= removals[k] + (IF record.place[k] # None THEN 1 ELSE 0)
  <2>1. appends[k] \in Nat /\ removals[k] \in Nat
    BY <1>1
  <2>2. CASE Requesting(k)'
    BY <1>2, <2>2
  <2>3. CASE ~Requesting(k)' /\ Requesting(k)
    BY <1>2, <2>1, <2>3
  <2>4. CASE ~Requesting(k)' /\ ~Requesting(k)
    BY <1>2, <2>4
  <2> QED
    BY <2>2, <2>3, <2>4
<1> QED
  BY <1>1, <1>2 DEF AppendsCounted

(* A step to another place of the same operation knows no less.              *)
LEMMA MoveKnows ==
  ASSUME TypeInv, RunKnows, run # None, Steady, NEW pc, run' = To(pc),
         Processes => pc \in ProcessPc,
         Decides => pc \in DecidePc,
         Processes /\ pc \notin EndPc =>
           /\ run.pc \notin EndPc /\ (pc \in EntryPc <=> run.pc \in EntryPc)
           /\ run.pc = "interim" <=> pc = "interim"
           /\ run.pc \in Unplacing => pc \in Unplacing
  PROVE  RunKnows'
<1>1. CASE Processes
  <2>1. /\ run'.pc = pc /\ KeptBut(run') /\ KeptProcess(run')
    BY <1>1, ToProcess, RunTyped DEF TypeInv
  <2>2. GoneThrough(run)'
    BY <1>1, <2>1 DEF GoneThrough, RunKnows, KeptBut, KeptProcess, Steady
  <2>3. Level => PlacedBy(run, record)'
    BY <1>1, <2>1 DEF PlacedBy, RunKnows, KeptBut, KeptProcess, Steady, Processes
  <2> QED
    BY <1>1, <2>1, <2>2, <2>3 DEF RunKnows, KeptBut, Steady, Level, Processes
<1>2. CASE Decides
  <2>1. run'.pc = pc /\ KeptBut(run')
    BY <1>2, ToDecide, RunTyped DEF TypeInv
  <2> QED
    BY <1>2, <2>1 DEF RunKnows, KeptBut, Steady, Level, Decides, GoneThrough, PlacedBy
<1> QED
  BY <1>1, <1>2, RunTyped DEF TypeInv

LEMMA FailedKnows ==
  ASSUME TypeInv, RunKnows, run # None, Steady, run' = Failed
  PROVE  RunKnows' /\ ~Requesting(run.team)' /\ \A k \in Team : ~Requesting(k)'
<1>1. Failed = To("failed")
  BY DEF Failed, To
<1>2. RunKnows'
  BY <1>1, MoveKnows DEF ProcessPc, DecidePc, EntryPc, EndPc, WritePc
<1>3. run'.pc = "failed"
  BY RunTyped DEF TypeInv, Failed, ProcessRun, DecideRun
<1> QED
  BY <1>2, <1>3 DEF Requesting

(* An upsert leaves every other request given up behind the record, and a team
   that it removes although the message has it was not placed.               *)
LEMMA UpsertKnows ==
  ASSUME TypeInv, LateKnows, NEW req \in Upserts, Upsert(req), content' = content,
         late' \subseteq late,
         req.expected = None \/ (req.expected = record.version => KeepsPlaces(req.inv, req.new))
  PROVE  /\ LateKnows'
         /\ record'.version = record.version + 1 /\ record.version \in Nat
         /\ record'.place = req.new.place /\ record'.entries = req.new.entries
         /\ record'.status = req.new.status /\ record'.conf = req.new.conf
         /\ past \subseteq past'
         /\ \/ Had({"overwritten"})'
            \/ \A k \in Team :
                 /\ removals[k] + (IF record.place[k] # None THEN 1 ELSE 0)
                      <= removals'[k] + (IF record'.place[k] # None THEN 1 ELSE 0)
                 /\ removals'[k] \in Nat /\ removals[k] <= removals'[k]
<1>1. /\ req.new \in Submission /\ record.version \in Nat
      /\ record' = [req.new EXCEPT !.version = record.version + 1]
      /\ removals \in [Team -> Nat] /\ record \in Submission
  BY DEF TypeInv, TypeOK, Upserts, Upsert, Upserted, Submission
<1>2. /\ record'.version = record.version + 1
      /\ record'.place = req.new.place /\ record'.entries = req.new.entries
      /\ record'.status = req.new.status /\ record'.conf = req.new.conf
  BY <1>1 DEF Submission
<1>3. LateKnows'
  <2>1. ASSUME NEW entry \in late', entry[2].type = "upsert"
        PROVE  /\ entry[2].expected = None \/ entry[2].expected \in 1..(record.version + 1)
               /\ entry[2].expected # record.version + 1
    <3>1. entry[2].expected = None \/ entry[2].expected \in 1..record.version
      BY <2>1 DEF LateKnows
    <3>2. None # record.version + 1
      BY <1>1, ConstantsAssumption DEF ConstantsAssumption
    <3> QED
      BY <1>1, <3>1, <3>2
  <2> QED
    BY <1>2, <2>1 DEF LateKnows
<1>4. past \subseteq past' /\ (req.expected = None /\ record # Missing => Had({"overwritten"})')
  BY DEF Upsert, Note, Had
<1>5. req.expected # None \/ record = Missing =>
        \A k \in Team : record.place[k] # None /\ content[req.inv][k] # None => req.new.place[k] # None
  <2>1. CASE record = Missing
    BY <2>1 DEF Missing
  <2>2. CASE req.expected # None
    BY <2>2 DEF Upsert, Accepts, KeepsPlaces
  <2> QED
    BY <2>1, <2>2
<1>6. ASSUME NEW k \in Team, req.expected # None \/ record = Missing
      PROVE  /\ removals[k] + (IF record.place[k] # None THEN 1 ELSE 0)
                  <= removals'[k] + (IF record'.place[k] # None THEN 1 ELSE 0)
             /\ removals'[k] \in Nat /\ removals[k] <= removals'[k]
  <2>1. removals[k] \in Nat /\ removals'[k] = removals[k] + (IF k \in Forgets(req) THEN 1 ELSE 0)
    BY <1>1 DEF Upsert
  <2>2. CASE record.place[k] # None /\ record'.place[k] = None
    <3>1. k \in Forgets(req)
      BY <1>2, <1>5, <1>6, <2>2 DEF Forgets
    <3> QED
      BY <2>1, <2>2, <3>1
  <2>3. CASE record.place[k] # None /\ record'.place[k] # None
    BY <2>1, <2>3
  <2>4. CASE record.place[k] = None
    BY <2>1, <2>4
  <2> QED
    BY <2>2, <2>3, <2>4
<1> QED
  BY <1>1, <1>2, <1>3, <1>4, <1>6

LEMMA PersistKnows ==
  ASSUME AppendInv, run # None, NEW new \in Submission, NEW next,
         next \in ProcessRun \union DecideRun, next.op = run.op, next.version = run.version,
         GoneThrough(next), PlacedBy(next, new),
         Level => KeepsPlaces(run.inv, new),
         ~(run.op = "process" /\ run.pc = "append"),
         next.op = "process" /\ next.pc = "append" =>
           new.place[next.team] # None /\ (Level => record.place[next.team] = None),
         Persist(new, next)
  PROVE  RunKnows' /\ LateKnows' /\ AppendsCounted'
<1> DEFINE req == [type |-> "upsert", inv |-> run.inv, new |-> new,
                   expected |-> IF run.version = 0 THEN None ELSE run.version]
<1>1. /\ TypeInv /\ RunKnows /\ LateKnows /\ AppendsCounted
      /\ run.inv \in Invocation /\ run.version \in Nat /\ record.version \in Nat
      /\ run.version <= record.version
      /\ appends \in [Team -> Nat] /\ removals \in [Team -> Nat]
      /\ record.version = 0 => record = Missing
  BY RunTyped DEF AppendInv, TypeInv, TypeOK, RunKnows, Submission
<1>2. req \in Upserts /\ req.new = new /\ req.type = "upsert" /\ req.inv = run.inv
  BY <1>1 DEF Upserts
<1>3. /\ None \notin Nat
      /\ req.expected = None <=> run.version = 0
      /\ run.version # 0 => req.expected = run.version
  BY <1>1, ConstantsAssumption DEF ConstantsAssumption
<1>4. /\ \/ UNCHANGED <<late, faults>> /\ Upsert(req)
            /\ run' = [next EXCEPT !.version = @ + 1]
         \/ ~Accepts(req) /\ run' = Failed
            /\ UNCHANGED <<record, removals, before, past, late, faults>>
         \/ Fault /\ UNCHANGED late /\ Upsert(req) /\ run' = Failed
         \/ Fault /\ GiveUp(req) /\ run' = Failed /\ UNCHANGED <<record, removals, before, past>>
      /\ UNCHANGED <<content, sheet, over, shown, others, appends, clicks>>
  BY Zenon DEF Persist
<1> HIDE DEF req
<1>5. req.expected = None \/ (req.expected = record.version => KeepsPlaces(req.inv, req.new))
  BY <1>2, <1>3 DEF Level
<1>6. ASSUME Upsert(req), UNCHANGED late
      PROVE  /\ LateKnows'
             /\ record'.version = record.version + 1
             /\ record'.place = new.place /\ record'.entries = new.entries
             /\ past \subseteq past'
             /\ \/ Had({"overwritten"})'
                \/ \A k \in Team :
                     /\ removals[k] + (IF record.place[k] # None THEN 1 ELSE 0)
                          <= removals'[k] + (IF record'.place[k] # None THEN 1 ELSE 0)
                     /\ removals'[k] \in Nat /\ removals[k] <= removals'[k]
  BY <1>1, <1>2, <1>4, <1>5, <1>6, UpsertKnows
<1>7. CASE UNCHANGED <<late, faults>> /\ Upsert(req) /\ run' = [next EXCEPT !.version = @ + 1]
  <2>1. CASE next \in ProcessRun
    <3>1. /\ run'.version = run.version + 1 /\ run'.op = "process" /\ next.op = "process"
          /\ run'.inv = next.inv /\ run'.pc = next.pc /\ run'.team = next.team
          /\ run'.place = next.place /\ run'.old = next.old /\ run'.registered = next.registered
      BY <1>7, <2>1 DEF ProcessRun
    <3>2. GoneThrough(run)' /\ PlacedBy(run, record)'
      BY <1>4, <1>6, <1>7, <3>1 DEF GoneThrough, PlacedBy
    <3>3. RunKnows'
      BY <1>1, <1>6, <1>7, <3>1, <3>2 DEF RunKnows
    <3>4. ASSUME NEW k \in Team, ~Had({"overwritten"})'
          PROVE  appends[k] + (IF Requesting(k)' THEN 1 ELSE 0)
                   <= removals'[k] + (IF record'.place[k] # None THEN 1 ELSE 0)
      <4>1. /\ appends[k] \in Nat /\ removals[k] \in Nat /\ removals'[k] \in Nat
            /\ removals[k] <= removals'[k]
            /\ appends[k] <= removals[k] + (IF record.place[k] # None THEN 1 ELSE 0)
            /\ removals[k] + (IF record.place[k] # None THEN 1 ELSE 0)
                 <= removals'[k] + (IF record'.place[k] # None THEN 1 ELSE 0)
        <5>1. ~Had({"overwritten"})
          BY <1>6, <1>7, <3>4 DEF Had
        <5>2. ~Requesting(k)
          BY DEF Requesting, Processes
        <5>3. appends[k] + 0 <= removals[k] + (IF record.place[k] # None THEN 1 ELSE 0)
          BY <1>1, <5>1, <5>2 DEF AppendsCounted
        <5> QED
          BY <1>1, <1>6, <1>7, <3>4, <5>3
      <4>2. CASE ~Requesting(k)'
        BY <4>1, <4>2
      <4>3. CASE Requesting(k)'
        <5>1. next.pc = "append" /\ next.team = k
          BY <3>1, <4>3 DEF Requesting, Processes
        <5>2. record'.place[k] # None /\ (Level => record.place[k] = None)
          BY <1>6, <1>7, <3>1, <5>1
        <5>3. Level \/ record = Missing
          BY <1>1, <1>2, <1>3, <1>7, <3>4 DEF Upsert, Accepts, Level, Note, Had
        <5>4. record.place[k] = None
          BY <5>2, <5>3 DEF Missing
        <5> QED
          BY <4>1, <4>3, <5>2, <5>4
      <4> QED
        BY <4>2, <4>3
    <3>5. AppendsCounted'
      BY <1>4, <3>4 DEF AppendsCounted
    <3> QED
      BY <1>6, <1>7, <3>3, <3>5
  <2>2. CASE next \in DecideRun
    <3>1. /\ run'.version = run.version + 1 /\ run'.op = "decide"
          /\ run'.inv = next.inv /\ run'.old = next.old /\ next.op = "decide"
      BY <1>7, <2>2 DEF DecideRun
    <3>2. GoneThrough(run)' /\ PlacedBy(run, record)'
      BY <1>6, <1>7, <3>1 DEF GoneThrough, PlacedBy
    <3>3. RunKnows'
      BY <1>1, <1>6, <1>7, <3>1, <3>2 DEF RunKnows
    <3>4. ASSUME NEW k \in Team, ~Had({"overwritten"})'
          PROVE  appends[k] + 0 <= removals'[k] + (IF record'.place[k] # None THEN 1 ELSE 0)
      <4>1. ~Had({"overwritten"}) /\ ~Requesting(k)
        BY <1>6, <1>7, <3>1, <3>4 DEF Had, Requesting, Processes
      <4>2. appends[k] + 0 <= removals[k] + (IF record.place[k] # None THEN 1 ELSE 0)
        BY <1>1, <4>1 DEF AppendsCounted
      <4>3. /\ appends[k] \in Nat /\ removals[k] \in Nat /\ removals'[k] \in Nat
            /\ removals[k] + (IF record.place[k] # None THEN 1 ELSE 0)
                 <= removals'[k] + (IF record'.place[k] # None THEN 1 ELSE 0)
        BY <1>1, <1>6, <1>7, <3>4
      <4> QED
        BY <4>2, <4>3
    <3>5. \A k \in Team : ~Requesting(k)'
      BY <3>1 DEF Requesting, Processes
    <3>6. AppendsCounted'
      BY <1>4, <3>4, <3>5 DEF AppendsCounted
    <3> QED
      BY <1>6, <1>7, <3>3, <3>6
  <2> QED
    BY <2>1, <2>2
<1>8. CASE ~Accepts(req) /\ run' = Failed
            /\ UNCHANGED <<record, removals, before, past, late, faults>>
  <2>1. Steady
    BY <1>4, <1>8 DEF Steady
  <2>2. RunKnows' /\ \A k \in Team : ~Requesting(k)'
    BY <1>1, <1>8, <2>1, FailedKnows
  <2> QED
    BY <1>1, <1>4, <1>8, <2>1, <2>2, LateSteady, CountSteady
<1>9. CASE Fault /\ UNCHANGED late /\ Upsert(req) /\ run' = Failed
  <2>1. /\ run'.pc = "failed" /\ run'.op = run.op /\ run'.version = run.version
    BY <1>9, RunTyped, <1>1 DEF TypeInv, Failed, ProcessRun, DecideRun
  <2>2. RunKnows'
    BY <1>1, <1>6, <1>9, <2>1 DEF RunKnows, GoneThrough, EndPc, Level
  <2>3. \A k \in Team : ~Requesting(k)'
    BY <2>1 DEF Requesting
  <2>4. ASSUME NEW k \in Team, ~Had({"overwritten"})'
        PROVE  appends[k] + 0 <= removals'[k] + (IF record'.place[k] # None THEN 1 ELSE 0)
    <3>1. ~Had({"overwritten"}) /\ ~Requesting(k)
      BY <1>6, <1>9, <2>4 DEF Had, Requesting, Processes
    <3>2. appends[k] + 0 <= removals[k] + (IF record.place[k] # None THEN 1 ELSE 0)
      BY <1>1, <3>1 DEF AppendsCounted
    <3>3. /\ appends[k] \in Nat /\ removals[k] \in Nat /\ removals'[k] \in Nat
          /\ removals[k] + (IF record.place[k] # None THEN 1 ELSE 0)
               <= removals'[k] + (IF record'.place[k] # None THEN 1 ELSE 0)
      BY <1>1, <1>6, <1>9, <2>4
    <3> QED
      BY <3>2, <3>3
  <2>5. AppendsCounted'
    BY <1>4, <2>3, <2>4 DEF AppendsCounted
  <2> QED
    BY <1>6, <1>9, <2>2, <2>5
<1>10. CASE Fault /\ GiveUp(req) /\ run' = Failed /\ UNCHANGED <<record, removals, before, past>>
  <2>1. Steady
    BY <1>4, <1>10 DEF Steady
  <2>2. RunKnows' /\ \A k \in Team : ~Requesting(k)'
    BY <1>1, <1>10, <2>1, FailedKnows
  <2>3. AppendsCounted'
    BY <1>1, <1>4, <1>10, <2>2, CountSteady
  <2>4. LateKnows'
    <3>1. req.expected = None \/ req.expected \in 1..record.version
      BY <1>1, <1>3
    <3>2. req.expected = record.version => KeepsPlaces(req.inv, req.new)
      BY <1>1, <1>3, <1>5
    <3>3. late' = late \union {<<faults, req>>}
      BY <1>10 DEF GiveUp
    <3> QED
      BY <1>1, <1>4, <1>10, <3>1, <3>2, <3>3 DEF LateKnows, KeepsPlaces
  <2> QED
    BY <2>2, <2>3, <2>4
<1> QED
  BY <1>4, <1>7, <1>8, <1>9, <1>10

(* The steps that neither record nor request anything.                       *)
LEMMA SteadyKnows ==
  ASSUME AppendInv, RunKnows', Steady,
         \A entry \in late' : entry \in late \/ entry[2].type # "upsert",
         UNCHANGED <<appends, removals>>, past \subseteq past',
         \A k \in Team : Requesting(k)' => Requesting(k)
  PROVE  RunKnows' /\ LateKnows' /\ AppendsCounted'
BY LateSteady, CountSteady DEF AppendInv, Steady

LEMMA StartKnows ==
  ASSUME ConstantsAssumption, AppendInv, NEW i \in Invocation, Start(i)
  PROVE  RunKnows' /\ LateKnows' /\ AppendsCounted'
<1>1. /\ run = None /\ Steady /\ UNCHANGED <<late, appends, removals>> /\ past \subseteq past'
  BY DEF Start, world, Note, Steady
<1>2. CASE UNCHANGED run
  <2>1. RunKnows' /\ \A k \in Team : ~Requesting(k)'
    BY <1>1, <1>2 DEF RunKnows, Requesting, Processes
  <2> QED
    BY <1>1, <2>1, SteadyKnows
<1>3. CASE ~UNCHANGED run
  <2>1. run' = [op |-> "process", inv |-> i, pc |-> AtTeam(i, 1), team |-> NextTeam(i, 1),
                old |-> record, version |-> record.version, place |-> record.place,
                undo |-> record.snap, dups |-> [k \in Team |-> {}],
                registered |-> {}, appended |-> {}, snap |-> {}, data |-> {}]
    BY <1>3 DEF Start
  <2>2. /\ NextTeam(i, 1) \in 1..(Teams + 1) /\ Teams \in Nat
        /\ \A j \in Team : j >= 1 /\ content[i][j] # None => NextTeam(i, 1) <= j
    <3>1. 1 \in 1..(Teams + 1) /\ Teams \in Nat
      BY DEF ConstantsAssumption
    <3> QED
      BY <3>1, NextTeamOf
  <2>3. /\ run'.op = "process" /\ run'.inv = i /\ run'.pc = AtTeam(i, 1)
        /\ run'.team = NextTeam(i, 1) /\ run'.old = record /\ run'.version = record.version
        /\ run'.place = record.place /\ run'.registered = {}
    BY <2>1
  <2>4. AtTeam(i, 1) = "entry" \/ (AtTeam(i, 1) = "data" /\ NextTeam(i, 1) > Teams)
    BY DEF AtTeam
  <2>5. \A j \in Team : content[i][j] # None /\ (AtTeam(i, 1) \in EntryPc => j < NextTeam(i, 1)) => FALSE
    BY <2>2, <2>4 DEF Team, EntryPc
  <2>6. GoneThrough(run)'
    BY <1>1, <2>3, <2>5 DEF GoneThrough, Steady
  <2>7. PlacedBy(run, record)'
    BY <1>1, <2>3 DEF PlacedBy, Steady
  <2>8. RunKnows'
    BY <1>1, <2>3, <2>6, <2>7 DEF RunKnows, Steady, AppendInv, TypeInv, TypeOK, Submission
  <2>9. \A k \in Team : ~Requesting(k)'
    BY <2>3, <2>4 DEF Requesting
  <2> QED
    BY <1>1, <2>8, <2>9, SteadyKnows
<1> QED
  BY <1>2, <1>3

LEMMA RegisteredKnows ==
  ASSUME ConstantsAssumption, AppendInv, Processes, run.pc \in EntryPc, run.pc # "interim",
         NEW rows, rows \subseteq Row, rows # {},
         \/ run' = RegisterAppended(run.team, rows)
         \/ run' = Onward(Register(run.team, rows)) /\ run.pc \notin Unplacing,
         Steady
  PROVE  RunKnows' /\ \A k \in Team : ~Requesting(k)'
<1>1. /\ run \in ProcessRun /\ run.team \in Team /\ run.place \in [Team -> Place]
      /\ RunKnows /\ GoneThrough(run) /\ (Level => PlacedBy(run, record))
      /\ run.version <= record.version
  BY AtTeamFacts DEF AppendInv, Processes, RunKnows, ProcessRun
<1>2. Min(rows) \in Row /\ Min(rows) # None
  <2>1. Min(rows) \in Row
    BY MinRow
  <2> QED
    BY <2>1, ConstantsAssumption DEF Row, ConstantsAssumption
<1>3. CASE run' = RegisterAppended(run.team, rows)
  <2>1. /\ KeptBut(run') /\ run'.pc = "interim" /\ run'.team = run.team
        /\ run'.registered = run.registered \union {run.team}
        /\ run'.place = [run.place EXCEPT ![run.team] = Min(rows)]
    BY <1>1, <1>3, RegisterAppendedTyped
  <2>2. GoneThrough(run)'
    BY <1>1, <2>1 DEF GoneThrough, KeptBut, Steady, Processes, EntryPc, EndPc, Team
  <2>3. Level => PlacedBy(run, record)'
    BY <1>1, <1>2, <2>1 DEF PlacedBy, KeptBut, Steady, Processes, EntryPc, EndPc
  <2> QED
    BY <1>1, <2>1, <2>2, <2>3 DEF RunKnows, KeptBut, Steady, Level, Requesting, Processes
<1>4. CASE run' = Onward(Register(run.team, rows)) /\ run.pc \notin Unplacing
  <2>0. PICK r : r = Register(run.team, rows)
    OBVIOUS
  <2>1. /\ r \in ProcessRun /\ KeptBut(r)
        /\ r.registered = run.registered \union {run.team}
        /\ r.place = [run.place EXCEPT ![run.team] = Min(rows)]
    BY <1>1, <2>0, RegisterTyped
  <2>2. run' = Onward(r)
    BY <1>4, <2>0
  <2>3. /\ run'.op = r.op /\ run'.inv = r.inv /\ run'.old = r.old /\ run'.version = r.version
        /\ run'.place = r.place /\ run'.registered = r.registered
        /\ run'.team \in 1..(Teams + 1) /\ run'.team > run.team
        /\ \/ run'.pc = "entry" /\ run'.team \in Team
           \/ run'.pc = "data" /\ run'.team = Teams + 1
        /\ \A j \in Team : content[run.inv][j] # None /\ j < run'.team => j <= run.team
    BY <1>1, <2>1, <2>2, OnwardTyped
  <2>4. /\ run'.op = "process" /\ run'.inv = run.inv /\ run'.old = run.old
        /\ run'.version = run.version
        /\ run'.place = [run.place EXCEPT ![run.team] = Min(rows)]
        /\ run'.registered = run.registered \union {run.team}
        /\ run'.pc \in {"entry", "data"}
    BY <2>1, <2>3 DEF KeptBut, Processes
  <2>5. Teams \in Nat /\ run.team \in 1..Teams
    BY <1>1, ConstantsAssumption DEF ConstantsAssumption, Team
  <2>6. ASSUME NEW j \in Team, content[run.inv][j] # None, run'.pc \in EntryPc => j < run'.team
        PROVE  j \in run'.registered
    <3>1. j <= run.team
      BY <2>3, <2>5, <2>6 DEF Team, EntryPc
    <3> QED
      BY <1>1, <2>4, <2>5, <2>6, <3>1 DEF GoneThrough, Processes, EntryPc, EndPc, Team
  <2>7. ASSUME NEW j \in Team, run'.pc \in EntryPc, j >= run'.team
        PROVE  run'.place[j] = run.old.place[j]
    BY <1>1, <2>3, <2>4, <2>5, <2>7 DEF GoneThrough, Processes, EntryPc, EndPc, Team
  <2>8. GoneThrough(run)'
    BY <2>3, <2>4, <2>5, <2>6, <2>7 DEF GoneThrough, Steady, Team
  <2>9. Level => PlacedBy(run, record)'
    BY <1>1, <1>2, <1>4, <2>4 DEF PlacedBy, Steady, Processes, EntryPc, EndPc
  <2>10. \A k \in Team : ~Requesting(k)'
    BY <2>4 DEF Requesting
  <2> QED
    BY <1>1, <2>4, <2>8, <2>9, <2>10 DEF RunKnows, Steady, Level
<1> QED
  BY <1>3, <1>4

LEMMA ResolveMappedKnows ==
  ASSUME ConstantsAssumption, AppendInv, NEW k \in Team, ResolveMapped(k)
  PROVE  RunKnows' /\ LateKnows' /\ AppendsCounted'
<1>1. run # None /\ run.pc = "entry" /\ k = run.team /\ run.old.place[k] \in Row
  BY DEF ResolveMapped, AtEntry
<1>2. Processes /\ run.pc \in EntryPc
  BY <1>1, RunTyped DEF AppendInv, TypeInv, DecidePc, WritePc, EndPc, EntryPc
<1>3. \/ Continue(Onward(Register(k, {run.old.place[k]})))
      \/ Found(k) # {} /\ Adopt(Found(k), RegisterAppended(k, Found(k)))
  BY DEF ResolveMapped
<1>4. Steady /\ UNCHANGED <<late, appends, removals>> /\ past \subseteq past'
  BY <1>3 DEF Continue, Adopt, world, history, Note, Steady
<1>5. \E rows \in SUBSET Row : rows # {} /\
        \/ run' = RegisterAppended(run.team, rows)
        \/ run' = Onward(Register(run.team, rows))
  BY <1>1, <1>3, FoundTyped DEF Continue, Adopt
<1>6. RunKnows' /\ \A j \in Team : ~Requesting(j)'
  BY <1>1, <1>2, <1>4, <1>5, RegisteredKnows DEF Unplacing
<1> QED
  BY <1>4, <1>6, SteadyKnows

LEMMA ReconcileKnows ==
  ASSUME ConstantsAssumption, AppendInv, NEW k \in Team, Reconcile(k)
  PROVE  RunKnows' /\ LateKnows' /\ AppendsCounted'
<1>1. run # None /\ run.pc \in {"entry", "reconcile"} /\ k = run.team
  BY DEF Reconcile, AtEntry
<1>2. Processes /\ run.pc \in EntryPc
  BY <1>1, RunTyped DEF AppendInv, TypeInv, DecidePc, WritePc, EndPc, EntryPc
<1>3. \/ Found(k) = {} /\ Adopt(Found(k), Failed)
      \/ Found(k) # {} /\ Adopt(Found(k), RegisterAppended(k, Found(k)))
  BY DEF Reconcile
<1>4. Steady /\ UNCHANGED <<late, appends, removals>> /\ past \subseteq past'
  BY <1>3 DEF Adopt, world, history, Note, Steady
<1>5. CASE run' = Failed
  BY <1>1, <1>4, <1>5, FailedKnows, SteadyKnows DEF AppendInv
<1>6. CASE Found(k) # {} /\ run' = RegisterAppended(k, Found(k))
  <2>1. RunKnows' /\ \A j \in Team : ~Requesting(j)'
    BY <1>1, <1>2, <1>4, <1>6, RegisteredKnows, FoundTyped
  <2> QED
    BY <1>4, <2>1, SteadyKnows
<1> QED
  BY <1>3, <1>5, <1>6 DEF Adopt

LEMMA ReadBackAppendKnows ==
  ASSUME ConstantsAssumption, AppendInv, NEW k \in Team, ReadBackAppend(k)
  PROVE  RunKnows' /\ LateKnows' /\ AppendsCounted'
<1>1. run # None /\ run.pc = "readback" /\ k = run.team
  BY DEF ReadBackAppend
<1>2. Processes /\ run.pc \in EntryPc
  BY <1>1, RunTyped DEF AppendInv, TypeInv, DecidePc, WritePc, EndPc, EntryPc
<1>3. \/ Continue(Failed)
      \/ /\ \E r \in Row : RowsWith(Marked(k)) = {r}
         /\ Adopt(RowsWith(Marked(k)), RegisterAppended(k, RowsWith(Marked(k))))
  BY DEF ReadBackAppend
<1>4. Steady /\ UNCHANGED <<late, appends, removals>> /\ past \subseteq past'
  BY <1>3 DEF Continue, Adopt, Note, world, history, Steady
<1>5. CASE run' = Failed
  BY <1>1, <1>4, <1>5, FailedKnows, SteadyKnows DEF AppendInv
<1>6. CASE (\E r \in Row : RowsWith(Marked(k)) = {r}) /\ run' = RegisterAppended(k, RowsWith(Marked(k)))
  <2>1. RowsWith(Marked(k)) \subseteq Row /\ RowsWith(Marked(k)) # {}
    BY <1>6
  <2>2. RunKnows' /\ \A j \in Team : ~Requesting(j)'
    BY <1>1, <1>2, <1>4, <1>6, <2>1, RegisteredKnows
  <2> QED
    BY <1>4, <2>2, SteadyKnows
<1> QED
  BY <1>3, <1>5, <1>6 DEF Continue, Adopt

LEMMA RequestAppendKnows ==
  ASSUME ConstantsAssumption, AppendInv, NEW k \in Team, RequestAppend(k)
  PROVE  RunKnows' /\ LateKnows' /\ AppendsCounted'
<1>1. /\ run # None /\ run.pc = "append" /\ k = run.team /\ LastRow(sheet) < MaxRow
      /\ UNCHANGED <<content, record, over, shown, others, removals, before, past, clicks>>
      /\ appends' = [appends EXCEPT ![k] = @ + 1]
  BY DEF RequestAppend
<1>2. Processes /\ run.pc \in EntryPc /\ Steady /\ RestOK
  BY <1>1, RunTyped, Parts DEF AppendInv, TypeInv, DecidePc, WritePc, EndPc, EntryPc, Steady
<1>3. LateKnows'
  <2>1. UNCHANGED late \/ GiveUp([type |-> "append", cell |-> Marked(k)])
    BY DEF RequestAppend
  <2> QED
    BY <1>2, <2>1, GiveUpSteady DEF AppendInv
<1>4. RunKnows' /\ \A j \in Team : ~Requesting(j)'
  <2>1. CASE run' = RegisterAppended(k, {LastRow(sheet) + 1})
    <3>1. {LastRow(sheet) + 1} \subseteq Row /\ {LastRow(sheet) + 1} # {}
      BY <1>1, <1>2, AppendedTyped DEF Cell
    <3> QED
      BY <1>1, <1>2, <2>1, <3>1, RegisteredKnows
  <2>2. CASE run' = To("reconcile") \/ run' = To("readback")
    <3>1. PICK pc \in {"reconcile", "readback"} : run' = To(pc)
      BY <2>2
    <3>2. RunKnows'
      BY <1>1, <1>2, <3>1, MoveKnows
         DEF AppendInv, Processes, Decides, ProcessPc, EntryPc, EndPc, Unplacing
    <3>3. run'.pc = pc
      BY <1>2, <3>1, RunTyped, ToProcess DEF AppendInv, TypeInv, ProcessPc, EntryPc
    <3> QED
      BY <3>2, <3>3 DEF Requesting
  <2>3. CASE run' = Failed
    BY <1>1, <1>2, <2>3, FailedKnows DEF AppendInv
  <2> QED
    BY <2>1, <2>2, <2>3 DEF RequestAppend
<1>5. AppendsCounted'
  <2>1. appends \in [Team -> Nat] /\ removals \in [Team -> Nat]
    BY <1>2 DEF RestOK
  <2>2. ASSUME NEW j \in Team, ~Had({"overwritten"})'
        PROVE  appends'[j] + 0 <= removals[j] + (IF record.place[j] # None THEN 1 ELSE 0)
    <3>1. appends[j] + (IF Requesting(j) THEN 1 ELSE 0)
            <= removals[j] + (IF record.place[j] # None THEN 1 ELSE 0)
      BY <1>1, <2>2 DEF AppendInv, AppendsCounted, Had
    <3>2. Requesting(k)
      BY <1>1, <1>2 DEF Requesting
    <3>3. CASE j = k
      BY <1>1, <2>1, <3>1, <3>2, <3>3
    <3>4. CASE j # k
      <4>1. appends'[j] = appends[j] /\ appends[j] \in Nat /\ removals[j] \in Nat
        BY <1>1, <2>1, <3>4
      <4>2. ~Requesting(j)
        BY <1>1, <3>4 DEF Requesting
      <4> QED
        BY <3>1, <4>1, <4>2
    <3> QED
      BY <3>3, <3>4
  <2> QED
    BY <1>1, <1>4, <2>2 DEF AppendsCounted
<1> QED
  BY <1>3, <1>4, <1>5

LEMMA ReadFailsKnows ==
  ASSUME AppendInv, run # None, ReadFails
  PROVE  RunKnows' /\ LateKnows' /\ AppendsCounted'
<1>1. Steady /\ UNCHANGED <<late, appends, removals, past>> /\ run' = Failed
  BY DEF ReadFails, world, history, Steady
<1> QED
  BY <1>1, FailedKnows, SteadyKnows DEF AppendInv

LEMMA BeforeAppendKnows ==
  ASSUME ConstantsAssumption, AppendInv, NEW k \in Team, BeforeAppend(k)
  PROVE  RunKnows' /\ LateKnows' /\ AppendsCounted'
<1>1. run # None /\ run.pc = "entry" /\ k = run.team /\ run.old.place[k] = None
  BY DEF BeforeAppend, AtEntry
<1>2. Processes /\ run \in ProcessRun
  BY <1>1, RunTyped DEF AppendInv, TypeInv, DecidePc, WritePc, EndPc
<1> DEFINE teams == run.registered \union {k}
           place == [run.place EXCEPT ![k] = Column]
           snap == Without(run.undo, k) \union {BlankRow(k, None)}
           new == Record("applying", teams, place, snap)
           next == To("append")
<1>3. /\ teams \in SUBSET Team /\ place \in [Team -> Place]
      /\ snap \in SUBSET Item
  BY <1>2, BlankRowTyped DEF ProcessRun, Place, Without
<1>4. Persist(new, next)
  BY Zenon DEF BeforeAppend
<1>5. Column # None
  BY ConstantsAssumption DEF Column, ConstantsAssumption
<1>6. /\ \A j \in Team : place[j] = IF j = k THEN Column ELSE run.place[j]
      /\ GoneThrough(run) /\ (Level => PlacedBy(run, record)) /\ content[run.inv][k] # None
  BY <1>1, <1>2, AtTeamFacts DEF AppendInv, RunKnows, ProcessRun, EntryPc
<1> HIDE DEF teams, place, snap
<1>7. new \in Submission /\ new.place = place
  <2>1. TypeInv
    BY DEF AppendInv
  <2>2. /\ Record("applying", teams, place, snap) \in Submission
        /\ Record("applying", teams, place, snap).place = place
    BY <1>2, <1>3, <2>1, ApplyingTyped
  <2> QED
    BY <2>2 DEF new
<1> HIDE DEF new
<1>8. next \in ProcessRun /\ next.pc = "append" /\ KeptBut(next) /\ KeptProcess(next)
  BY <1>2, ToProcess DEF ProcessPc, EntryPc
<1> HIDE DEF next
<1>9. GoneThrough(next)
  BY <1>1, <1>2, <1>6, <1>8 DEF GoneThrough, KeptBut, KeptProcess, EntryPc, EndPc, Processes
<1>10. PlacedBy(next, new)
  BY <1>1, <1>2, <1>6, <1>7, <1>8 DEF PlacedBy, KeptBut, KeptProcess, Processes, Unplacing
<1>11. Level => KeepsPlaces(run.inv, new)
  BY <1>1, <1>2, <1>5, <1>6, <1>7 DEF KeepsPlaces, PlacedBy, Processes, Unplacing, EndPc
<1>12. Level => record.place[k] = None
  BY <1>1, <1>2, <1>6 DEF PlacedBy, GoneThrough, Processes, Unplacing, EndPc, EntryPc
<1>13. new.place[k] # None
  BY <1>5, <1>6, <1>7
<1> QED
  BY <1>1, <1>2, <1>4, <1>7, <1>8, <1>9, <1>10, <1>11, <1>12, <1>13, PersistKnows
     DEF KeptBut, KeptProcess, Processes

LEMMA PersistAppendedKnows ==
  ASSUME ConstantsAssumption, AppendInv, PersistAppended
  PROVE  RunKnows' /\ LateKnows' /\ AppendsCounted'
<1>1. run # None /\ run.pc = "interim"
  BY DEF PersistAppended
<1>2. Processes /\ run \in ProcessRun /\ run.team \in Team /\ ProcessWell /\ TypeInv
  BY <1>1, RunTyped, AtTeamFacts
     DEF AppendInv, TypeInv, RunWell, Processes, DecidePc, WritePc, EndPc, EntryPc
<1>3. GoneThrough(run) /\ (Level => PlacedBy(run, record)) /\ run.team \in run.registered
  BY <1>1, <1>2 DEF AppendInv, RunKnows, ProcessWell
<1> DEFINE new == Record("applying", run.registered, run.place, run.undo)
           next == Onward(run)
<1>4. Persist(new, next)
  BY Zenon DEF PersistAppended
<1>5. new \in Submission /\ new.place = run.place
  <2>1. /\ run.registered \in SUBSET Team /\ run.place \in [Team -> Place]
        /\ run.undo \in SUBSET Item
    BY <1>2 DEF ProcessRun
  <2> QED
    BY <1>2, <2>1, ApplyingTyped
<1>6. /\ next \in ProcessRun /\ next.op = run.op /\ next.inv = run.inv /\ next.old = run.old
      /\ next.version = run.version /\ next.place = run.place
      /\ next.registered = run.registered
      /\ next.team \in 1..(Teams + 1) /\ next.team > run.team
      /\ next.pc \in {"entry", "data"} /\ (next.pc = "data" => next.team = Teams + 1)
      /\ \A j \in Team : content[run.inv][j] # None /\ j < next.team => j <= run.team
  BY <1>2, OnwardTyped
<1> HIDE DEF new, next
<1>7. Teams \in Nat /\ run.team \in 1..Teams
  BY <1>2, ConstantsAssumption DEF ConstantsAssumption, Team
<1>8. ASSUME NEW j \in Team, content[run.inv][j] # None, next.pc \in EntryPc => j < next.team
      PROVE  j \in next.registered
  <2>1. j <= run.team
    BY <1>6, <1>7, <1>8 DEF Team, EntryPc
  <2>2. j < run.team => j \in run.registered
    BY <1>1, <1>2, <1>3, <1>8 DEF GoneThrough, Processes, EntryPc, EndPc
  <2> QED
    BY <1>3, <1>6, <1>7, <2>1, <2>2 DEF Team
<1>9. ASSUME NEW j \in Team, j >= next.team
      PROVE  next.place[j] = run.old.place[j]
  <2>1. j > run.team
    BY <1>6, <1>7, <1>9 DEF Team
  <2> QED
    BY <1>1, <1>2, <1>3, <1>6, <2>1 DEF GoneThrough, Processes, EntryPc, EndPc
<1>10. GoneThrough(next)
  BY <1>2, <1>6, <1>7, <1>8, <1>9 DEF GoneThrough, Team
<1>11. PlacedBy(next, new)
  BY <1>2, <1>5, <1>6 DEF PlacedBy, Processes
<1>12. Level => KeepsPlaces(run.inv, new)
  BY <1>1, <1>2, <1>3, <1>5 DEF KeepsPlaces, PlacedBy, Processes, Unplacing, EndPc
<1> QED
  BY <1>1, <1>2, <1>4, <1>5, <1>6, <1>10, <1>11, <1>12, PersistKnows

(* When the sheet is written every team of the message is registered, so the
   record loses no place of theirs.                                          *)
LEMMA PlacesKnow ==
  ASSUME ConstantsAssumption, AppendInv, Processes, run.pc \in {"applying", "terminal"},
         NEW new \in Submission, new.place = Places(run.registered), NEW pc \in {"write", "bind"}
  PROVE  /\ To(pc) \in ProcessRun /\ To(pc).pc = pc
         /\ To(pc).op = run.op /\ To(pc).version = run.version
         /\ GoneThrough(To(pc)) /\ PlacedBy(To(pc), new)
         /\ Level => KeepsPlaces(run.inv, new)
<1>1. run \in ProcessRun /\ ProcessWell /\ GoneThrough(run)
  BY RunTyped DEF AppendInv, TypeInv, RunWell, RunKnows, Processes
<1>2. /\ \A j \in Team : content[run.inv][j] # None => j \in run.registered
      /\ \A j \in run.registered : j \in Team /\ run.place[j] # None
  <2>1. \A j \in run.registered : j \in Team /\ run.place[j] \in Row
    BY <1>1 DEF ProcessWell, ProcessRun
  <2>2. \A j \in Row : j # None
    BY ConstantsAssumption DEF Row, ConstantsAssumption
  <2> QED
    BY <1>1, <2>1, <2>2 DEF GoneThrough, Processes, EntryPc, EndPc
<1>3. pc \in ProcessPc /\ pc \notin EndPc /\ pc \notin EntryPc
  BY DEF ProcessPc, EntryPc, EndPc, WritePc
<1> DEFINE next == To(pc)
<1>4. next \in ProcessRun /\ next.pc = pc /\ KeptBut(next) /\ KeptProcess(next)
  BY <1>1, <1>3, ToProcess
<1> HIDE DEF next
<1>5. GoneThrough(next)
  BY <1>2, <1>3, <1>4 DEF GoneThrough, KeptBut, KeptProcess
<1>6. \A j \in Team : new.place[j] # None <=> j \in run.registered
  BY <1>2 DEF Places
<1>7. PlacedBy(next, new)
  BY <1>2, <1>4, <1>6 DEF PlacedBy, KeptBut, KeptProcess, Processes
<1>8. KeepsPlaces(run.inv, new)
  BY <1>2, <1>6 DEF KeepsPlaces
<1> QED
  BY <1>4, <1>5, <1>7, <1>8 DEF next, KeptBut

LEMMA PersistApplyingKnows ==
  ASSUME ConstantsAssumption, AppendInv, PersistApplying
  PROVE  RunKnows' /\ LateKnows' /\ AppendsCounted'
<1>1. run # None /\ run.pc = "applying"
  BY DEF PersistApplying
<1>2. Processes /\ run \in ProcessRun /\ TypeInv
  BY <1>1, RunTyped DEF AppendInv, TypeInv, Processes, DecidePc, WritePc, EndPc
<1> DEFINE new == Record("applying", run.registered, Places(run.registered), run.snap)
<1>3. Persist(new, To("write"))
  BY Zenon DEF PersistApplying
<1>4. new \in Submission /\ new.place = Places(run.registered)
  <2>1. /\ run.registered \in SUBSET Team /\ Places(run.registered) \in [Team -> Place]
        /\ run.snap \in SUBSET Item
    BY <1>2, PlacesTyped DEF ProcessRun
  <2> QED
    BY <1>2, <2>1, ApplyingTyped
<1> HIDE DEF new
<1>5. /\ To("write") \in ProcessRun /\ To("write").pc = "write"
      /\ To("write").op = run.op /\ To("write").version = run.version
      /\ GoneThrough(To("write")) /\ PlacedBy(To("write"), new)
      /\ Level => KeepsPlaces(run.inv, new)
  BY <1>1, <1>2, <1>4, PlacesKnow
<1> QED
  BY <1>1, <1>3, <1>4, <1>5, PersistKnows

LEMMA PersistTerminalKnows ==
  ASSUME ConstantsAssumption, AppendInv, PersistTerminal
  PROVE  RunKnows' /\ LateKnows' /\ AppendsCounted'
<1>1. run # None /\ run.pc = "terminal"
  BY DEF PersistTerminal
<1>2. Processes /\ run \in ProcessRun /\ TypeInv
  BY <1>1, RunTyped DEF AppendInv, TypeInv, Processes, DecidePc, WritePc, EndPc
<1> DEFINE status == IF run.registered = {} THEN "empty"
                     ELSE IF run.old = Missing THEN "registered" ELSE "updated"
           new == Record(status, run.registered, Places(run.registered), run.snap)
<1>3. status \in Status
  BY DEF Status
<1>4. Persist(new, To("bind"))
  BY Zenon DEF PersistTerminal
<1> HIDE DEF status
<1>5. new \in Submission /\ new.place = Places(run.registered)
  <2>1. /\ run.registered \in SUBSET Team /\ Places(run.registered) \in [Team -> Place]
        /\ run.snap \in SUBSET Item
    BY <1>2, PlacesTyped DEF ProcessRun
  <2> QED
    BY <1>2, <1>3, <2>1, RecordTyped
<1> HIDE DEF new
<1>6. /\ To("bind") \in ProcessRun /\ To("bind").pc = "bind"
      /\ To("bind").op = run.op /\ To("bind").version = run.version
      /\ GoneThrough(To("bind")) /\ PlacedBy(To("bind"), new)
      /\ Level => KeepsPlaces(run.inv, new)
  BY <1>1, <1>2, <1>5, PlacesKnow
<1> QED
  BY <1>1, <1>4, <1>5, <1>6, PersistKnows

LEMMA ReadSnapshotKnows ==
  ASSUME ConstantsAssumption, AppendInv, ReadSnapshot
  PROVE  RunKnows' /\ LateKnows' /\ AppendsCounted'
<1>1. run # None /\ run.pc = "data"
  BY DEF ReadSnapshot
<1>2. Processes /\ run \in ProcessRun
  BY <1>1, RunTyped DEF AppendInv, TypeInv, Processes, DecidePc, WritePc, EndPc
<1>3. CASE ReadFails
  BY <1>1, <1>3, ReadFailsKnows
<1>4. CASE ~ReadFails
  <2> DEFINE pc == IF Updates = {} THEN "terminal" ELSE "applying"
             next == [run EXCEPT !.data = Updates, !.snap = Snapshot, !.pc = pc]
  <2>1. Continue(next)
    BY <1>4 DEF ReadSnapshot
  <2>2. pc \notin EntryPc /\ pc \notin EndPc
    BY DEF EntryPc, EndPc
  <2> HIDE DEF pc
  <2>3. /\ run'.pc = pc /\ run'.op = run.op /\ run'.inv = run.inv /\ run'.old = run.old
        /\ run'.version = run.version /\ run'.place = run.place /\ run'.team = run.team
        /\ run'.registered = run.registered
    BY <1>2, <2>1 DEF Continue, ProcessRun
  <2>4. Steady /\ UNCHANGED <<late, appends, removals, past>>
    BY <2>1 DEF Continue, world, history, Steady
  <2>5. /\ GoneThrough(run) /\ (Level => PlacedBy(run, record)) /\ run.version <= record.version
    BY <1>1 DEF AppendInv, RunKnows
  <2>6. GoneThrough(run)'
    BY <1>1, <1>2, <2>2, <2>3, <2>4, <2>5 DEF GoneThrough, Steady, EntryPc, EndPc
  <2>7. Level => PlacedBy(run, record)'
    BY <1>1, <1>2, <2>2, <2>3, <2>4, <2>5 DEF PlacedBy, Steady, EntryPc, EndPc, Unplacing, Processes
  <2>8. RunKnows' /\ \A k \in Team : ~Requesting(k)'
    BY <1>2, <2>2, <2>3, <2>4, <2>5, <2>6, <2>7
       DEF RunKnows, Steady, Level, Requesting, Processes, EntryPc
  <2> QED
    BY <2>4, <2>8, SteadyKnows
<1> QED
  BY <1>3, <1>4

(* A move of an operation after its entries, or of a decision.               *)
LEMMA LaterMoveKnows ==
  ASSUME AppendInv, run # None, Steady, NEW pc, run' = To(pc),
         Processes => /\ run.pc \notin EntryPc \union EndPc
                      /\ pc \in ProcessPc /\ pc \notin EntryPc,
         Decides => pc \in DecidePc,
         \A entry \in late' : entry \in late \/ entry[2].type # "upsert",
         UNCHANGED <<appends, removals>>, past \subseteq past'
  PROVE  RunKnows' /\ LateKnows' /\ AppendsCounted'
<1>1. RunKnows'
  BY MoveKnows DEF AppendInv, EntryPc, Unplacing
<1>2. \A k \in Team : ~Requesting(k)'
  <2>1. CASE Processes
    <3>1. run'.pc = pc
      BY <2>1, RunTyped, ToProcess DEF AppendInv, TypeInv
    <3> QED
      BY <2>1, <3>1 DEF Requesting, EntryPc
  <2>2. CASE Decides
    <3>1. run'.op = "decide"
      BY <2>2, RunTyped, ToDecide DEF AppendInv, TypeInv, KeptBut, Decides
    <3> QED
      BY <3>1 DEF Requesting, Processes
  <2> QED
    BY <2>1, <2>2, RunTyped DEF AppendInv, TypeInv
<1> QED
  BY <1>1, <1>2, SteadyKnows

LEMMA WriteKnows ==
  ASSUME AppendInv, Write
  PROVE  RunKnows' /\ LateKnows' /\ AppendsCounted'
<1>1. /\ run # None /\ run.pc \in {"write", "rewrite"}
      /\ UNCHANGED <<content, record, over, shown, others, history, clicks>>
  BY DEF Write
<1>2. Steady /\ UNCHANGED <<appends, removals, past>>
  BY <1>1 DEF Steady, history
<1>3. \A entry \in late' : entry \in late \/ entry[2].type # "upsert"
  <2> DEFINE req == [type |-> "write", data |-> run.data]
  <2>1. UNCHANGED late \/ GiveUp(req)
    BY DEF Write
  <2>2. req.type # "upsert"
    OBVIOUS
  <2> HIDE DEF req
  <2>3. \A entry \in late' : entry \in late \/ entry = <<faults, req>>
    BY <2>1 DEF GiveUp
  <2> QED
    BY <2>2, <2>3
<1>4. \E pc \in {AfterWrite, "readback write", IF run.op = "process" THEN "failed" ELSE "check"} :
        run' = To(pc)
  BY DEF Write, WriteFailed
<1>5. CASE Processes
  <2>1. \E pc \in {"terminal", "readback write", "failed"} : run' = To(pc)
    BY <1>4, <1>5 DEF AfterWrite, Processes
  <2> QED
    BY <1>1, <1>2, <1>3, <1>5, <2>1, LaterMoveKnows
       DEF Processes, Decides, ProcessPc, EntryPc, WritePc, EndPc
<1>6. CASE Decides
  <2>1. \E pc \in {"reject", "readback write", "check"} : run' = To(pc)
    BY <1>4, <1>6 DEF AfterWrite, Decides
  <2> QED
    BY <1>1, <1>2, <1>3, <1>6, <2>1, LaterMoveKnows DEF Processes, Decides, DecidePc, WritePc
<1> QED
  BY <1>1, <1>5, <1>6, RunTyped DEF AppendInv, TypeInv

LEMMA ReadBackWriteKnows ==
  ASSUME AppendInv, ReadBackWrite
  PROVE  RunKnows' /\ LateKnows' /\ AppendsCounted'
<1>1. run # None /\ run.pc = "readback write"
  BY DEF ReadBackWrite
<1>2. Steady /\ UNCHANGED <<late, appends, removals, past>>
  BY DEF ReadBackWrite, Continue, Steady, world, history
<1>3. \E pc \in {AfterWrite, "rewrite"} : run' = To(pc)
  BY DEF ReadBackWrite, Continue
<1>4. CASE Processes
  <2>1. \E pc \in {"terminal", "rewrite"} : run' = To(pc)
    BY <1>3, <1>4 DEF AfterWrite, Processes
  <2> QED
    BY <1>1, <1>2, <1>4, <2>1, LaterMoveKnows
       DEF Processes, Decides, ProcessPc, EntryPc, WritePc, EndPc
<1>5. CASE Decides
  <2>1. \E pc \in {"reject", "rewrite"} : run' = To(pc)
    BY <1>3, <1>5 DEF AfterWrite, Decides
  <2> QED
    BY <1>1, <1>2, <1>5, <2>1, LaterMoveKnows DEF Processes, Decides, DecidePc, WritePc
<1> QED
  BY <1>1, <1>4, <1>5, RunTyped DEF AppendInv, TypeInv

LEMMA SetConfirmationKnows ==
  ASSUME AppendInv, SetConfirmation
  PROVE  RunKnows' /\ LateKnows' /\ AppendsCounted'
<1>1. /\ run # None /\ run.pc = "bind"
      /\ UNCHANGED <<content, sheet, over, shown, others, history, clicks>>
  BY DEF SetConfirmation
<1>2. Processes /\ run.inv \in Invocation /\ RecordOK
  BY <1>1, RunTyped, Parts DEF AppendInv, TypeInv, DecidePc, WritePc, EndPc
<1>3. Steady /\ UNCHANGED <<appends, removals, past>>
  <2>1. CASE UNCHANGED record
    BY <1>1, <2>1 DEF Steady, history
  <2> QED
    BY <1>1, <1>2, <2>1, BindTyped DEF SetConfirmation, Steady, history
<1>4. \A entry \in late' : entry \in late \/ entry[2].type # "upsert"
  BY DEF SetConfirmation, GiveUp
<1>5. \E pc \in {"enable", "failed"} : run' = To(pc)
  BY DEF SetConfirmation, Failed, To
<1> QED
  BY <1>1, <1>2, <1>3, <1>4, <1>5, LaterMoveKnows
     DEF Processes, Decides, ProcessPc, EntryPc, WritePc, EndPc

LEMMA EnableButtonsKnows ==
  ASSUME AppendInv, EnableButtons
  PROVE  RunKnows' /\ LateKnows' /\ AppendsCounted'
<1>1. run # None /\ run.pc = "enable"
  BY DEF EnableButtons
<1>2. Processes
  BY <1>1, RunTyped DEF AppendInv, TypeInv, DecidePc, WritePc, EndPc
<1>3. Steady /\ UNCHANGED <<late, appends, removals, past>>
  BY DEF EnableButtons, Steady, world, history
<1>4. \E pc \in {"done", "failed"} : run' = To(pc)
  BY DEF EnableButtons, Done, Failed, To
<1> QED
  BY <1>1, <1>2, <1>3, <1>4, LaterMoveKnows
     DEF Processes, Decides, ProcessPc, EntryPc, WritePc, EndPc

LEMMA DecideKnows ==
  ASSUME AppendInv, NEW i \in Invocation, NEW pc \in DecidePc, Decide(i, pc),
         record.status # "missing"
  PROVE  RunKnows' /\ LateKnows' /\ AppendsCounted'
<1>1. run' = [op |-> "decide", inv |-> i, pc |-> pc, old |-> record,
              version |-> record.version, data |-> {}]
  BY DEF Decide
<1>2. Steady /\ UNCHANGED <<late, appends, removals, past>>
  BY DEF Decide, Steady, world, history
<1>3. record.version \in Nat /\ record.version # 0
  BY DEF AppendInv, TypeInv, TypeOK, Submission
<1>4. /\ run'.op = "decide" /\ run'.old = record /\ run'.version = record.version
  BY <1>1
<1>5. RunKnows' /\ \A k \in Team : ~Requesting(k)'
  BY <1>2, <1>3, <1>4 DEF RunKnows, Steady, GoneThrough, PlacedBy, Requesting, Processes
<1> QED
  BY <1>2, <1>5, SteadyKnows

LEMMA PersistDecisionKnows ==
  ASSUME AppendInv, PersistDecision
  PROVE  RunKnows' /\ LateKnows' /\ AppendsCounted'
<1>1. run # None /\ run.op = "decide"
  BY DEF PersistDecision
<1>2. Decides /\ run \in DecideRun /\ run.old \in Submission
  BY <1>1, RunTyped DEF AppendInv, TypeInv, Decides
<1>3. PICK status \in Status, pc \in {"done", "restore"} :
        Persist([run.old EXCEPT !.status = status], To(pc))
  <2>1. Done = To("done")
    BY DEF Done, To
  <2>2. {"confirmed", "rejected", "rollbackFailed", "reverting"} \subseteq Status
    BY DEF Status
  <2> QED
    BY <2>1, <2>2 DEF PersistDecision, PersistStatus
<1> DEFINE new == [run.old EXCEPT !.status = status]
           next == To(pc)
<1>4. new \in Submission /\ new.place = run.old.place /\ new.entries = run.old.entries
  BY <1>2, <1>3 DEF Submission
<1>5. Persist(new, next)
  BY <1>3
<1>6. next \in DecideRun /\ KeptBut(next)
  BY <1>2, <1>3, ToDecide DEF DecidePc, EndPc
<1> HIDE DEF new, next
<1>7. GoneThrough(next) /\ PlacedBy(next, new)
  BY <1>2, <1>4, <1>6 DEF GoneThrough, PlacedBy, KeptBut, Decides
<1>8. Level => KeepsPlaces(run.inv, new)
  BY <1>1, <1>4 DEF AppendInv, RunKnows, PlacedBy, KeepsPlaces
<1> QED
  BY <1>1, <1>4, <1>5, <1>6, <1>7, <1>8, PersistKnows DEF KeptBut

LEMMA RestoreKnows ==
  ASSUME AppendInv, Restore
  PROVE  RunKnows' /\ LateKnows' /\ AppendsCounted'
<1>1. run # None /\ run.pc = "restore"
  BY DEF Restore
<1>2. Decides /\ run \in DecideRun
  BY <1>1, RunTyped DEF AppendInv, TypeInv, ProcessPc, EntryPc, WritePc, EndPc
<1> DEFINE rows == {item \in run.old.snap : item.row # None}
           pc == IF rows = {} THEN "fail" ELSE "write"
<1>3. Continue([run EXCEPT !.data = rows, !.pc = pc])
  BY Zenon DEF Restore
<1> HIDE DEF rows, pc
<1>4. run'.op = run.op /\ run'.old = run.old /\ run'.version = run.version
  BY <1>2, <1>3 DEF Continue, DecideRun
<1>5. Steady /\ UNCHANGED <<late, appends, removals, past>>
  BY <1>3 DEF Continue, world, history, Steady
<1>6. RunKnows' /\ \A k \in Team : ~Requesting(k)'
  BY <1>1, <1>2, <1>4, <1>5
     DEF AppendInv, RunKnows, Steady, GoneThrough, PlacedBy, Requesting, Processes, Decides, Level
<1> QED
  BY <1>5, <1>6, SteadyKnows

LEMMA CheckRestoredKnows ==
  ASSUME AppendInv, CheckRestored
  PROVE  RunKnows' /\ LateKnows' /\ AppendsCounted'
<1>1. run # None /\ run.pc = "check"
  BY DEF CheckRestored
<1>2. Decides
  BY <1>1, RunTyped DEF AppendInv, TypeInv, ProcessPc, EntryPc, WritePc, EndPc
<1>3. Steady /\ UNCHANGED <<late, appends, removals, past>>
  BY DEF CheckRestored, Continue, Steady, world, history
<1>4. \E pc \in {"reject", "fail"} : run' = To(pc)
  BY DEF CheckRestored, Continue
<1> QED
  BY <1>1, <1>2, <1>3, <1>4, LaterMoveKnows DEF Processes, Decides, DecidePc

LEMMA StopKnows ==
  ASSUME AppendInv, End \/ Interrupt
  PROVE  RunKnows' /\ LateKnows' /\ AppendsCounted'
<1>1. run' = None /\ Steady /\ UNCHANGED <<late, appends, removals>> /\ past \subseteq past'
  BY DEF End, Interrupt, Steady, Note, world
<1>2. RunKnows' /\ \A k \in Team : ~Requesting(k)'
  BY <1>1 DEF RunKnows, Requesting, Processes
<1> QED
  BY <1>1, <1>2, SteadyKnows

(* A step of the rest of the world, which leaves the operation where it is.  *)
LEMMA OutsideKnows ==
  ASSUME AppendInv, UNCHANGED <<run, appends, removals>>, Steady, late' \subseteq late,
         past \subseteq past'
  PROVE  RunKnows' /\ LateKnows' /\ AppendsCounted'
<1>1. RunKnows' /\ \A k \in Team : Requesting(k)' => Requesting(k)
  <2>1. GoneThrough(run) => GoneThrough(run)'
    BY DEF GoneThrough, Steady
  <2>2. PlacedBy(run, record) => PlacedBy(run, record)'
    BY DEF PlacedBy, Steady
  <2> QED
    BY <2>1, <2>2 DEF AppendInv, RunKnows, Level, Steady, Requesting, Processes
<1> QED
  BY <1>1, SteadyKnows

LEMMA ApplyLateKnows ==
  ASSUME AppendInv, ApplyLate
  PROVE  RunKnows' /\ LateKnows' /\ AppendsCounted'
<1>1. UNCHANGED <<content, run, over, shown, others, appends, faults, clicks>>
  BY DEF ApplyLate
<1>2. PICK entry \in late :
        /\ late' = late \ {entry}
        /\ \/ entry[2].type = "upsert" /\ Upsert(entry[2])
           \/ UNCHANGED <<record, removals>> /\ past \subseteq past'
           \/ entry[2].type = "bind" /\ record' = Bind(entry[2].inv) /\ UNCHANGED removals
                /\ past \subseteq past'
  BY Zenon DEF ApplyLate, Note
<1>3. entry[2] \in Request /\ RecordOK /\ late' \subseteq late
  BY <1>2, Parts DEF AppendInv, LateOK
<1>4. CASE UNCHANGED <<record, removals>> /\ past \subseteq past'
  BY <1>1, <1>3, <1>4, OutsideKnows DEF Steady
<1>5. CASE entry[2].type = "bind" /\ record' = Bind(entry[2].inv) /\ UNCHANGED removals
             /\ past \subseteq past'
  <2>1. entry[2].inv \in Invocation
    BY <1>3, <1>5 DEF Request, Upserts
  <2>2. Steady
    BY <1>1, <1>3, <1>5, <2>1, BindTyped DEF Steady
  <2> QED
    BY <1>1, <1>3, <1>5, <2>2, OutsideKnows
<1>6. CASE entry[2].type = "upsert" /\ Upsert(entry[2])
  <2>1. entry[2] \in Upserts
    BY <1>3, <1>6 DEF Request, Upserts
  <2>2. entry[2].expected = None
          \/ (entry[2].expected = record.version => KeepsPlaces(entry[2].inv, entry[2].new))
    BY <1>6 DEF AppendInv, LateKnows
  <2>3. /\ LateKnows'
        /\ record'.version = record.version + 1 /\ record.version \in Nat
        /\ past \subseteq past'
        /\ \/ Had({"overwritten"})'
           \/ \A k \in Team :
                /\ removals[k] + (IF record.place[k] # None THEN 1 ELSE 0)
                     <= removals'[k] + (IF record'.place[k] # None THEN 1 ELSE 0)
                /\ removals'[k] \in Nat /\ removals[k] <= removals'[k]
    BY <1>1, <1>3, <1>6, <2>1, <2>2, UpsertKnows DEF AppendInv
  <2>4. RunKnows'
    BY <1>1, <2>3, RunTyped DEF AppendInv, TypeInv, RunKnows, GoneThrough, Level
  <2>5. appends \in [Team -> Nat] /\ removals \in [Team -> Nat]
    BY DEF AppendInv, TypeInv, TypeOK
  <2>6. ASSUME NEW k \in Team, ~Had({"overwritten"})'
        PROVE  appends[k] + (IF Requesting(k) THEN 1 ELSE 0)
                 <= removals'[k] + (IF record'.place[k] # None THEN 1 ELSE 0)
    <3>1. ~Had({"overwritten"})
      BY <2>3, <2>6 DEF Had
    <3>2. appends[k] + (IF Requesting(k) THEN 1 ELSE 0)
            <= removals[k] + (IF record.place[k] # None THEN 1 ELSE 0)
      BY <3>1 DEF AppendInv, AppendsCounted
    <3>3. /\ appends[k] \in Nat /\ removals[k] \in Nat /\ removals'[k] \in Nat
          /\ removals[k] + (IF record.place[k] # None THEN 1 ELSE 0)
               <= removals'[k] + (IF record'.place[k] # None THEN 1 ELSE 0)
      BY <2>3, <2>5, <2>6
    <3> QED
      BY <3>2, <3>3
  <2>7. AppendsCounted'
    BY <1>1, <2>6 DEF AppendsCounted, Requesting, Processes
  <2> QED
    BY <2>3, <2>4, <2>7
<1> QED
  BY <1>2, <1>4, <1>5, <1>6


LEMMA OtherAppendsKnows ==
  ASSUME AppendInv, OtherAppends \/ UNCHANGED vars
  PROVE  RunKnows' /\ LateKnows' /\ AppendsCounted'
<1>1. /\ UNCHANGED <<content, record, run, late, appends, removals>> /\ past \subseteq past'
  BY DEF OtherAppends, Note, vars, world, history
<1>2. Steady
  BY <1>1 DEF Steady
<1> QED
  BY <1>1, <1>2, OutsideKnows

(* A confirmation can be decided only once there is a record.                *)
LEMMA DecidesRecorded ==
  ASSUME NEW i \in Invocation, Confirm(i) \/ Reject(i)
  PROVE  record.status # "missing" /\ \E pc \in DecidePc : Decide(i, pc)
BY DEF Confirm, Reject, Allowed, Actionable, Resumable, DecidePc

LEMMA NextKnows ==
  ASSUME ConstantsAssumption, AppendInv, [Next]_vars
  PROVE  AppendInv'
<1>1. TypeInv'
  BY NextTyped DEF AppendInv
<1>2. CASE ProcessStep
  <2>1. CASE \E k \in Team : ProcessEntry(k)
    BY <1>1, <2>1, ResolveMappedKnows, ReconcileKnows, BeforeAppendKnows, RequestAppendKnows,
       ReadBackAppendKnows, ReadFailsKnows DEF ProcessEntry, AppendInv
  <2> QED
    BY <1>1, <1>2, <2>1, StartKnows, PersistAppendedKnows, ReadSnapshotKnows,
       PersistApplyingKnows, PersistTerminalKnows, SetConfirmationKnows, EnableButtonsKnows
       DEF ProcessStep, AppendInv
<1>3. CASE DecideStep
  <2>1. ASSUME NEW i \in Invocation, Confirm(i) \/ Reject(i)
        PROVE  AppendInv'
    BY <1>1, <2>1, DecidesRecorded, DecideKnows DEF AppendInv
  <2> QED
    BY <1>1, <1>3, <2>1, PersistDecisionKnows, RestoreKnows, CheckRestoredKnows
       DEF DecideStep, AppendInv
<1>4. CASE End \/ Interrupt \/ ApplyLate
  BY <1>1, <1>4, StopKnows, ApplyLateKnows DEF AppendInv
<1>5. CASE Write \/ ReadBackWrite
  BY <1>1, <1>5, WriteKnows, ReadBackWriteKnows DEF AppendInv
<1>6. CASE OtherAppends \/ UNCHANGED vars
  BY <1>1, <1>6, OtherAppendsKnows DEF AppendInv
<1> QED
  BY <1>2, <1>3, <1>4, <1>5, <1>6 DEF Next

LEMMA InitKnows ==
  ASSUME ConstantsAssumption, Init
  PROVE  AppendInv
<1>1. TypeInv
  BY InitTyped
<1>2. RunKnows /\ LateKnows
  BY DEF Init, RunKnows, LateKnows
<1>3. ASSUME NEW k \in Team
      PROVE  /\ appends[k] + (IF Requesting(k) THEN 1 ELSE 0) = 0
             /\ removals[k] + (IF record.place[k] # None THEN 1 ELSE 0) = 0
  BY DEF Init, Missing, Requesting, Processes
<1>4. AppendsCounted
  BY <1>3 DEF AppendsCounted
<1> QED
  BY <1>1, <1>2, <1>4 DEF AppendInv

(* A team's row is appended at most once for every time the team enters the
   message, through any number of interrupts, lost answers and repeated
   invocations, unless a first upsert that came late replaced a record.  The
   requests are counted against the places that the record holds or has given
   up: each is made while the record says "pending", which the operation that
   makes it has just recorded over a record without a place.                 *)
THEOREM AppendsOnce == Spec => []AppendedOnce
<1>1. Init => AppendInv
  BY InitKnows, ConstantsAssumption
<1>2. AppendInv /\ [Next]_vars => AppendInv'
  BY NextKnows, ConstantsAssumption
<1>3. AppendInv => AppendedOnce
  <2>1. ASSUME AppendInv, ~Had({"overwritten"}), NEW k \in Team
        PROVE  appends[k] <= 1 + removals[k]
    <3>1. appends[k] \in Nat /\ removals[k] \in Nat
      BY <2>1 DEF AppendInv, TypeInv, TypeOK
    <3>2. appends[k] + (IF Requesting(k) THEN 1 ELSE 0)
            <= removals[k] + (IF record.place[k] # None THEN 1 ELSE 0)
      BY <2>1 DEF AppendInv, AppendsCounted
    <3> QED
      BY <3>1, <3>2
  <2> QED
    BY <2>1 DEF AppendedOnce
<1> QED
  BY <1>1, <1>2, <1>3, PTL DEF Spec

-----------------------------------------------------------------------------
(* The author confirms what was shown.  The action of ConfirmedAsShown, and
   the steps that leave the record.                                          *)
Shows ==
  record.status # "confirmed" /\ record'.status = "confirmed" =>
    Had({"unbound"}) \/ \A i \in Pressed : record.entries = content[i]
Unconfirming(entry) == entry[2].type = "upsert" => entry[2].new.status # "confirmed"

LEMMA BoundSteady ==
  ASSUME Bound, UNCHANGED <<record, content>>,
         \/ UNCHANGED run
         \/ /\ Concluding => Concluding' /\ run'.inv = run.inv
            /\ ~(Processes' /\ run'.pc = "bind") /\ ~(Decides' /\ run'.pc = "confirm"),
         \A entry \in late' : entry \in late \/ Unconfirming(entry)
  PROVE  Bound' /\ Shows
BY DEF Bound, Named, Lists, Concluding, Processes, Decides, Unconfirming, Shows

LEMMA GiveUpUnconfirming ==
  ASSUME NEW req, req.type # "upsert" \/ req.new.status # "confirmed", UNCHANGED late \/ GiveUp(req)
  PROVE  \A entry \in late' : entry \in late \/ Unconfirming(entry)
<1>1. \A entry \in late' : entry \in late \/ entry = <<faults, req>>
  BY DEF GiveUp
<1> QED
  BY <1>1 DEF Unconfirming

(* Moves among the entries of the message.                                   *)
LEMMA EntryMoves ==
  ASSUME ConstantsAssumption, TypeInv, run # None, run.pc \in EntryPc,
         \/ run' = Failed
         \/ \E pc \in {"append", "reconcile", "readback"} : run' = To(pc)
         \/ \E rows \in SUBSET Row : rows # {} /\
              \/ run' = RegisterAppended(run.team, rows)
              \/ run' = Onward(Register(run.team, rows))
  PROVE  /\ ~Concluding /\ run'.op = "process"
         /\ run'.pc \in EntryPc \union {"data", "failed"}
<1>1. Processes
  BY RunTyped DEF TypeInv, DecidePc, WritePc, EndPc, EntryPc
<1>2. run \in ProcessRun /\ run.team \in Team /\ ~Concluding
  BY <1>1, AtTeamFacts DEF Concluding, EntryPc, EndPc
<1>3. CASE \E pc \in {"append", "reconcile", "readback", "failed"} : run' = To(pc)
  BY <1>1, <1>2, <1>3, ToProcess DEF ProcessPc, EntryPc, EndPc, KeptBut, Processes
<1>4. ASSUME NEW rows, rows \subseteq Row, rows # {}, run' = RegisterAppended(run.team, rows)
      PROVE  run'.op = "process" /\ run'.pc = "interim"
  <2> DEFINE r == RegisterAppended(run.team, rows)
  <2>1. KeptBut(r) /\ r.pc = "interim"
    BY <1>2, <1>4, RegisterAppendedTyped
  <2>2. run' = r
    BY <1>4
  <2> HIDE DEF r
  <2> QED
    BY <1>1, <2>1, <2>2 DEF KeptBut, Processes
<1>5. ASSUME NEW rows, rows \subseteq Row, rows # {}, run' = Onward(Register(run.team, rows))
      PROVE  run'.op = "process" /\ run'.pc \in {"entry", "data"}
  <2>0. PICK r : r = Register(run.team, rows)
    OBVIOUS
  <2>1. r \in ProcessRun /\ KeptBut(r)
    BY <1>2, <1>5, <2>0, RegisterTyped
  <2>2. run' = Onward(r)
    BY <1>5, <2>0
  <2> QED
    BY <1>1, <1>2, <2>1, <2>2, OnwardTyped DEF KeptBut, Processes
<1>6. Failed = To("failed")
  BY DEF Failed, To
<1> QED
  BY <1>2, <1>3, <1>4, <1>5, <1>6 DEF EntryPc

LEMMA EntryBound ==
  ASSUME ConstantsAssumption, AppendInv, Bound, NEW k \in Team,
         \/ ResolveMapped(k) \/ Reconcile(k) \/ RequestAppend(k) \/ ReadBackAppend(k)
         \/ run # None /\ run.pc \in {"entry", "reconcile", "readback"} /\ ReadFails
  PROVE  Bound' /\ Shows
<1>1. run # None /\ run.pc \in EntryPc /\ UNCHANGED <<record, content>>
  BY DEF ResolveMapped, Reconcile, RequestAppend, ReadBackAppend, ReadFails, AtEntry,
         Continue, Adopt, EntryPc, world
<1>2. \A entry \in late' : entry \in late \/ Unconfirming(entry)
  <2> DEFINE req == [type |-> "append", cell |-> Marked(k)]
  <2>1. req.type # "upsert"
    OBVIOUS
  <2>2. UNCHANGED late \/ GiveUp(req)
    BY DEF ResolveMapped, Reconcile, RequestAppend, ReadBackAppend, ReadFails,
           Continue, Adopt, world
  <2> HIDE DEF req
  <2> QED
    BY <2>1, <2>2, GiveUpUnconfirming
<1>3. \/ run' = Failed
      \/ \E pc \in {"append", "reconcile", "readback"} : run' = To(pc)
      \/ \E rows \in SUBSET Row : rows # {} /\
           \/ run' = RegisterAppended(run.team, rows)
           \/ run' = Onward(Register(run.team, rows))
  <2>1. CASE ResolveMapped(k)
    <3>1. \/ run' = Onward(Register(k, {run.old.place[k]}))
          \/ Found(k) # {} /\ run' = RegisterAppended(k, Found(k))
      BY <2>1 DEF ResolveMapped, Continue, Adopt
    <3>2. k = run.team /\ {run.old.place[k]} \in SUBSET Row /\ {run.old.place[k]} # {}
      BY <2>1 DEF ResolveMapped, AtEntry
    <3> QED
      BY <3>1, <3>2, FoundTyped
  <2>2. CASE Reconcile(k)
    <3>1. k = run.team /\ (run' = Failed \/ (Found(k) # {} /\ run' = RegisterAppended(k, Found(k))))
      BY <2>2 DEF Reconcile, AtEntry, Adopt
    <3> QED
      BY <3>1, FoundTyped
  <2>3. CASE RequestAppend(k)
    <3>1. {LastRow(sheet) + 1} \subseteq Row /\ {LastRow(sheet) + 1} # {}
      BY <2>3, Parts, AppendedTyped DEF RequestAppend, AppendInv, RestOK, Cell
    <3> QED
      BY <2>3, <3>1 DEF RequestAppend
  <2>4. CASE ReadBackAppend(k)
    <3>1. RowsWith(Marked(k)) \subseteq Row
      BY DEF RowsWith
    <3> QED
      BY <2>4, <3>1 DEF ReadBackAppend, Continue, Adopt
  <2> QED
    BY <2>1, <2>2, <2>3, <2>4 DEF ReadFails
<1>4. ~Concluding /\ run'.op = "process" /\ run'.pc \in EntryPc \union {"data", "failed"}
  BY <1>1, <1>3, EntryMoves DEF AppendInv
<1> QED
  BY <1>1, <1>2, <1>4, BoundSteady DEF Decides, EntryPc

LEMMA StartBound ==
  ASSUME Bound, NEW i \in Invocation, Start(i)
  PROVE  Bound' /\ Shows
<1>1. run = None /\ UNCHANGED <<record, content, late>> /\ ~Concluding
  BY DEF Start, world, Concluding, Processes
<1>2. UNCHANGED run \/ (run'.op = "process" /\ run'.pc \in {"entry", "data"})
  BY DEF Start, AtTeam
<1> QED
  BY <1>1, <1>2, BoundSteady DEF Decides

(* An upsert leaves every confirmation given up behind the record.           *)
LEMMA LateBound ==
  ASSUME AppendInv, Bound, record'.version = record.version + 1, content' = content,
         late' \subseteq late
  PROVE  \A entry \in late' : entry[2].type = "upsert" /\ entry[2].new.status = "confirmed" =>
           /\ entry[2].expected # None
           /\ entry[2].expected # record'.version
<1>1. record.version \in Nat
  BY DEF AppendInv, TypeInv, TypeOK, Submission
<1>2. ASSUME NEW entry \in late', entry[2].type = "upsert", entry[2].new.status = "confirmed"
      PROVE  /\ entry[2].expected # None /\ entry[2].expected \in 1..record.version
  BY <1>2 DEF AppendInv, LateKnows, Bound
<1>3. ASSUME NEW entry \in late', entry[2].type = "upsert", entry[2].new.status = "confirmed"
      PROVE  entry[2].expected # record.version + 1
  BY <1>1, <1>2, <1>3
<1> QED
  BY <1>2, <1>3

(* An upsert of an operation: what it records can be decided only when it is
   the one that concludes a process, and is confirmed only by a press.       *)
LEMMA PersistBound ==
  ASSUME AppendInv, Bound, run # None, NEW new \in Submission, NEW next,
         next \in ProcessRun \union DecideRun, next.op = run.op, next.inv = run.inv,
         ~Concluding,
         new.status \in Actionable =>
           next.op = "process" /\ next.pc = "bind" /\ new.entries = content[run.inv],
         new.status # "confirmed" \/ (Decides /\ run.pc = "confirm"),
         next.op = "process" /\ next.pc = "bind" => new.status \in Actionable \union {"empty"},
         next.op = "decide" => next.pc # "confirm",
         Persist(new, next)
  PROVE  Bound' /\ Shows
<1> DEFINE req == [type |-> "upsert", inv |-> run.inv, new |-> new,
                   expected |-> IF run.version = 0 THEN None ELSE run.version]
<1>1. /\ run.inv \in Invocation /\ run.version \in Nat /\ record.version \in Nat
      /\ TypeInv /\ LateKnows /\ RunKnows
      /\ None \notin Nat /\ run.version <= record.version
  BY RunTyped, ConstantsAssumption
     DEF AppendInv, TypeInv, TypeOK, RunKnows, Submission, ConstantsAssumption
<1>2. /\ req \in Upserts /\ req.new = new /\ req.type = "upsert" /\ req.inv = run.inv
      /\ run.version # 0 => req.expected = run.version
  BY <1>1 DEF Upserts
<1>3. /\ \/ UNCHANGED <<late, faults>> /\ Upsert(req)
            /\ run' = [next EXCEPT !.version = @ + 1]
         \/ ~Accepts(req) /\ run' = Failed
            /\ UNCHANGED <<record, removals, before, past, late, faults>>
         \/ Fault /\ UNCHANGED late /\ Upsert(req) /\ run' = Failed
         \/ Fault /\ GiveUp(req) /\ run' = Failed /\ UNCHANGED <<record, removals, before, past>>
      /\ UNCHANGED <<content, sheet, over, shown, others, appends, clicks>>
  BY Zenon DEF Persist
<1> HIDE DEF req
(* What a press confirms, the record lists. *)
<1>4. new.status = "confirmed" =>
        /\ run.version # 0 /\ req.expected = run.version /\ req.expected # None
        /\ run.version = record.version => record.entries = content[run.inv]
  <2>1. new.status = "confirmed" => run.version > 0 /\ run.old.entries = content[run.inv]
    BY <1>1 DEF Bound, RunKnows, Decides
  <2>2. new.status = "confirmed" /\ run.version = record.version => record.entries = run.old.entries
    BY <1>1 DEF RunKnows, Level, PlacedBy, Decides
  <2> QED
    BY <1>1, <1>2, <2>1, <2>2
<1>5. ASSUME run' = Failed
      PROVE  /\ run' # None /\ run'.pc = "failed" /\ run'.inv = run.inv /\ run'.op = run.op
             /\ Concluding' <=> Processes
  <2>1. /\ run' # None /\ run'.pc = "failed" /\ run'.inv = run.inv /\ run'.op = run.op
    <3>1. run' = To("failed") /\ TypeOK
      BY <1>1, <1>5 DEF Failed, To, TypeInv
    <3>2. CASE Processes
      <4>1. run' \in ProcessRun /\ run'.pc = "failed" /\ KeptBut(run')
        BY <3>1, <3>2, RunTyped, ToProcess DEF ProcessPc, EndPc
      <4> QED
        BY <4>1, NoneAssumption DEF KeptBut
    <3>3. CASE Decides
      <4>1. run' \in DecideRun /\ run'.pc = "failed" /\ KeptBut(run')
        BY <3>1, <3>3, RunTyped, ToDecide DEF DecidePc, EndPc
      <4> QED
        BY <4>1, NoneAssumption DEF KeptBut
    <3> QED
      BY <3>1, <3>2, <3>3, RunTyped
  <2> QED
    BY <2>1 DEF Concluding, Processes, EndPc
<1>6. ASSUME Upsert(req), UNCHANGED late,
             run' = Failed \/ run' = [next EXCEPT !.version = @ + 1]
      PROVE  Bound' /\ Shows
  <2>1. /\ record' = [new EXCEPT !.version = record.version + 1]
        /\ Accepts(req)
    BY <1>2, <1>6 DEF Upsert, Upserted
  <2>2. /\ record'.version = record.version + 1
        /\ record'.entries = new.entries /\ record'.status = new.status
    BY <2>1 DEF Submission
  <2>3. /\ run' # None /\ run'.op = run.op /\ run'.inv = run.inv
        /\ run'.pc = next.pc \/ run'.pc = "failed"
    <3>1. CASE run' = Failed
      BY <1>5, <3>1
    <3>2. CASE run' = [next EXCEPT !.version = @ + 1]
      <4>1. run' \in ProcessRun \union DecideRun
        <5>1. CASE next \in ProcessRun
          <6>1. next.version \in Nat
            BY <5>1 DEF ProcessRun
          <6> QED
            BY <3>2, <5>1, <6>1 DEF ProcessRun
        <5>2. CASE next \in DecideRun
          <6>1. next.version \in Nat
            BY <5>2 DEF DecideRun
          <6> QED
            BY <3>2, <5>2, <6>1 DEF DecideRun
        <5> QED
          BY <5>1, <5>2
      <4>2. run'.op = next.op /\ run'.inv = next.inv /\ run'.pc = next.pc
        BY <3>2 DEF ProcessRun, DecideRun
      <4> QED
        BY <4>1, <4>2, NoneAssumption
    <3> QED
      BY <1>6, <3>1, <3>2
  <2>4. /\ record'.status \in Actionable => Concluding' /\ Lists(run.inv)'
        /\ ~(Decides' /\ run'.pc = "confirm")
    BY <1>3, <2>2, <2>3 DEF Concluding, Processes, Decides, EndPc, Lists
  <2>5. Bound'
    BY <1>3, <1>6, <2>2, <2>4, LateBound DEF Bound
  <2>6. new.status = "confirmed" => record.entries = content[run.inv]
    BY <1>2, <1>4, <2>1 DEF Accepts
  <2>7. Shows
    BY <1>6, <2>2, <2>6 DEF Shows, Pressed
  <2> QED
    BY <2>5, <2>7
<1>7. CASE ~Accepts(req) /\ run' = Failed /\ UNCHANGED <<record, late>>
  BY <1>3, <1>5, <1>7, BoundSteady DEF Decides
<1>8. CASE GiveUp(req) /\ run' = Failed /\ UNCHANGED record
  <2>1. \A entry \in late' : entry \in late \/ entry = <<faults, req>>
    BY <1>8 DEF GiveUp
  <2>2. \A entry \in late' : entry[2].type = "upsert" /\ entry[2].new.status = "confirmed" =>
          /\ entry[2].expected # None
          /\ entry[2].expected = record.version => Lists(entry[2].inv)
    BY <1>2, <1>4, <2>1 DEF Bound, Lists
  <2>3. ~(Processes' /\ run'.pc = "bind") /\ ~(Decides' /\ run'.pc = "confirm")
    BY <1>5, <1>8
  <2>4. Bound'
    BY <1>3, <1>8, <2>2, <2>3 DEF Bound, Named, Lists
  <2> QED
    BY <1>8, <2>4 DEF Shows
<1> QED
  BY <1>3, <1>6, <1>7, <1>8

LEMMA BeforeWriteBound ==
  ASSUME ConstantsAssumption, AppendInv, Bound,
         (\E k \in Team : BeforeAppend(k)) \/ PersistAppended \/ PersistApplying
  PROVE  Bound' /\ Shows
<1>1. run # None /\ run.pc \in {"entry", "interim", "applying"}
  BY DEF BeforeAppend, AtEntry, PersistAppended, PersistApplying
<1>2. /\ Processes /\ run \in ProcessRun /\ TypeInv /\ ~Concluding
      /\ run.pc \in EntryPc => run.team \in Team
  BY <1>1, RunTyped, AtTeamFacts
     DEF AppendInv, TypeInv, Processes, DecidePc, WritePc, EndPc, EntryPc, Concluding
<1>3. PICK new \in Submission, next \in ProcessRun :
        /\ Persist(new, next) /\ new.status = "applying"
        /\ next.op = run.op /\ next.inv = run.inv /\ next.pc # "bind"
  <2>1. ASSUME NEW k \in Team, BeforeAppend(k)
        PROVE  \E new \in Submission, next \in ProcessRun :
                 /\ Persist(new, next) /\ new.status = "applying"
                 /\ next.op = run.op /\ next.inv = run.inv /\ next.pc # "bind"
    <3> DEFINE teams == run.registered \union {k}
               place == [run.place EXCEPT ![k] = Column]
               snap == Without(run.undo, k) \union {BlankRow(k, None)}
    <3>1. /\ teams \in SUBSET Team /\ place \in [Team -> Place]
          /\ snap \in SUBSET Item
      BY <1>2, BlankRowTyped DEF ProcessRun, Place, Without
    <3>2. Persist(Record("applying", teams, place, snap), To("append"))
      BY <2>1, Zenon DEF BeforeAppend
    <3> HIDE DEF teams, place, snap
    <3>3. /\ Record("applying", teams, place, snap) \in Submission
          /\ Record("applying", teams, place, snap).status = "applying"
      BY <1>2, <3>1, ApplyingTyped
    <3>4. To("append") \in ProcessRun /\ To("append").pc = "append" /\ KeptBut(To("append"))
      BY <1>2, ToProcess DEF ProcessPc, EntryPc
    <3> QED
      BY <3>2, <3>3, <3>4 DEF KeptBut
  <2>2. ASSUME PersistAppended
        PROVE  \E new \in Submission, next \in ProcessRun :
                 /\ Persist(new, next) /\ new.status = "applying"
                 /\ next.op = run.op /\ next.inv = run.inv /\ next.pc # "bind"
    <3>1. Persist(Record("applying", run.registered, run.place, run.undo), Onward(run))
      BY <2>2, Zenon DEF PersistAppended
    <3>2. /\ Record("applying", run.registered, run.place, run.undo) \in Submission
          /\ Record("applying", run.registered, run.place, run.undo).status = "applying"
      <4>1. /\ run.registered \in SUBSET Team /\ run.place \in [Team -> Place]
            /\ run.undo \in SUBSET Item
        BY <1>2 DEF ProcessRun
      <4> QED
        BY <1>2, <4>1, ApplyingTyped
    <3>3. run.team \in Team
      BY <1>2, <2>2 DEF PersistAppended, EntryPc
    <3>4. /\ Onward(run) \in ProcessRun /\ Onward(run).op = run.op /\ Onward(run).inv = run.inv
          /\ Onward(run).pc \in {"entry", "data"}
      BY <1>2, <3>3, OnwardTyped
    <3> QED
      BY <3>1, <3>2, <3>4
  <2>3. ASSUME PersistApplying
        PROVE  \E new \in Submission, next \in ProcessRun :
                 /\ Persist(new, next) /\ new.status = "applying"
                 /\ next.op = run.op /\ next.inv = run.inv /\ next.pc # "bind"
    <3> DEFINE place == Places(run.registered)
    <3>1. Persist(Record("applying", run.registered, place, run.snap), To("write"))
      BY <2>3, Zenon DEF PersistApplying
    <3>2. place \in [Team -> Place] /\ run.registered \in SUBSET Team /\ run.snap \in SUBSET Item
      BY <1>2, PlacesTyped DEF ProcessRun
    <3> HIDE DEF place
    <3>3. /\ Record("applying", run.registered, place, run.snap) \in Submission
          /\ Record("applying", run.registered, place, run.snap).status = "applying"
      BY <1>2, <3>2, ApplyingTyped
    <3>4. To("write") \in ProcessRun /\ To("write").pc = "write" /\ KeptBut(To("write"))
      BY <1>2, ToProcess DEF ProcessPc, WritePc
    <3> QED
      BY <3>1, <3>3, <3>4 DEF KeptBut
  <2> QED
    BY <2>1, <2>2, <2>3
<1>4. next.op = "process"
  BY <1>2, <1>3 DEF Processes
<1>5. new.status \notin Actionable /\ new.status # "confirmed"
  BY <1>3 DEF Actionable
<1> QED
  BY <1>1, <1>2, <1>3, <1>4, <1>5, PersistBound

(* When a process concludes, all teams of the message are registered, so the
   entries recorded are the message's.                                       *)
LEMMA PersistTerminalBound ==
  ASSUME ConstantsAssumption, AppendInv, Bound, PersistTerminal
  PROVE  Bound' /\ Shows
<1>1. run # None /\ run.pc = "terminal"
  BY DEF PersistTerminal
<1>2. /\ Processes /\ run \in ProcessRun /\ TypeInv /\ ~Concluding
      /\ ProcessWell /\ GoneThrough(run)
  BY <1>1, RunTyped
     DEF AppendInv, TypeInv, RunWell, RunKnows, Processes, DecidePc, WritePc, EndPc, Concluding
<1> DEFINE status == IF run.registered = {} THEN "empty"
                     ELSE IF run.old = Missing THEN "registered" ELSE "updated"
           place == Places(run.registered)
           new == Record(status, run.registered, place, run.snap)
<1>3. status \in Status /\ status \in Actionable \union {"empty"} /\ status # "confirmed"
  BY DEF Status, Actionable
<1>4. Persist(new, To("bind"))
  BY Zenon DEF PersistTerminal
<1>5. place \in [Team -> Place] /\ run.registered \in SUBSET Team /\ run.snap \in SUBSET Item
  BY <1>2, PlacesTyped DEF ProcessRun
<1> HIDE DEF status, place
<1>6. new \in Submission /\ new.status = status /\ new.entries = Says(run.registered)
  <2>1. /\ Record(status, run.registered, place, run.snap) \in Submission
        /\ Record(status, run.registered, place, run.snap).status = status
        /\ Record(status, run.registered, place, run.snap).entries = Says(run.registered)
    <3>1. TypeInv /\ Processes /\ status \in Status
      BY <1>2, <1>3
    <3> QED
      BY <3>1, <1>5, RecordTyped
  <2> QED
    BY <2>1 DEF new
<1>7. Says(run.registered) = content[run.inv]
  <2>1. content[run.inv] \in [Team -> Value \union {None}]
    BY <1>2 DEF TypeInv, TypeOK, ProcessRun
  <2>2. \A k \in Team : content[run.inv][k] # None => k \in run.registered
    BY <1>1, <1>2 DEF GoneThrough, Processes, EntryPc, EndPc
  <2> QED
    BY <2>1, <2>2 DEF Says
<1>8. To("bind") \in ProcessRun /\ To("bind").pc = "bind" /\ KeptBut(To("bind"))
  BY <1>2, ToProcess DEF ProcessPc
<1> HIDE DEF new
<1>9. To("bind").op = "process" /\ To("bind").op = run.op /\ To("bind").inv = run.inv
  BY <1>2, <1>8 DEF KeptBut, Processes
<1> QED
  BY <1>1, <1>2, <1>3, <1>4, <1>6, <1>7, <1>8, <1>9, PersistBound

LEMMA PersistDecisionBound ==
  ASSUME ConstantsAssumption, AppendInv, Bound, PersistDecision
  PROVE  Bound' /\ Shows
<1>1. run # None /\ run.op = "decide"
  BY DEF PersistDecision
<1>2. Decides /\ run \in DecideRun /\ run.old \in Submission /\ ~Concluding
  BY <1>1, RunTyped DEF AppendInv, TypeInv, Decides, Concluding, Processes
<1>3. PICK status \in Status \ Actionable, pc \in {"done", "restore"} :
        /\ Persist([run.old EXCEPT !.status = status], To(pc))
        /\ status = "confirmed" => run.pc = "confirm"
  <2>1. Done = To("done")
    BY DEF Done, To
  <2>2. {"confirmed", "rejected", "rollbackFailed", "reverting"} \subseteq Status \ Actionable
    BY DEF Status, Actionable
  <2> QED
    BY <2>1, <2>2 DEF PersistDecision, PersistStatus
<1> DEFINE new == [run.old EXCEPT !.status = status]
           next == To(pc)
<1>4. new \in Submission /\ new.status = status
  BY <1>2, <1>3 DEF Submission
<1>5. Persist(new, next)
  BY <1>3
<1>6. next \in DecideRun /\ KeptBut(next) /\ next.pc = pc
  BY <1>2, <1>3, ToDecide DEF DecidePc, EndPc
<1> HIDE DEF new, next
<1>7. next.op = "decide" /\ next.op = run.op /\ next.inv = run.inv /\ next.pc # "confirm"
  BY <1>1, <1>3, <1>6 DEF KeptBut
<1> QED
  BY <1>1, <1>2, <1>3, <1>4, <1>5, <1>6, <1>7, PersistBound

(* The steps after the entries that do not record.                           *)
LEMMA LaterMoveBound ==
  ASSUME AppendInv, Bound, run # None, UNCHANGED <<record, content>>, NEW pc, run' = To(pc),
         Processes => pc \in ProcessPc \ {"bind"},
         Decides => pc \in DecidePc \ {"confirm"},
         Concluding => pc \in EndPc \union {"bind", "enable"},
         \A entry \in late' : entry \in late \/ Unconfirming(entry)
  PROVE  Bound' /\ Shows
<1>1. CASE Processes
  <2>1. run' \in ProcessRun /\ run'.pc = pc /\ KeptBut(run')
    BY <1>1, RunTyped, ToProcess DEF AppendInv, TypeInv
  <2>2. run' # None
    BY <2>1, NoneAssumption
  <2> QED
    BY <1>1, <2>1, <2>2, BoundSteady DEF KeptBut, Concluding, Processes, Decides
<1>2. CASE Decides
  <2>1. run' \in DecideRun /\ run'.pc = pc /\ KeptBut(run')
    BY <1>2, RunTyped, ToDecide DEF AppendInv, TypeInv
  <2> QED
    BY <1>2, <2>1, BoundSteady DEF KeptBut, Concluding, Processes, Decides
<1> QED
  BY <1>1, <1>2, RunTyped DEF AppendInv, TypeInv

LEMMA ReadSnapshotBound ==
  ASSUME AppendInv, Bound, ReadSnapshot
  PROVE  Bound' /\ Shows
<1>1. run # None /\ run.pc = "data" /\ UNCHANGED <<record, content, late>>
  BY DEF ReadSnapshot, ReadFails, Continue, world
<1>2. Processes /\ run \in ProcessRun /\ ~Concluding
  BY <1>1, RunTyped DEF AppendInv, TypeInv, Processes, DecidePc, WritePc, EndPc, Concluding
<1>3. CASE run' = Failed
  BY <1>1, <1>2, <1>3, LaterMoveBound DEF Failed, To, ProcessPc, EndPc, Processes, Decides
<1>4. CASE ~(run' = Failed)
  <2> DEFINE pc == IF Updates = {} THEN "terminal" ELSE "applying"
  <2>1. run' = [run EXCEPT !.data = Updates, !.snap = Snapshot, !.pc = pc]
    BY <1>4 DEF ReadSnapshot, ReadFails, Continue
  <2>2. pc # "bind"
    OBVIOUS
  <2> HIDE DEF pc
  <2>3. run'.pc = pc /\ run'.op = "process"
    BY <1>2, <2>1 DEF ProcessRun
  <2> QED
    BY <1>1, <1>2, <2>2, <2>3, BoundSteady DEF Decides
<1> QED
  BY <1>3, <1>4

LEMMA WriteBound ==
  ASSUME AppendInv, Bound, Write \/ ReadBackWrite
  PROVE  Bound' /\ Shows
<1>1. /\ run # None /\ run.pc \in WritePc /\ UNCHANGED <<record, content>> /\ ~Concluding
  BY DEF Write, ReadBackWrite, Continue, world, WritePc, Concluding, EndPc
<1>2. \A entry \in late' : entry \in late \/ Unconfirming(entry)
  <2> DEFINE req == [type |-> "write", data |-> run.data]
  <2>1. UNCHANGED late \/ GiveUp(req)
    BY DEF Write, ReadBackWrite, Continue, world
  <2>2. req.type # "upsert"
    OBVIOUS
  <2> HIDE DEF req
  <2> QED
    BY <2>1, <2>2, GiveUpUnconfirming
<1>3. \E pc \in {AfterWrite, "readback write", "rewrite",
                 IF run.op = "process" THEN "failed" ELSE "check"} : run' = To(pc)
  BY DEF Write, ReadBackWrite, Continue, WriteFailed
<1>4. CASE Processes
  <2>1. \E pc \in {"terminal", "readback write", "rewrite", "failed"} : run' = To(pc)
    BY <1>3, <1>4 DEF AfterWrite, Processes
  <2> QED
    BY <1>1, <1>2, <1>4, <2>1, LaterMoveBound DEF Processes, Decides, ProcessPc, WritePc, EndPc
<1>5. CASE Decides
  <2>1. \E pc \in {"reject", "readback write", "rewrite", "check"} : run' = To(pc)
    BY <1>3, <1>5 DEF AfterWrite, Decides
  <2> QED
    BY <1>1, <1>2, <1>5, <2>1, LaterMoveBound DEF Processes, Decides, DecidePc, WritePc
<1> QED
  BY <1>1, <1>4, <1>5, RunTyped DEF AppendInv, TypeInv

(* Binding makes the record name the message whose entries it holds.         *)
LEMMA SetConfirmationBound ==
  ASSUME AppendInv, Bound, SetConfirmation
  PROVE  Bound' /\ Shows
<1>1. run # None /\ run.pc = "bind" /\ UNCHANGED content
  BY DEF SetConfirmation
<1>2. Processes /\ run.inv \in Invocation /\ RecordOK
  BY <1>1, RunTyped, Parts DEF AppendInv, TypeInv, DecidePc, WritePc, EndPc
<1>3. \A entry \in late' : entry \in late \/ Unconfirming(entry)
  <2> DEFINE req == [type |-> "bind", inv |-> run.inv]
  <2>1. UNCHANGED late \/ GiveUp(req)
    BY DEF SetConfirmation
  <2>2. req.type # "upsert"
    OBVIOUS
  <2> HIDE DEF req
  <2> QED
    BY <2>1, <2>2, GiveUpUnconfirming
<1>4. \E pc \in {"enable", "failed"} : run' = To(pc)
  BY DEF SetConfirmation, Failed, To
<1>5. CASE UNCHANGED record
  BY <1>1, <1>2, <1>3, <1>4, <1>5, LaterMoveBound
     DEF Processes, Decides, ProcessPc, EndPc
<1>6. CASE record' = Bind(run.inv)
  <2>1. /\ record'.status = record.status /\ record'.version = record.version
        /\ record'.entries = record.entries
    BY <1>2, <1>6, BindTyped
  <2>2. record.status \in Actionable => record'.conf = run.inv
    <3>1. record.status \in Actionable => record # Missing
      BY DEF Actionable, Missing
    <3> QED
      BY <1>2, <1>6, <3>1 DEF Bind, RecordOK, Submission
  <2>3. run' # None /\ run'.op = "process" /\ run'.pc \in {"enable", "failed"}
    <3>1. run' \in ProcessRun /\ run'.pc \in {"enable", "failed"} /\ KeptBut(run')
      BY <1>2, <1>4, RunTyped, ToProcess DEF AppendInv, TypeInv, ProcessPc, EndPc
    <3> QED
      BY <1>2, <3>1, NoneAssumption DEF KeptBut, Processes
  <2>4. record.status \in Actionable => Named'
    BY <1>1, <1>2, <2>1, <2>2 DEF Bound, Lists, Named
  <2>5. Bound'
    BY <1>1, <1>3, <2>1, <2>3, <2>4 DEF Bound, Lists, Unconfirming, Decides
  <2>6. Shows
    BY <2>1 DEF Shows
  <2> QED
    BY <2>5, <2>6
<1> QED
  BY <1>5, <1>6 DEF SetConfirmation

LEMMA EnableButtonsBound ==
  ASSUME AppendInv, Bound, EnableButtons
  PROVE  Bound' /\ Shows
<1>1. run # None /\ run.pc = "enable" /\ UNCHANGED <<record, content, late>>
  BY DEF EnableButtons, world
<1>2. Processes
  BY <1>1, RunTyped DEF AppendInv, TypeInv, DecidePc, WritePc, EndPc
<1>3. \E pc \in {"done", "failed"} : run' = To(pc)
  BY DEF EnableButtons, Done, Failed, To
<1> QED
  BY <1>1, <1>2, <1>3, LaterMoveBound DEF Processes, Decides, ProcessPc, EndPc

(* Between operations a record that can be decided names the confirmation
   that lists it.                                                            *)
LEMMA DecideBound ==
  ASSUME Bound, NEW i \in Invocation, Confirm(i) \/ Reject(i)
  PROVE  Bound' /\ Shows
<1>1. PICK pc \in {"confirm", "reject", "restore", "reverting"} :
        Decide(i, pc) /\ (pc = "confirm" => record.status \in Actionable)
  <2>1. CASE Confirm(i)
    BY <2>1 DEF Confirm
  <2>2. CASE Reject(i)
    BY <2>2, Zenon DEF Reject
  <2> QED
    BY <2>1, <2>2
<1>2. /\ run = None /\ record.conf = i /\ UNCHANGED <<record, content, late>> /\ ~Concluding
      /\ run' = [op |-> "decide", inv |-> i, pc |-> pc, old |-> record,
                 version |-> record.version, data |-> {}]
  BY <1>1 DEF Decide, world, Concluding, Processes
<1>3. run'.op = "decide" /\ run'.inv = i /\ run'.pc = pc /\ run'.old = record
  BY <1>2
<1>4. pc = "confirm" => run'.old.entries = content[run'.inv]
  BY <1>1, <1>2, <1>3 DEF Bound, Named, Lists
<1>5. Bound'
  BY <1>2, <1>3, <1>4 DEF Bound, Named, Lists, Processes, Concluding
<1> QED
  BY <1>2, <1>5 DEF Shows

LEMMA RestoreBound ==
  ASSUME AppendInv, Bound, Restore \/ CheckRestored
  PROVE  Bound' /\ Shows
<1>1. /\ run # None /\ run.pc \in {"restore", "check"} /\ UNCHANGED <<record, content, late>>
  BY DEF Restore, CheckRestored, Continue, world
<1>2. Decides /\ run \in DecideRun /\ ~Concluding
  BY <1>1, RunTyped
     DEF AppendInv, TypeInv, ProcessPc, EntryPc, WritePc, EndPc, Concluding, Decides, Processes
<1>3. run'.op = "decide" /\ run'.pc # "confirm"
  <2>1. CASE Restore
    <3> DEFINE rows == {item \in run.old.snap : item.row # None}
               pc == IF rows = {} THEN "fail" ELSE "write"
    <3>1. run' = [run EXCEPT !.data = rows, !.pc = pc]
      BY <2>1, Zenon DEF Restore, Continue
    <3>2. pc # "confirm"
      OBVIOUS
    <3> HIDE DEF rows, pc
    <3> QED
      BY <1>2, <3>1, <3>2 DEF DecideRun
  <2>2. CASE CheckRestored
    <3>1. \E pc \in {"reject", "fail"} : run' = To(pc)
      BY <2>2 DEF CheckRestored, Continue
    <3> QED
      BY <1>2, <3>1 DEF To, DecideRun
  <2> QED
    BY <2>1, <2>2
<1> QED
  BY <1>1, <1>2, <1>3, BoundSteady DEF Processes

(* An operation that ends before its record names its confirmation is noted. *)
LEMMA StopBound ==
  ASSUME AppendInv, Bound, End \/ Interrupt
  PROVE  (Had({"unbound"})' \/ Bound') /\ Shows
<1>1. run # None /\ run' = None /\ UNCHANGED <<record, content, late>>
  BY DEF End, Interrupt, world
<1>2. Unbound = {} \/ Had({"unbound"})'
  BY DEF End, Interrupt, Note, Had, Unbound
<1>3. record.status \in Actionable => Named \/ Had({"unbound"})'
  BY <1>1, <1>2, RunTyped DEF AppendInv, TypeInv, Bound, Unbound, Concluding, Processes, Named, Lists
<1>4. Had({"unbound"})' \/ Bound'
  BY <1>1, <1>3 DEF Bound, Named, Lists, Concluding, Processes, Decides
<1> QED
  BY <1>1, <1>4 DEF Shows

LEMMA ApplyLateBound ==
  ASSUME ConstantsAssumption, AppendInv, Bound, ApplyLate
  PROVE  (Had({"unbound"})' \/ Bound') /\ Shows
<1>1. UNCHANGED <<content, run, over, shown, others, appends, faults, clicks>>
  BY DEF ApplyLate
<1>2. PICK entry \in late :
        /\ late' = late \ {entry}
        /\ \/ entry[2].type = "upsert" /\ Upsert(entry[2])
           \/ UNCHANGED record
           \/ /\ entry[2].type = "bind" /\ record' = Bind(entry[2].inv)
              /\ Note(IF record.conf \notin {None, entry[2].inv} THEN {"unbound"} ELSE {})
  BY Zenon DEF ApplyLate
<1>3. entry[2] \in Request /\ RecordOK /\ late' \subseteq late /\ late' # late
  BY <1>2, Parts DEF AppendInv, LateOK
<1>4. CASE UNCHANGED record
  BY <1>1, <1>3, <1>4, BoundSteady
<1>5. CASE entry[2].type = "bind" /\ record' = Bind(entry[2].inv)
             /\ Note(IF record.conf \notin {None, entry[2].inv} THEN {"unbound"} ELSE {})
  <2>1. entry[2].inv \in Invocation
    BY <1>3, <1>5 DEF Request, Upserts
  <2>2. /\ record'.status = record.status /\ record'.version = record.version
        /\ record'.entries = record.entries
    BY <1>3, <1>5, <2>1, BindTyped
  <2>3. /\ None \notin Invocation
        /\ record.conf \in {None, entry[2].inv} \/ Had({"unbound"})'
    BY <1>5, ConstantsAssumption DEF Note, Had, ConstantsAssumption
  <2>4. record'.conf = IF record = Missing THEN record.conf ELSE entry[2].inv
    BY <1>3, <1>5 DEF Bind, RecordOK, Submission
  <2>5. Named => Named' \/ Had({"unbound"})'
    BY <1>1, <2>2, <2>3, <2>4 DEF Named, Lists
  <2>6. Had({"unbound"})' \/ Bound'
    BY <1>1, <1>3, <2>2, <2>5 DEF Bound, Lists, Concluding, Processes, Decides
  <2> QED
    BY <2>2, <2>6 DEF Shows
<1>6. CASE entry[2].type = "upsert" /\ Upsert(entry[2])
  <2>1. /\ entry[2] \in Upserts /\ entry[2].new \in Submission /\ record.version \in Nat
    BY <1>3, <1>6 DEF Request, Upserts, RecordOK, Submission
  <2>2. /\ record' = [entry[2].new EXCEPT !.version = record.version + 1] /\ Accepts(entry[2])
    BY <1>6 DEF Upsert, Upserted
  <2>3. /\ record'.version = record.version + 1 /\ record'.status = entry[2].new.status
    BY <2>1, <2>2 DEF Submission
  <2>4. record'.status \notin Actionable \/ Had({"unbound"})'
    BY <1>3, <1>6, <2>3 DEF Upsert, Note, Had
  <2>5. Had({"unbound"})' \/ Bound'
    BY <1>1, <1>3, <2>3, <2>4, LateBound DEF Bound, Decides
  <2>6. record'.status = "confirmed" => Lists(entry[2].inv)
    BY <1>6, <2>2, <2>3 DEF Bound, Accepts
  <2>7. Applied = {entry[2].inv}
    BY <1>2 DEF Applied
  <2>8. Shows
    BY <1>3, <2>6, <2>7 DEF Shows, Pressed, Lists
  <2> QED
    BY <2>5, <2>8
<1> QED
  BY <1>2, <1>4, <1>5, <1>6

(* What has happened is never forgotten.                                     *)
LEMMA PersistGrows ==
  ASSUME NEW new, NEW next, Persist(new, next)
  PROVE  past \subseteq past'
<1>1. \A req : Upsert(req) => past \subseteq past'
  BY DEF Upsert, Note
<1> QED
  BY <1>1, Zenon DEF Persist

LEMMA PastGrows ==
  ASSUME [Next]_vars
  PROVE  past \subseteq past'
<1>1. CASE ProcessStep
  <2>1. ASSUME NEW i \in Invocation, Start(i) PROVE past \subseteq past'
    BY <2>1 DEF Start, Note
  <2>2. ASSUME NEW k \in Team, ProcessEntry(k) PROVE past \subseteq past'
    <3>1. CASE BeforeAppend(k)
      BY <3>1, PersistGrows, Zenon DEF BeforeAppend
    <3> QED
      BY <2>2, <3>1 DEF ProcessEntry, ResolveMapped, Reconcile, RequestAppend, ReadBackAppend,
                        ReadFails, Continue, Adopt, Note, history
  <2>3. CASE PersistAppended \/ PersistApplying \/ PersistTerminal
    BY <2>3, PersistGrows, Zenon DEF PersistAppended, PersistApplying, PersistTerminal
  <2>4. CASE ReadSnapshot \/ SetConfirmation \/ EnableButtons
    BY <2>4 DEF ReadSnapshot, ReadFails, Continue, SetConfirmation, EnableButtons, history
  <2> QED
    BY <1>1, <2>1, <2>2, <2>3, <2>4 DEF ProcessStep
<1>2. CASE DecideStep
  <2>1. ASSUME NEW i \in Invocation, Confirm(i) \/ Reject(i) PROVE past \subseteq past'
    <3>1. \E pc \in DecidePc : Decide(i, pc)
      BY <2>1, DecidesRecorded
    <3> QED
      BY <3>1 DEF Decide, history
  <2>2. CASE PersistDecision
    BY <2>2, PersistGrows, Zenon DEF PersistDecision, PersistStatus
  <2>3. CASE Restore \/ CheckRestored
    BY <2>3 DEF Restore, CheckRestored, Continue, history
  <2> QED
    BY <1>2, <2>1, <2>2, <2>3 DEF DecideStep
<1>3. CASE Write \/ ReadBackWrite \/ End \/ Interrupt \/ OtherAppends \/ UNCHANGED vars
  BY <1>3 DEF Write, ReadBackWrite, Continue, End, Interrupt, OtherAppends, Note, history, vars
<1>4. CASE ApplyLate
  <2>1. \A req : Upsert(req) => past \subseteq past'
    BY DEF Upsert, Note
  <2> QED
    BY <1>4, <2>1, Zenon DEF ApplyLate, Note
<1> QED
  BY <1>1, <1>2, <1>3, <1>4 DEF Next

LEMMA NextShows ==
  ASSUME ConstantsAssumption, ConfirmInv, [Next]_vars
  PROVE  ConfirmInv' /\ Shows
<1>1. AppendInv /\ AppendInv' /\ (Had({"unbound"}) => Had({"unbound"})')
  BY NextKnows, PastGrows DEF ConfirmInv, Had
<1>2. CASE Had({"unbound"})
  BY <1>1, <1>2 DEF ConfirmInv, Shows
<1>3. CASE Bound
  <2>1. CASE ProcessStep
    BY <1>1, <1>3, <2>1, StartBound, EntryBound, BeforeWriteBound, ReadSnapshotBound,
       PersistTerminalBound, SetConfirmationBound, EnableButtonsBound
       DEF ProcessStep, ProcessEntry, ConfirmInv
  <2>2. CASE DecideStep
    BY <1>1, <1>3, <2>2, DecideBound, PersistDecisionBound, RestoreBound
       DEF DecideStep, ConfirmInv
  <2>3. CASE Write \/ ReadBackWrite \/ End \/ Interrupt \/ ApplyLate
    BY <1>1, <1>3, <2>3, WriteBound, StopBound, ApplyLateBound DEF ConfirmInv
  <2>4. CASE OtherAppends \/ UNCHANGED vars
    BY <1>1, <1>3, <2>4, BoundSteady DEF OtherAppends, vars, world, ConfirmInv
  <2> QED
    BY <2>1, <2>2, <2>3, <2>4 DEF Next
<1> QED
  BY <1>2, <1>3 DEF ConfirmInv

(* The author confirms what the author was shown: whenever a submission is
   recorded as confirmed, by a press or by the late answer of one, the entries
   recorded are those of the message whose confirmation was pressed, unless a
   concluded record has named the confirmation of another message.           *)
THEOREM ConfirmsWhatWasShown == Spec => ConfirmedAsShown
<1>1. Init => ConfirmInv
  <2>1. Init => Bound
    BY DEF Init, Bound, Missing, Actionable, Processes, Decides
  <2> QED
    BY <2>1, InitKnows, ConstantsAssumption DEF ConfirmInv
<1>2. ConfirmInv /\ [Next]_vars => ConfirmInv' /\ Shows
  BY NextShows, ConstantsAssumption
<1>3. [Shows]_vars <=>
        [record.status # "confirmed" /\ record'.status = "confirmed" =>
           Had({"unbound"}) \/ \A i \in Pressed : record.entries = content[i]]_vars
  BY DEF Shows
<1> QED
  BY <1>1, <1>2, <1>3, PTL DEF Spec, ConfirmedAsShown

-----------------------------------------------------------------------------
(* Rows of other messages are kept.  First the operators: what a write and an
   append leave alone.                                                       *)
LEMMA WrittenKeeps ==
  ASSUME NEW s, NEW items, NEW r \in Row, Unwhole(items), \A item \in items : item.row # r
  PROVE  Written(s, items)[r] = s[r]
BY DEF Written, Hitting, RowOf, Unwhole

LEMMA AppendedKeeps ==
  ASSUME ConstantsAssumption, NEW s \in [Row -> Cell], NEW cell, LastRow(s) < MaxRow
  PROVE  /\ LastRow(s) + 1 \in Row /\ s[LastRow(s) + 1] = Blank
         /\ \A r \in Row : s[r] # Blank => Appended(s, cell)[r] = s[r]
         /\ Appended(s, cell)[LastRow(s) + 1] = cell
<1>1. /\ LastRow(s) \in 0..MaxRow /\ MaxRow \in Nat
      /\ \A r \in Row : s[r] # Blank => r <= LastRow(s)
  BY LastRowOf DEF ConstantsAssumption
<1>2. LastRow(s) + 1 \in Row /\ \A r \in Row : r <= LastRow(s) => r # LastRow(s) + 1
  BY <1>1 DEF Row
<1> QED
  BY <1>1, <1>2 DEF Appended

LEMMA ApartParts ==
  ASSUME TypeInv
  PROVE  Mentioned \intersect OtherRow = {} <=> RecordApart(record) /\ RunApart /\ LateApart
<1>1. RecordApart(record) <=> RowsOf(record) \intersect OtherRow = {}
  BY DEF RecordApart, ItemsApart, PlacesApart, RowsOf, RowsIn
<1>2. run # None => (RunApart <=> RowsHeld \intersect OtherRow = {})
  <2>1. CASE Processes
    BY <2>1 DEF RunApart, RecordApart, ItemsApart, PlacesApart, RowsHeld, RowsOf, RowsIn, Processes
  <2>2. CASE Decides
    BY <2>2 DEF RunApart, RecordApart, ItemsApart, PlacesApart, RowsHeld, RowsOf, RowsIn,
                Processes, Decides
  <2> QED
    BY <2>1, <2>2, RunTyped DEF TypeInv
<1>3. LateApart <=> \A entry \in late : RowsAsked(entry[2]) \intersect OtherRow = {}
  BY DEF LateApart, RecordApart, ItemsApart, PlacesApart, RowsAsked, RowsOf, RowsIn
<1>4. run = None => RunApart
  BY DEF RunApart
<1> QED
  BY <1>1, <1>2, <1>3, <1>4 DEF Mentioned

LEMMA ApartPartsNext ==
  ASSUME TypeInv'
  PROVE  (Mentioned \intersect OtherRow = {})' <=> RecordApart(record)' /\ RunApart' /\ LateApart'
<1>1. RecordApart(record)' <=> (RowsOf(record) \intersect OtherRow = {})'
  BY DEF RecordApart, ItemsApart, PlacesApart, RowsOf, RowsIn
<1>2. run' # None => (RunApart' <=> (RowsHeld \intersect OtherRow = {})')
  <2>1. CASE run' # None /\ run'.op = "process"
    BY <2>1 DEF RunApart, RecordApart, ItemsApart, PlacesApart, RowsHeld, RowsOf, RowsIn, Processes
  <2>2. CASE run' # None /\ run'.op = "decide"
    BY <2>2 DEF RunApart, RecordApart, ItemsApart, PlacesApart, RowsHeld, RowsOf, RowsIn,
                Processes, Decides
  <2>3. run' # None => run'.op \in {"process", "decide"}
    BY DEF TypeInv, TypeOK, ProcessRun, DecideRun
  <2> QED
    BY <2>1, <2>2, <2>3
<1>3. LateApart' <=> \A entry \in late' : (RowsAsked(entry[2]) \intersect OtherRow')  = {}
  BY DEF LateApart, RecordApart, ItemsApart, PlacesApart, RowsAsked, RowsOf, RowsIn, OtherRow
<1>4. run' = None => RunApart'
  BY DEF RunApart
<1> QED
  BY <1>1, <1>2, <1>3, <1>4 DEF Mentioned

LEMMA OtherRows ==
  ASSUME ConstantsAssumption, TypeInv
  PROVE  OtherRow \subseteq Row /\ Column \notin OtherRow /\ None \notin OtherRow
<1>1. OtherRow \subseteq Row
  BY DEF TypeInv, TypeOK, OtherRow
<1>2. Column \notin Row /\ None \notin Row
  BY ConstantsAssumption DEF Row, Column, ConstantsAssumption
<1> QED
  BY <1>1, <1>2

LEMMA InitKept ==
  ASSUME ConstantsAssumption, Init
  PROVE  KeptInv
<1>1. AppendInv
  BY InitKnows
<1>2. OthersStand
  <2>1. PICK top \in {Other} \union [team: {1}, value: Value, marked: {FALSE}] :
          sheet = [r \in Row |-> IF r = 1 THEN top ELSE Blank] /\ others = {<<1, top>>}
    BY DEF Init
  <2>2. 1 \in Team /\ 1 \in Row
    BY DEF Team, Row, ConstantsAssumption
  <2>3. top \in {Other} \union [team: Team, value: Value, marked: {FALSE}]
    BY <2>2
  <2>4. \A o \in others : o[1] = 1 /\ o[2] = top
    BY <2>1
  <2>5. sheet[1] = top
    BY <2>1, <2>2
  <2> QED
    BY <2>3, <2>4, <2>5 DEF OthersStand
<1>3. record = Missing /\ run = None /\ late = {}
  BY DEF Init
<1>4. RecordApart(record) /\ Unwhole(record.snap)
  BY <1>1, <1>3, OtherRows DEF AppendInv, Missing, RecordApart, ItemsApart, PlacesApart, Unwhole
<1>5. RunKeeps /\ LateKeeps /\ RunApart /\ LateApart
  BY <1>3 DEF RunKeeps, LateKeeps, RunApart, LateApart
<1> QED
  BY <1>1, <1>2, <1>4, <1>5, ApartParts DEF KeptInv, Kept, AppendInv

(* The steps that leave what the record places and undoes.                   *)
Still ==
  /\ record'.version = record.version /\ record'.place = record.place
  /\ record'.snap = record.snap /\ content' = content /\ others' = others

LEMMA StillKeeps ==
  ASSUME AppendInv, TypeInv', Kept, Still, OthersStand', RunKeeps', RunApart',
         \A entry \in late' :
           \/ entry \in late \/ entry[2].type \notin {"upsert", "write"}
           \/ /\ entry[2].type = "write"
              /\ Unwhole(entry[2].data) /\ ItemsApart(entry[2].data)
  PROVE  Kept'
<1>1. RecordApart(record) /\ LateApart /\ LateKeeps /\ Unwhole(record.snap) /\ OtherRow' = OtherRow
  BY ApartParts DEF AppendInv, Kept, Still, OtherRow
<1>2. RecordApart(record)' /\ Unwhole(record.snap)'
  BY <1>1 DEF Still, RecordApart, ItemsApart, PlacesApart, Unwhole
<1>3. LateApart'
  BY <1>1 DEF LateApart, RecordApart, ItemsApart, PlacesApart
<1>4. LateKeeps'
  <2>1. ASSUME NEW entry \in late', entry \in late
        PROVE  /\ entry[2].type = "write" => Unwhole(entry[2].data)
               /\ entry[2].type = "upsert" =>
                    \/ Unwhole(entry[2].new.snap)
                    \/ /\ entry[2].expected # None
                       /\ entry[2].expected = record'.version =>
                            \E k \in Team : /\ Absent(entry[2].inv, k)' /\ record'.place[k] = Column
                                            /\ entry[2].new.place[k] = None
    BY <1>1, <2>1 DEF LateKeeps, Still, Absent
  <2> QED
    BY <2>1 DEF LateKeeps
<1> QED
  BY <1>2, <1>3, <1>4, ApartPartsNext DEF Kept

(* An operation that moves on and names no more than it did.                 *)
LEMMA MoveKeeps ==
  ASSUME AppendInv, Kept, run # None, Still, NEW pc, run' = To(pc),
         Processes => pc \in ProcessPc,
         Decides => pc \in DecidePc,
         Processes /\ pc \notin EndPc =>
           /\ run.pc \notin EndPc /\ pc # "applying"
           /\ pc \in Opening => run.pc \in Opening
           /\ pc \in WritePc \union {"terminal"} => run.pc \in WritePc \union {"terminal"}
  PROVE  RunKeeps' /\ RunApart'
<1>1. RunKeeps /\ RunApart /\ OtherRow' = OtherRow
  BY ApartParts DEF AppendInv, Kept, Still, OtherRow
<1>2. CASE Processes
  <2>1. /\ run' \in ProcessRun /\ run'.pc = pc /\ KeptBut(run') /\ KeptProcess(run')
    BY <1>2, ToProcess, RunTyped DEF AppendInv, TypeInv
  <2>2. run' # None /\ Processes' /\ ~Decides'
    BY <1>2, <2>1, NoneAssumption DEF KeptBut, Processes, Decides
  <2>3. RunApart'
    BY <1>1, <1>2, <2>1, <2>2
       DEF RunApart, RecordApart, ItemsApart, PlacesApart, KeptBut, KeptProcess
  <2>4. RunKeeps'
    BY <1>1, <1>2, <2>1, <2>2
       DEF RunKeeps, Still, KeptBut, KeptProcess, Level, Absent, Unwhole, Processes
  <2> QED
    BY <2>3, <2>4
<1>3. CASE Decides
  <2>1. run' \in DecideRun /\ run'.pc = pc /\ KeptBut(run')
    BY <1>3, ToDecide, RunTyped DEF AppendInv, TypeInv
  <2>2. run' # None /\ Decides' /\ ~Processes'
    BY <1>3, <2>1, NoneAssumption DEF KeptBut, Processes, Decides
  <2> QED
    BY <1>1, <1>3, <2>1, <2>2
       DEF RunApart, RecordApart, ItemsApart, PlacesApart, KeptBut, RunKeeps, Unwhole
<1> QED
  BY <1>2, <1>3, RunTyped DEF AppendInv, TypeInv

(* An operation that registers the rows of the team it stands at.           *)
LEMMA RegisteredMoves ==
  ASSUME ConstantsAssumption, AppendInv, Processes, run.pc \in EntryPc,
         NEW rows, rows \subseteq Row, rows # {},
         \/ run' = RegisterAppended(run.team, rows)
         \/ run' = Onward(Register(run.team, rows))
  PROVE  /\ run' # None /\ KeptBut(run') /\ run'.op = "process"
         /\ run'.pc \in {"interim", "entry", "data"} /\ run'.snap = run.snap
         /\ run'.registered = run.registered \union {run.team}
         /\ run'.place = [run.place EXCEPT ![run.team] = Min(rows)]
         /\ run'.dups = [run.dups EXCEPT ![run.team] = rows \ {Min(rows)}]
         /\ \/ run'.undo = Without(run.undo, run.team) \union BlankRows(run.team, rows)
            \/ run'.undo = run.undo /\ run' = Onward(Register(run.team, rows))
<1>1. run \in ProcessRun /\ run.team \in Team
  BY AtTeamFacts DEF AppendInv
<1>2. CASE run' = RegisterAppended(run.team, rows)
  <2>0. PICK r : r = RegisterAppended(run.team, rows)
    OBVIOUS
  <2>1. /\ r \in ProcessRun /\ KeptBut(r) /\ r.pc = "interim" /\ r.snap = run.snap
        /\ r.registered = run.registered \union {run.team}
        /\ r.place = [run.place EXCEPT ![run.team] = Min(rows)]
        /\ r.dups = [run.dups EXCEPT ![run.team] = rows \ {Min(rows)}]
        /\ r.undo = Without(run.undo, run.team) \union BlankRows(run.team, rows)
    BY <1>1, <2>0, RegisterAppendedTyped
  <2> QED
    BY <1>2, <2>0, <2>1, NoneAssumption DEF KeptBut, Processes
<1>3. CASE run' = Onward(Register(run.team, rows))
  <2>0. PICK r : r = Register(run.team, rows)
    OBVIOUS
  <2>1. /\ r \in ProcessRun /\ KeptBut(r) /\ r.undo = run.undo /\ r.snap = run.snap
        /\ r.registered = run.registered \union {run.team}
        /\ r.place = [run.place EXCEPT ![run.team] = Min(rows)]
        /\ r.dups = [run.dups EXCEPT ![run.team] = rows \ {Min(rows)}]
    BY <1>1, <2>0, RegisterTyped
  <2>2. run' = Onward(r)
    BY <1>3, <2>0
  <2>3. /\ run' \in ProcessRun /\ run'.op = r.op /\ run'.inv = r.inv /\ run'.old = r.old
        /\ run'.version = r.version /\ run'.data = r.data /\ run'.place = r.place
        /\ run'.undo = r.undo /\ run'.dups = r.dups /\ run'.snap = r.snap
        /\ run'.registered = r.registered /\ run'.pc \in {"entry", "data"}
    BY <1>1, <2>1, <2>2, OnwardTyped
  <2>4. run' # None
    BY <2>3, NoneAssumption
  <2>5. KeptBut(run') /\ run'.op = "process" /\ run'.undo = run.undo
    BY <2>1, <2>3 DEF KeptBut, Processes
  <2> QED
    BY <1>3, <2>1, <2>3, <2>4, <2>5
<1> QED
  BY <1>2, <1>3

(* An operation that registers rows that are not another message's.          *)
LEMMA RegisteredKeeps ==
  ASSUME ConstantsAssumption, AppendInv, Kept, Processes, run.pc \in EntryPc, Still,
         NEW rows, rows \subseteq Row, rows # {}, rows \intersect OtherRow = {},
         \/ run' = RegisterAppended(run.team, rows)
         \/ run' = Onward(Register(run.team, rows))
  PROVE  RunKeeps' /\ RunApart'
<1>1. RunKeeps /\ RunApart /\ OtherRow' = OtherRow
  BY ApartParts DEF AppendInv, Kept, Still, OtherRow
<1>2. /\ run \in ProcessRun /\ run.team \in Team /\ ~Absent(run.inv, run.team)
      /\ run.place \in [Team -> Place] /\ run.dups \in [Team -> SUBSET Row]
  BY AtTeamFacts DEF AppendInv, ProcessRun, Absent
<1>3. Min(rows) \in rows /\ Column \notin Row
  <2>1. Column \notin Row
    BY ConstantsAssumption DEF Row, Column, ConstantsAssumption
  <2> QED
    BY <2>1, MinRow
<1>4. PICK undo :
        /\ run' # None /\ KeptBut(run') /\ run'.op = "process" /\ run'.undo = undo
        /\ run'.pc \in {"interim", "entry", "data"} /\ run'.snap = run.snap
        /\ run'.place = [run.place EXCEPT ![run.team] = Min(rows)]
        /\ run'.dups = [run.dups EXCEPT ![run.team] = rows \ {Min(rows)}]
        /\ undo = run.undo \/ undo = Without(run.undo, run.team) \union BlankRows(run.team, rows)
  BY RegisteredMoves
<1>5. Processes' /\ ~Decides' /\ run'.pc \in Opening /\ run.pc \in Opening
      /\ run'.pc \notin WritePc \union EndPc \union {"terminal", "applying"}
      /\ run.pc \notin EndPc
  BY <1>4 DEF Processes, Decides, Opening, EntryPc, WritePc, EndPc
<1>6. Unwhole(undo) /\ ItemsApart(undo)
  <2>1. Unwhole(run.undo) /\ ItemsApart(run.undo)
    BY <1>1, <1>5 DEF RunKeeps, RunApart, Processes
  <2>2. \A item \in BlankRows(run.team, rows) : item.row \in rows
    BY DEF BlankRows, BlankRow
  <2> QED
    BY <1>3, <1>4, <2>1, <2>2 DEF Unwhole, ItemsApart, Without
<1>7. RunApart'
  <2>1. RecordApart(run.old)' /\ ItemsApart(run.data)' /\ ItemsApart(run.snap)' /\ ItemsApart(run.undo)'
    BY <1>1, <1>4, <1>5, <1>6 DEF RunApart, RecordApart, ItemsApart, PlacesApart, KeptBut, Processes
  <2>2. PlacesApart(run.place)' /\ \A k \in Team : run'.dups[k] \intersect OtherRow = {}
    BY <1>1, <1>2, <1>3, <1>4, <1>5 DEF RunApart, PlacesApart, Processes
  <2> QED
    BY <1>1, <2>1, <2>2 DEF RunApart
<1>8. RunKeeps'
  <2>1. \A k \in Team : Absent(run.inv, k)' => run'.place[k] = run'.old.place[k]
    BY <1>1, <1>2, <1>4, <1>5 DEF RunKeeps, Still, KeptBut, Absent, Processes
  <2>2. Level' => \A k \in Team : Absent(run.inv, k)' => record'.place[k] = run'.old.place[k]
    BY <1>1, <1>4, <1>5 DEF RunKeeps, Still, KeptBut, Absent, Processes, Level
  <2>3. Unwhole(run.old.snap)' /\ Unwhole(run.undo)'
    BY <1>1, <1>4, <1>5, <1>6 DEF RunKeeps, KeptBut, Unwhole, Processes
  <2>4. run'.version = 0 => \A k \in Team : run'.old.place[k] = None
    BY <1>1, <1>4, <1>5 DEF RunKeeps, KeptBut, Processes
  <2> QED
    BY <1>5, <2>1, <2>2, <2>3, <2>4 DEF RunKeeps
<1> QED
  BY <1>7, <1>8

(* The steps among the entries, where the rows of others may be adopted.     *)
LEMMA AdoptKeeps ==
  ASSUME ConstantsAssumption, AppendInv, TypeInv', Kept, ~Spoiled', NEW k \in Team,
         ResolveMapped(k) \/ Reconcile(k)
  PROVE  Kept'
<1>1. /\ run # None /\ run.pc \in EntryPc /\ k = run.team /\ UNCHANGED <<sheet, late>> /\ Still
  BY DEF ResolveMapped, Reconcile, AtEntry, Continue, Adopt, EntryPc, world, Still
<1>2. Processes /\ RunApart
  BY <1>1, RunTyped, ApartParts
     DEF AppendInv, TypeInv, DecidePc, WritePc, EndPc, EntryPc, Kept
<1>3. \/ run' = Failed
      \/ /\ run.old.place[k] \in Row
         /\ run' = Onward(Register(k, {run.old.place[k]}))
      \/ /\ Found(k) # {} /\ Found(k) \intersect OtherRow = {}
         /\ run' = RegisterAppended(k, Found(k))
  <2>1. ASSUME NEW next, Adopt(Found(k), next)
        PROVE  run' = next /\ Found(k) \intersect OtherRow = {}
    BY <2>1 DEF Adopt, Note, Spoiled, Had
  <2> QED
    BY <2>1 DEF ResolveMapped, Reconcile, Continue
<1>4. RunKeeps' /\ RunApart'
  <2>1. CASE run' = Failed
    BY <1>1, <1>2, <2>1, MoveKeeps DEF Failed, To, ProcessPc, EndPc, Processes, Decides
  <2>2. CASE run.old.place[k] \in Row /\ run' = Onward(Register(k, {run.old.place[k]}))
    <3>1. {run.old.place[k]} \intersect OtherRow = {}
      BY <1>1, <1>2 DEF RunApart, RecordApart, PlacesApart
    <3> QED
      BY <1>1, <1>2, <2>2, <3>1, RegisteredKeeps
  <2>3. CASE /\ Found(k) # {} /\ Found(k) \intersect OtherRow = {}
             /\ run' = RegisterAppended(k, Found(k))
    BY <1>1, <1>2, <2>3, FoundTyped, RegisteredKeeps
  <2> QED
    BY <1>3, <2>1, <2>2, <2>3
<1>5. OthersStand'
  BY <1>1 DEF Kept, OthersStand, Still
<1> QED
  BY <1>1, <1>4, <1>5, StillKeeps

(* A row with the mark of an append, and the first row after the last one, are
   not another message's.                                                    *)
LEMMA FreshRows ==
  ASSUME ConstantsAssumption, TypeInv, OthersStand
  PROVE  /\ \A r \in OtherRow :
              sheet[r] # Blank /\ \A k \in Team : content[run.inv][k] \in Value => sheet[r] # Marked(k)
         /\ LastRow(sheet) < MaxRow => LastRow(sheet) + 1 \notin OtherRow
<1>1. sheet \in [Row -> Cell] /\ OtherRow \subseteq Row
  BY OtherRows DEF TypeInv, TypeOK
<1>2. ASSUME NEW r \in OtherRow
      PROVE  sheet[r] \in {Other} \union [team: Team, value: Value, marked: {FALSE}]
  BY DEF OtherRow, OthersStand
<1>3. Blank \notin {Other} \union [team: Team, value: Value, marked: {FALSE}]
  <2>1. [team: Team, value: Value, marked: {FALSE}] \subseteq Entry
    BY DEF Entry
  <2> QED
    BY <2>1, CellAssumption DEF CellAssumption
<1>4. ASSUME NEW k \in Team, NEW v \in Value
      PROVE  [team |-> k, value |-> v, marked |-> TRUE]
               \notin {Other} \union [team: Team, value: Value, marked: {FALSE}]
  <2>1. [team |-> k, value |-> v, marked |-> TRUE]
          \notin [team: Team, value: Value, marked: {FALSE}]
    OBVIOUS
  <2>2. [team |-> k, value |-> v, marked |-> TRUE] \in Entry
    BY DEF Entry
  <2>3. Other \notin Entry
    BY CellAssumption DEF CellAssumption
  <2> QED
    BY <2>1, <2>2, <2>3
<1>5. \A r \in OtherRow : sheet[r] # Blank
  BY <1>2, <1>3
<1>6. \A k \in Team : content[run.inv][k] \in Value =>
        Marked(k) \notin {Other} \union [team: Team, value: Value, marked: {FALSE}]
  BY <1>4 DEF Marked
<1>7. LastRow(sheet) < MaxRow => LastRow(sheet) + 1 \notin OtherRow
  BY <1>1, <1>5, AppendedKeeps
<1> QED
  BY <1>2, <1>5, <1>6, <1>7

LEMMA RequestKeeps ==
  ASSUME ConstantsAssumption, AppendInv, TypeInv', Kept, NEW k \in Team,
         RequestAppend(k) \/ ReadBackAppend(k)
  PROVE  Kept'
<1>1. /\ run # None /\ run.pc \in Unplacing /\ k = run.team /\ Still
  BY DEF RequestAppend, ReadBackAppend, Continue, Adopt, Unplacing, world, Still
<1>2. /\ Processes /\ run.pc \in EntryPc /\ OthersStand /\ content[run.inv][k] \in Value
      /\ sheet \in [Row -> Cell] /\ OtherRow \subseteq Row
  BY <1>1, RunTyped, AtTeamFacts, OtherRows
     DEF AppendInv, TypeInv, TypeOK, DecidePc, WritePc, EndPc, EntryPc, Kept, Unplacing
<1>3. CASE RequestAppend(k)
  <2>1. /\ LastRow(sheet) < MaxRow
        /\ UNCHANGED sheet \/ sheet' = Appended(sheet, Marked(k))
    BY <1>3 DEF RequestAppend
  <2>2. OthersStand'
    <3>1. \A r \in OtherRow : sheet'[r] = sheet[r]
      BY <1>2, <2>1, AppendedKeeps, FreshRows DEF AppendInv
    <3> QED
      BY <1>1, <1>2, <3>1 DEF OthersStand, Still, OtherRow
  <2>3. RunKeeps' /\ RunApart'
    <3>1. CASE run' = RegisterAppended(k, {LastRow(sheet) + 1})
      <4>1. /\ {LastRow(sheet) + 1} \subseteq Row /\ {LastRow(sheet) + 1} # {}
            /\ {LastRow(sheet) + 1} \intersect OtherRow = {}
        BY <1>2, <2>1, AppendedKeeps, FreshRows DEF AppendInv
      <4> QED
        BY <1>1, <1>2, <3>1, <4>1, RegisteredKeeps
    <3>2. CASE \E pc \in {"reconcile", "readback", "failed"} : run' = To(pc)
      BY <1>1, <1>2, <3>2, MoveKeeps
         DEF ProcessPc, EntryPc, WritePc, EndPc, Opening, Processes, Decides
    <3> QED
      BY <1>3, <3>1, <3>2 DEF RequestAppend, Failed, To
  <2>4. \A entry \in late' : entry \in late \/ entry[2].type \notin {"upsert", "write"}
    <3> DEFINE req == [type |-> "append", cell |-> Marked(k)]
    <3>1. UNCHANGED late \/ GiveUp(req)
      BY <1>3 DEF RequestAppend
    <3>2. req.type \notin {"upsert", "write"}
      OBVIOUS
    <3> HIDE DEF req
    <3>3. \A entry \in late' : entry \in late \/ entry = <<faults, req>>
      BY <3>1 DEF GiveUp
    <3> QED
      BY <3>2, <3>3
  <2> QED
    BY <1>1, <2>2, <2>3, <2>4, StillKeeps
<1>4. CASE ReadBackAppend(k)
  <2>1. /\ UNCHANGED <<sheet, late>>
        /\ \/ run' = Failed
           \/ /\ RowsWith(Marked(k)) # {}
              /\ run' = RegisterAppended(k, RowsWith(Marked(k)))
    BY <1>4 DEF ReadBackAppend, Continue, Adopt, world
  <2>2. RowsWith(Marked(k)) \subseteq Row /\ RowsWith(Marked(k)) \intersect OtherRow = {}
    BY <1>2, FreshRows DEF RowsWith, AppendInv
  <2>3. RunKeeps' /\ RunApart'
    <3>1. CASE run' = Failed
      BY <1>1, <1>2, <3>1, MoveKeeps DEF Failed, To, ProcessPc, EndPc, Processes, Decides
    <3>2. CASE /\ RowsWith(Marked(k)) # {}
               /\ run' = RegisterAppended(k, RowsWith(Marked(k)))
      BY <1>1, <1>2, <2>2, <3>2, RegisteredKeeps
    <3> QED
      BY <2>1, <3>1, <3>2
  <2>4. OthersStand'
    BY <1>1, <1>2, <2>1 DEF OthersStand, Still
  <2> QED
    BY <1>1, <2>1, <2>3, <2>4, StillKeeps
<1> QED
  BY <1>3, <1>4

LEMMA ReadFailsKeeps ==
  ASSUME AppendInv, TypeInv', Kept, run # None, ReadFails
  PROVE  Kept'
<1>1. Still /\ UNCHANGED <<sheet, late>> /\ run' = To("failed")
  BY DEF ReadFails, world, Still, Failed, To
<1>2. OthersStand'
  BY <1>1 DEF Kept, OthersStand, Still
<1>3. RunKeeps' /\ RunApart'
  BY <1>1, MoveKeeps, RunTyped DEF AppendInv, TypeInv, ProcessPc, DecidePc, EndPc
<1> QED
  BY <1>1, <1>2, <1>3, StillKeeps

LEMMA StartKeeps ==
  ASSUME ConstantsAssumption, AppendInv, TypeInv', Kept, NEW i \in Invocation, Start(i)
  PROVE  Kept'
<1>1. run = None /\ Still /\ UNCHANGED <<sheet, late>>
  BY DEF Start, world, Still
<1>2. OthersStand'
  BY <1>1 DEF Kept, OthersStand, Still
<1>3. RecordApart(record) /\ Unwhole(record.snap) /\ OtherRow' = OtherRow
  BY <1>1, ApartParts DEF Kept, Still, OtherRow, AppendInv
<1>4. CASE UNCHANGED run
  <2>1. RunKeeps' /\ RunApart'
    BY <1>1, <1>4 DEF RunKeeps, RunApart
  <2> QED
    BY <1>1, <1>2, <2>1, StillKeeps
<1>5. CASE ~UNCHANGED run
  <2>1. run' = [op |-> "process", inv |-> i, pc |-> AtTeam(i, 1), team |-> NextTeam(i, 1),
                old |-> record, version |-> record.version, place |-> record.place,
                undo |-> record.snap, dups |-> [k \in Team |-> {}],
                registered |-> {}, appended |-> {}, snap |-> {}, data |-> {}]
    BY <1>5 DEF Start
  <2>2. /\ run'.op = "process" /\ run'.inv = i /\ run'.pc \in {"entry", "data"}
        /\ run'.old = record /\ run'.version = record.version /\ run'.place = record.place
        /\ run'.undo = record.snap /\ run'.dups = [k \in Team |-> {}]
        /\ run'.snap = {} /\ run'.data = {}
    BY <2>1 DEF AtTeam
  <2>3. RunApart'
    BY <1>3, <2>2 DEF RunApart, RecordApart, ItemsApart, PlacesApart
  <2>4. record.version = 0 => \A k \in Team : record.place[k] = None
    BY DEF AppendInv, TypeInv, TypeOK, Missing
  <2>5. RunKeeps'
    BY <1>1, <1>3, <2>2, <2>4
       DEF RunKeeps, Still, Unwhole, Processes, Decides, WritePc, Level
  <2> QED
    BY <1>1, <1>2, <2>3, <2>5, StillKeeps
<1> QED
  BY <1>4, <1>5

(* An upsert that drops a pending place which still names the column.        *)
Forgetting(new) ==
  run.version # 0 /\
  \E k \in Team : Absent(run.inv, k) /\ new.place[k] = None /\ (Level => record.place[k] = Column)
KeptRows(r) ==
  r.place = run.place /\ r.undo = run.undo /\ r.dups = run.dups /\ r.snap = run.snap

LEMMA FailedKeeps ==
  ASSUME AppendInv, Kept, run # None, run' = Failed, others' = others
  PROVE  RunKeeps' /\ RunApart'
<1>1. RunKeeps /\ RunApart /\ OtherRow' = OtherRow /\ run' = To("failed")
  BY ApartParts DEF AppendInv, Kept, OtherRow, Failed, To
<1>2. CASE Processes
  <2>1. /\ run' \in ProcessRun /\ run'.pc = "failed" /\ KeptBut(run') /\ KeptProcess(run')
    BY <1>1, <1>2, ToProcess, RunTyped DEF AppendInv, TypeInv, ProcessPc, EndPc
  <2>2. run' # None /\ Processes' /\ ~Decides'
    BY <1>2, <2>1, NoneAssumption DEF KeptBut, Processes, Decides
  <2> QED
    BY <1>1, <1>2, <2>1, <2>2
       DEF RunApart, RecordApart, ItemsApart, PlacesApart, KeptBut, KeptProcess, RunKeeps,
           Unwhole, EndPc
<1>3. CASE Decides
  <2>1. run' \in DecideRun /\ run'.pc = "failed" /\ KeptBut(run')
    BY <1>1, <1>3, ToDecide, RunTyped DEF AppendInv, TypeInv, DecidePc, EndPc
  <2>2. run' # None /\ Decides' /\ ~Processes'
    BY <1>3, <2>1, NoneAssumption DEF KeptBut, Processes, Decides
  <2> QED
    BY <1>1, <1>3, <2>1, <2>2
       DEF RunApart, RecordApart, ItemsApart, PlacesApart, KeptBut, RunKeeps, Unwhole
<1> QED
  BY <1>2, <1>3, RunTyped DEF AppendInv, TypeInv

(* A record that replaces the one stored leaves every other request given up
   behind it.                                                                *)
LEMMA UpsertKeeps ==
  ASSUME AppendInv, TypeInv', Kept, NEW req \in Upserts, Upsert(req),
         RecordApart(req.new), Unwhole(req.new.snap), late' \subseteq late,
         UNCHANGED <<content, sheet, others>>, RunKeeps', RunApart'
  PROVE  Kept'
<1>1. /\ record' = [req.new EXCEPT !.version = record.version + 1] /\ req.new \in Submission
      /\ record.version \in Nat /\ LateKnows /\ LateKeeps /\ LateApart /\ OthersStand
      /\ OtherRow' = OtherRow
  BY ApartParts DEF AppendInv, TypeInv, TypeOK, Submission, Upsert, Upserted, Upserts, Kept, OtherRow
<1>2. /\ record'.version = record.version + 1
      /\ record'.place = req.new.place /\ record'.snap = req.new.snap
  BY <1>1 DEF Submission
<1>3. RecordApart(record)' /\ Unwhole(record.snap)' /\ OthersStand'
  <2>1. OthersStand'
    BY <1>1 DEF OthersStand
  <2> QED
    BY <1>1, <1>2, <2>1 DEF RecordApart, ItemsApart, PlacesApart, Unwhole
<1>4. LateApart'
  BY <1>1 DEF LateApart, RecordApart, ItemsApart, PlacesApart
<1>5. LateKeeps'
  <2>1. ASSUME NEW entry \in late'
        PROVE  /\ entry[2].type = "write" => Unwhole(entry[2].data)
               /\ entry[2].type = "upsert" =>
                    \/ Unwhole(entry[2].new.snap)
                    \/ entry[2].expected # None /\ entry[2].expected # record.version + 1
    <3>1. entry \in late
      BY <2>1
    <3>2. entry[2].type = "upsert" =>
            entry[2].expected = None \/ entry[2].expected \in 1..record.version
      BY <1>1, <3>1 DEF LateKnows
    <3>3. entry[2].expected \in 1..record.version => entry[2].expected # record.version + 1
      BY <1>1
    <3> QED
      BY <1>1, <3>1, <3>2, <3>3 DEF LateKeeps
  <2> QED
    BY <1>2, <2>1 DEF LateKeeps
<1> QED
  BY <1>3, <1>4, <1>5, ApartPartsNext DEF Kept

LEMMA PersistKeeps ==
  ASSUME ConstantsAssumption, AppendInv, TypeInv', Kept, ~Spoiled', run # None,
         NEW new \in Submission, NEW next \in ProcessRun \union DecideRun,
         RecordApart(new), Unwhole(new.snap) \/ Forgetting(new),
         next.op = run.op, next.inv = run.inv, next.old = run.old,
         next.version = run.version, next.data = run.data,
         Processes => run.pc \notin EndPc /\ KeptRows(next),
         Processes /\ next.pc \notin EndPc =>
           /\ next.pc # "applying"
           /\ next.pc \in WritePc \union {"terminal"} =>
                (Unwhole(run.data) /\ Unwhole(run.snap)) \/ Forgetting(new)
           /\ next.pc \in Opening =>
                \A k \in Team : Absent(run.inv, k) => new.place[k] = run.old.place[k],
         Persist(new, next)
  PROVE  Kept'
<1> DEFINE req == [type |-> "upsert", inv |-> run.inv, new |-> new,
                   expected |-> IF run.version = 0 THEN None ELSE run.version]
<1>1. /\ run.inv \in Invocation /\ run.version \in Nat /\ None \notin Nat
      /\ RunKeeps /\ RunApart /\ OthersStand
  BY RunTyped, ApartParts, ConstantsAssumption
     DEF AppendInv, TypeInv, TypeOK, ConstantsAssumption, Kept
<1>2. /\ req \in Upserts /\ req.new = new /\ req.type = "upsert" /\ req.inv = run.inv
      /\ run.version # 0 => req.expected = run.version /\ req.expected # None
  BY <1>1 DEF Upserts
<1>3. /\ \/ UNCHANGED <<late, faults>> /\ Upsert(req)
            /\ run' = [next EXCEPT !.version = @ + 1]
         \/ ~Accepts(req) /\ run' = Failed
            /\ UNCHANGED <<record, removals, before, past, late, faults>>
         \/ Fault /\ UNCHANGED late /\ Upsert(req) /\ run' = Failed
         \/ Fault /\ GiveUp(req) /\ run' = Failed /\ UNCHANGED <<record, removals, before, past>>
      /\ UNCHANGED <<content, sheet, over, shown, others, appends, clicks>>
  BY Zenon DEF Persist
<1> HIDE DEF req
<1>4. Upsert(req) => ~Forgetting(new)
  <2>1. SUFFICES ASSUME Upsert(req), run.version # 0, NEW k \in Team, Absent(run.inv, k),
                        new.place[k] = None, Level => record.place[k] = Column
                 PROVE  FALSE
    BY DEF Forgetting
  <2>2. Level
    BY <1>2, <2>1 DEF Upsert, Accepts, Level
  <2>3. k \in Forgets(req) /\ record.place[k] = Column
    <3>1. Column # None
      BY ConstantsAssumption DEF Column, ConstantsAssumption
    <3> QED
      BY <1>2, <2>1, <2>2, <3>1 DEF Forgets, Absent
  <2> QED
    BY <2>1, <2>3 DEF Upsert, Note, Spoiled, Had
<1>5. CASE Upsert(req) /\ UNCHANGED late /\ run' = Failed
  BY <1>2, <1>3, <1>4, <1>5, FailedKeeps, UpsertKeeps
<1>6. CASE Upsert(req) /\ UNCHANGED late /\ run' = [next EXCEPT !.version = @ + 1]
  <2>1. /\ run' # None /\ run'.op = run.op /\ run'.inv = run.inv /\ run'.old = run.old
        /\ run'.version = run.version + 1 /\ run'.data = run.data /\ run'.pc = next.pc
        /\ Processes => KeptRows(run')
    <3>1. CASE Processes
      <4>1. next \in ProcessRun
        BY <3>1, RunTyped DEF AppendInv, TypeInv, ProcessRun, DecideRun, Processes
      <4>2. run' \in ProcessRun
        BY <1>6, <4>1 DEF ProcessRun
      <4>3. /\ run'.op = next.op /\ run'.inv = next.inv /\ run'.old = next.old
            /\ run'.version = next.version + 1 /\ run'.data = next.data /\ run'.pc = next.pc
            /\ run'.place = next.place /\ run'.undo = next.undo /\ run'.dups = next.dups
            /\ run'.snap = next.snap
        BY <1>6, <4>1 DEF ProcessRun
      <4> QED
        BY <3>1, <4>2, <4>3, NoneAssumption DEF KeptRows
    <3>2. CASE Decides
      <4>1. next \in DecideRun
        BY <3>2, RunTyped DEF AppendInv, TypeInv, ProcessRun, DecideRun, Decides
      <4>2. run' \in DecideRun
        BY <1>6, <4>1 DEF DecideRun
      <4>3. /\ run'.op = next.op /\ run'.inv = next.inv /\ run'.old = next.old
            /\ run'.version = next.version + 1 /\ run'.data = next.data /\ run'.pc = next.pc
        BY <1>6, <4>1 DEF DecideRun
      <4> QED
        BY <3>2, <4>2, <4>3, NoneAssumption, RunTyped DEF AppendInv, TypeInv
    <3> QED
      BY <3>1, <3>2, RunTyped DEF AppendInv, TypeInv
  <2>2. (Processes' <=> Processes) /\ (Decides' <=> Decides) /\ OtherRow' = OtherRow
    BY <1>3, <2>1 DEF Processes, Decides, OtherRow
  <2>3. RunApart'
    BY <1>1, <2>1, <2>2
       DEF RunApart, RecordApart, ItemsApart, PlacesApart, KeptRows
  <2>4. record'.place = new.place
    <3>1. record' = [new EXCEPT !.version = record.version + 1]
      BY <1>2, <1>6 DEF Upsert, Upserted
    <3> QED
      BY <3>1 DEF Submission
  <2>5. run'.version # 0
    BY <1>1, <2>1
  <2>6. Processes /\ run'.pc \notin EndPc =>
          /\ Unwhole(run.undo)
          /\ \A k \in Team : Absent(run.inv, k) => run.place[k] = run.old.place[k]
    BY <1>1 DEF RunKeeps
  <2>7. RunKeeps'
    BY <1>1, <1>3, <1>4, <1>6, <2>1, <2>2, <2>4, <2>5, <2>6
       DEF RunKeeps, KeptRows, Unwhole, Absent
  <2> QED
    BY <1>2, <1>3, <1>4, <1>6, <2>3, <2>7, UpsertKeeps
<1>7. CASE UNCHANGED <<record, late>> /\ run' = Failed
  <2>1. Still /\ OthersStand'
    BY <1>1, <1>3, <1>7 DEF Still, OthersStand
  <2> QED
    BY <1>3, <1>7, <2>1, FailedKeeps, StillKeeps
<1>8. CASE GiveUp(req) /\ run' = Failed /\ UNCHANGED record
  <2>1. \A entry \in late' : entry \in late \/ entry = <<faults, req>>
    BY <1>8 DEF GiveUp
  <2>2. RecordApart(record) /\ LateApart /\ LateKeeps /\ Unwhole(record.snap) /\ OtherRow' = OtherRow
    BY <1>3, ApartParts DEF AppendInv, Kept, OtherRow
  <2>3. RecordApart(record)' /\ Unwhole(record.snap)' /\ OthersStand'
    BY <1>1, <1>3, <1>8, <2>2
       DEF RecordApart, ItemsApart, PlacesApart, Unwhole, OthersStand
  <2>4. LateApart'
    BY <1>2, <2>1, <2>2 DEF LateApart, RecordApart, ItemsApart, PlacesApart
  <2>5. Forgetting(new) =>
          /\ req.expected # None
          /\ req.expected = record.version =>
               \E k \in Team : /\ Absent(req.inv, k) /\ record.place[k] = Column
                               /\ req.new.place[k] = None
    BY <1>2 DEF Forgetting, Level
  <2>6. LateKeeps'
    <3>1. \A k \in Team, i \in Invocation : Absent(i, k)' <=> Absent(i, k)
      BY <1>3 DEF Absent
    <3>2. ASSUME NEW entry \in late'
          PROVE  /\ entry[2].type = "write" => Unwhole(entry[2].data)
                 /\ entry[2].type = "upsert" =>
                      \/ Unwhole(entry[2].new.snap)
                      \/ /\ entry[2].expected # None
                         /\ entry[2].expected = record.version =>
                              \E k \in Team : /\ Absent(entry[2].inv, k) /\ record.place[k] = Column
                                              /\ entry[2].new.place[k] = None
      <4>1. CASE entry \in late
        BY <2>2, <4>1 DEF LateKeeps
      <4>2. CASE entry = <<faults, req>>
        BY <1>2, <2>5, <4>2
      <4> QED
        BY <2>1, <3>2, <4>1, <4>2
    <3> QED
      BY <1>3, <1>8, <3>2 DEF LateKeeps, Absent
  <2> QED
    BY <1>3, <1>8, <2>3, <2>4, <2>6, FailedKeeps, ApartPartsNext DEF Kept
<1> QED
  BY <1>3, <1>5, <1>6, <1>7, <1>8

(* The upserts of a process before it writes the sheet.                      *)
LEMMA BeforeAppendKeeps ==
  ASSUME ConstantsAssumption, AppendInv, TypeInv', Kept, ~Spoiled', NEW k \in Team, BeforeAppend(k)
  PROVE  Kept'
<1>1. run # None /\ run.pc = "entry" /\ k = run.team
  BY DEF BeforeAppend, AtEntry
<1>2. /\ Processes /\ run \in ProcessRun /\ TypeInv /\ run.pc \notin EndPc
      /\ ~Absent(run.inv, k)
  BY <1>1, RunTyped, AtTeamFacts
     DEF AppendInv, TypeInv, Processes, DecidePc, WritePc, EndPc, EntryPc, Absent
<1>3. /\ Unwhole(run.undo) /\ ItemsApart(run.undo) /\ PlacesApart(run.place)
      /\ \A j \in Team : Absent(run.inv, j) => run.place[j] = run.old.place[j]
  BY <1>1, <1>2, ApartParts DEF Kept, RunKeeps, RunApart, Processes
<1> DEFINE teams == run.registered \union {k}
           place == [run.place EXCEPT ![k] = Column]
           snap == Without(run.undo, k) \union {BlankRow(k, None)}
           new == Record("applying", teams, place, snap)
           next == To("append")
<1>4. /\ teams \in SUBSET Team /\ place \in [Team -> Place]
      /\ snap \in SUBSET Item
  BY <1>2, BlankRowTyped DEF ProcessRun, Place, Without
<1>5. Persist(new, next)
  BY Zenon DEF BeforeAppend
<1>6. \A j \in Team : place[j] = IF j = k THEN Column ELSE run.place[j]
  BY <1>2 DEF ProcessRun
<1>7. PlacesApart(place) /\ Unwhole(snap) /\ ItemsApart(snap)
  <2>1. Column \notin OtherRow /\ None \notin OtherRow /\ None # Column
    BY <1>2, OtherRows, ConstantsAssumption DEF Column, ConstantsAssumption
  <2>2. PlacesApart(place)
    BY <1>3, <1>6, <2>1 DEF PlacesApart
  <2> QED
    BY <1>3, <2>1, <2>2 DEF Unwhole, ItemsApart, Without, BlankRow
<1> HIDE DEF teams, place, snap
<1>8. /\ Record("applying", teams, place, snap) \in Submission
      /\ Record("applying", teams, place, snap).place = place
      /\ Record("applying", teams, place, snap).snap = snap
  BY <1>2, <1>4, ApplyingTyped
<1>9. new \in Submission /\ new.place = place /\ new.snap = snap
  BY <1>8
<1> HIDE DEF new
<1>10. RecordApart(new) /\ Unwhole(new.snap)
  BY <1>7, <1>9 DEF RecordApart
<1>11. next \in ProcessRun /\ next.pc = "append" /\ KeptBut(next) /\ KeptProcess(next)
  BY <1>2, ToProcess DEF ProcessPc, EntryPc
<1> HIDE DEF next
<1>12. \A j \in Team : Absent(run.inv, j) => new.place[j] = run.old.place[j]
  BY <1>2, <1>3, <1>6, <1>9
<1>13. KeptRows(next) /\ next.pc # "applying" /\ next.pc \notin WritePc \union {"terminal"}
  BY <1>11 DEF KeptProcess, KeptRows, WritePc
<1> QED
  BY <1>1, <1>2, <1>5, <1>9, <1>10, <1>11, <1>12, <1>13, PersistKeeps DEF KeptBut

LEMMA PersistAppendedKeeps ==
  ASSUME ConstantsAssumption, AppendInv, TypeInv', Kept, ~Spoiled', PersistAppended
  PROVE  Kept'
<1>1. run # None /\ run.pc = "interim"
  BY DEF PersistAppended
<1>2. /\ Processes /\ run \in ProcessRun /\ TypeInv /\ run.pc \notin EndPc
      /\ run.team \in Team
  BY <1>1, RunTyped, AtTeamFacts
     DEF AppendInv, TypeInv, Processes, DecidePc, WritePc, EndPc, EntryPc
<1>3. /\ Unwhole(run.undo) /\ ItemsApart(run.undo) /\ PlacesApart(run.place)
      /\ \A j \in Team : Absent(run.inv, j) => run.place[j] = run.old.place[j]
  BY <1>1, <1>2, ApartParts DEF Kept, RunKeeps, RunApart, Processes
<1> DEFINE new == Record("applying", run.registered, run.place, run.undo)
           next == Onward(run)
<1>4. Persist(new, next)
  BY Zenon DEF PersistAppended
<1>5. new \in Submission /\ new.place = run.place /\ new.snap = run.undo
  <2>1. /\ run.registered \in SUBSET Team /\ run.place \in [Team -> Place]
        /\ run.undo \in SUBSET Item
    BY <1>2 DEF ProcessRun
  <2>2. /\ Record("applying", run.registered, run.place, run.undo) \in Submission
        /\ Record("applying", run.registered, run.place, run.undo).place = run.place
        /\ Record("applying", run.registered, run.place, run.undo).snap = run.undo
    BY <1>2, <2>1, ApplyingTyped
  <2> QED
    BY <2>2
<1>6. /\ next \in ProcessRun /\ next.op = run.op /\ next.inv = run.inv /\ next.old = run.old
      /\ next.version = run.version /\ next.data = run.data /\ next.place = run.place
      /\ next.undo = run.undo /\ next.dups = run.dups /\ next.snap = run.snap
      /\ next.pc \in {"entry", "data"}
  BY <1>2, OnwardTyped
<1> HIDE DEF new, next
<1>7. RecordApart(new) /\ Unwhole(new.snap)
  BY <1>3, <1>5 DEF RecordApart
<1>8. KeptRows(next) /\ next.pc # "applying" /\ next.pc \notin WritePc \union {"terminal"}
  BY <1>6 DEF KeptRows, WritePc
<1> QED
  BY <1>1, <1>2, <1>3, <1>4, <1>5, <1>6, <1>7, <1>8, PersistKeeps

(* When the sheet is about to be written, the places the record holds of teams
   that the message does not have are those the operation found.             *)
LEMMA PersistPlacesKeeps ==
  ASSUME ConstantsAssumption, AppendInv, TypeInv', Kept, ~Spoiled', Processes,
         NEW new \in Submission, new.place = Places(run.registered), new.snap = run.snap,
         NEW pc, Persist(new, To(pc)),
         \/ run.pc = "applying" /\ pc = "write"
         \/ run.pc = "terminal" /\ pc = "bind"
  PROVE  Kept'
<1>1. /\ run # None /\ run \in ProcessRun /\ ProcessWell /\ TypeInv
      /\ run.pc \notin EndPc
  BY RunTyped DEF AppendInv, TypeInv, RunWell, Processes, EndPc
<1>2. RunKeeps /\ RunApart
  BY <1>1, ApartParts DEF Kept
<1>3. /\ pc \in ProcessPc /\ pc \notin Opening \union EndPc \union {"applying", "terminal"}
      /\ pc \in WritePc => run.pc = "applying" /\ run.pc \in Opening
  BY DEF ProcessPc, Opening, EntryPc, WritePc, EndPc
<1> DEFINE next == To(pc)
<1>4. next \in ProcessRun /\ next.pc = pc /\ KeptBut(next) /\ KeptProcess(next)
  BY <1>1, <1>3, ToProcess
<1> HIDE DEF next
<1>5. RecordApart(new)
  <2>1. None \notin OtherRow
    BY <1>1, OtherRows
  <2>2. \A k \in Team : new.place[k] = IF k \in run.registered THEN run.place[k] ELSE None
    BY DEF Places
  <2> QED
    BY <1>2, <2>1, <2>2 DEF RunApart, RecordApart, PlacesApart, Processes
<1>6. run.pc = "applying" => (Unwhole(run.data) /\ Unwhole(run.snap)) \/ Forgetting(new)
  <2>1. SUFFICES ASSUME run.pc = "applying", NEW k \in Team, Absent(run.inv, k),
                        run.old.place[k] = Column
                 PROVE  Forgetting(new)
    BY <1>1, <1>2 DEF RunKeeps, Processes
  <2>2. Column # None
    BY ConstantsAssumption DEF Column, ConstantsAssumption
  <2>3. run.version # 0
    BY <1>1, <1>2, <2>1, <2>2 DEF RunKeeps, Processes
  <2>4. Level => record.place[k] = Column
    BY <1>1, <1>2, <2>1 DEF RunKeeps, Processes, Opening
  <2>5. new.place[k] = None
    BY <1>1, <2>1 DEF ProcessWell, Absent, Places
  <2> QED
    BY <2>1, <2>3, <2>4, <2>5 DEF Forgetting
<1>7. run.pc = "terminal" => Unwhole(run.snap)
  BY <1>1, <1>2 DEF RunKeeps, Processes
<1>8. KeptRows(next)
  BY <1>4 DEF KeptProcess, KeptRows
<1>9. Persist(new, next)
  BY DEF next
<1> QED
  BY <1>1, <1>3, <1>4, <1>5, <1>6, <1>7, <1>8, <1>9, PersistKeeps DEF KeptBut

LEMMA PersistApplyingKeeps ==
  ASSUME ConstantsAssumption, AppendInv, TypeInv', Kept, ~Spoiled', PersistApplying
  PROVE  Kept'
<1>1. run # None /\ run.pc = "applying"
  BY DEF PersistApplying
<1>2. Processes /\ run \in ProcessRun /\ TypeInv
  BY <1>1, RunTyped DEF AppendInv, TypeInv, Processes, DecidePc, WritePc, EndPc
<1> DEFINE place == Places(run.registered)
           new == Record("applying", run.registered, place, run.snap)
<1>3. Persist(new, To("write"))
  BY Zenon DEF PersistApplying
<1>4. place \in [Team -> Place] /\ run.registered \in SUBSET Team /\ run.snap \in SUBSET Item
  BY <1>2, PlacesTyped DEF ProcessRun
<1> HIDE DEF place
<1>5. /\ Record("applying", run.registered, place, run.snap) \in Submission
      /\ Record("applying", run.registered, place, run.snap).place = place
      /\ Record("applying", run.registered, place, run.snap).snap = run.snap
  BY <1>2, <1>4, ApplyingTyped
<1>6. new \in Submission /\ new.place = Places(run.registered) /\ new.snap = run.snap
  BY <1>5 DEF place
<1> HIDE DEF new
<1> QED
  BY <1>1, <1>2, <1>3, <1>6, PersistPlacesKeeps

LEMMA PersistTerminalKeeps ==
  ASSUME ConstantsAssumption, AppendInv, TypeInv', Kept, ~Spoiled', PersistTerminal
  PROVE  Kept'
<1>1. run # None /\ run.pc = "terminal"
  BY DEF PersistTerminal
<1>2. Processes /\ run \in ProcessRun /\ TypeInv
  BY <1>1, RunTyped DEF AppendInv, TypeInv, Processes, DecidePc, WritePc, EndPc
<1> DEFINE status == IF run.registered = {} THEN "empty"
                     ELSE IF run.old = Missing THEN "registered" ELSE "updated"
           place == Places(run.registered)
           new == Record(status, run.registered, place, run.snap)
<1>3. Persist(new, To("bind"))
  BY Zenon DEF PersistTerminal
<1>4. /\ status \in Status /\ place \in [Team -> Place] /\ run.registered \in SUBSET Team
      /\ run.snap \in SUBSET Item
  BY <1>2, PlacesTyped DEF ProcessRun, Status
<1> HIDE DEF status, place
<1>5. /\ Record(status, run.registered, place, run.snap) \in Submission
      /\ Record(status, run.registered, place, run.snap).place = place
      /\ Record(status, run.registered, place, run.snap).snap = run.snap
  <2>1. TypeInv /\ Processes
    BY <1>2
  <2> QED
    BY <2>1, <1>4, RecordTyped
<1>6. new \in Submission /\ new.place = Places(run.registered) /\ new.snap = run.snap
  BY <1>5 DEF place
<1> HIDE DEF new
<1> QED
  BY <1>1, <1>2, <1>3, <1>6, PersistPlacesKeeps

LEMMA PersistDecisionKeeps ==
  ASSUME ConstantsAssumption, AppendInv, TypeInv', Kept, ~Spoiled', PersistDecision
  PROVE  Kept'
<1>1. run # None /\ run.op = "decide"
  BY DEF PersistDecision
<1>2. /\ Decides /\ ~Processes /\ run \in DecideRun /\ run.old \in Submission
  BY <1>1, RunTyped DEF AppendInv, TypeInv, Decides, Processes
<1>3. PICK status \in Status, pc \in {"done", "restore"} :
        Persist([run.old EXCEPT !.status = status], To(pc))
  <2>1. Done = To("done")
    BY DEF Done, To
  <2>2. {"confirmed", "rejected", "rollbackFailed", "reverting"} \subseteq Status
    BY DEF Status
  <2> QED
    BY <2>1, <2>2 DEF PersistDecision, PersistStatus
<1> DEFINE new == [run.old EXCEPT !.status = status]
           next == To(pc)
<1>4. new \in Submission /\ new.place = run.old.place /\ new.snap = run.old.snap
  BY <1>2, <1>3 DEF Submission
<1>5. Persist(new, next)
  BY <1>3
<1>6. next \in DecideRun /\ KeptBut(next)
  BY <1>2, <1>3, ToDecide DEF DecidePc, EndPc
<1> HIDE DEF new, next
<1>7. RecordApart(new) /\ Unwhole(new.snap)
  BY <1>1, <1>4, ApartParts DEF AppendInv, Kept, RunKeeps, RunApart, RecordApart
<1> QED
  BY <1>1, <1>2, <1>4, <1>5, <1>6, <1>7, PersistKeeps DEF KeptBut

(* The rows that a change writes and undoes.                                 *)
LEMMA RowsWritten ==
  ASSUME run \in ProcessRun, ProcessWell
  PROVE  /\ \A item \in Updates :
              \/ item.row \in Row /\ \E k \in run.registered :
                   item.row = run.place[k] \/ item.row \in run.dups[k]
              \/ \E k \in Removed : item.row = run.old.place[k]
         /\ \A item \in Snapshot :
              \/ item \in run.undo
              \/ \E update \in Updates : item.row = update.row
              \/ item.row \in Row /\ \E k \in run.registered :
                   item.row = run.place[k] \/ item.row \in run.dups[k]
<1>1. /\ run.registered \subseteq Team /\ run.appended \subseteq run.registered
      /\ \A k \in run.registered : run.place[k] \in Row /\ run.dups[k] \subseteq Row
  BY DEF ProcessRun, ProcessWell
<1>2. ASSUME NEW item \in Updates
      PROVE  \/ item.row \in Row /\ \E k \in run.registered :
                  item.row = run.place[k] \/ item.row \in run.dups[k]
             \/ \E k \in Removed : item.row = run.old.place[k]
  <2>1. CASE \E k \in run.registered :
               item = [key |-> k, row |-> run.place[k], cell |-> Clean(k)]
    BY <1>1, <2>1
  <2>2. CASE \E k \in run.registered : item \in BlankRows(k, run.dups[k])
    BY <1>1, <2>2 DEF BlankRows, BlankRow
  <2>3. CASE \E k \in Removed : item = BlankRow(None, run.old.place[k])
    BY <2>3 DEF BlankRow
  <2> QED
    BY <2>1, <2>2, <2>3 DEF Updates
<1>3. ASSUME NEW item \in Snapshot
      PROVE  \/ item \in run.undo
             \/ \E update \in Updates : item.row = update.row
             \/ item.row \in Row /\ \E k \in run.registered :
                  item.row = run.place[k] \/ item.row \in run.dups[k]
  <2> DEFINE kept == {update \in Updates : update.key \notin run.appended}
  <2>1. CASE item \in AsRead(kept)
    <3>1. PICK update \in kept : item = [update EXCEPT !.cell = sheet[RowOf(update)]]
      BY <2>1 DEF AsRead
    <3>2. item.row = update.row
      <4>1. \/ \E k, row, cell : update = [key |-> k, row |-> row, cell |-> cell]
        BY <3>1 DEF Updates, BlankRows, BlankRow
      <4> QED
        BY <3>1, <4>1
    <3> QED
      BY <3>1, <3>2
  <2>2. CASE \E k \in run.appended : item \in BlankRows(k, {run.place[k]} \union run.dups[k])
    <3>1. PICK k \in run.registered : item.row \in {run.place[k]} \union run.dups[k]
      BY <1>1, <2>2 DEF BlankRows, BlankRow
    <3> QED
      BY <1>1, <3>1
  <2>3. CASE item \in run.undo
    BY <2>3
  <2> QED
    BY <2>1, <2>2, <2>3 DEF Snapshot
<1> QED
  BY <1>2, <1>3

LEMMA ReadSnapshotKeeps ==
  ASSUME ConstantsAssumption, AppendInv, TypeInv', Kept, ReadSnapshot
  PROVE  Kept'
<1>1. run # None /\ run.pc = "data"
  BY DEF ReadSnapshot
<1>2. /\ Processes /\ run \in ProcessRun /\ ProcessWell /\ GoneThrough(run)
      /\ run.pc \notin EndPc \union EntryPc /\ run.pc \in Opening
  BY <1>1, RunTyped
     DEF AppendInv, TypeInv, RunWell, RunKnows, Processes, DecidePc, WritePc, EndPc, EntryPc,
         Opening
<1>3. CASE ReadFails
  BY <1>1, <1>3, ReadFailsKeeps
<1>4. CASE ~ReadFails
  <2> DEFINE data == Updates
             snap == Snapshot
             pc == IF data = {} THEN "terminal" ELSE "applying"
             next == [run EXCEPT !.data = data, !.snap = snap, !.pc = pc]
  <2>1. Continue(next)
    BY <1>4 DEF ReadSnapshot
  <2>2. RunKeeps /\ RunApart /\ OthersStand
    BY ApartParts DEF AppendInv, Kept
  <2>3. Column \notin Row /\ Column # None /\ None \notin OtherRow
    <3>1. Column \notin Row /\ Column # None
      BY ConstantsAssumption DEF Row, Column, ConstantsAssumption
    <3> QED
      BY <3>1, OtherRows DEF AppendInv
  <2>4. /\ ItemsApart(run.undo) /\ PlacesApart(run.place) /\ PlacesApart(run.old.place)
        /\ Unwhole(run.undo)
        /\ \A k \in Team : run.dups[k] \intersect OtherRow = {}
    BY <1>1, <1>2, <2>2 DEF RunKeeps, RunApart, RecordApart, Processes
  <2>5. run.registered \subseteq Team /\ Removed \subseteq Team
    BY <1>2 DEF ProcessRun, Removed
  <2>6. ItemsApart(data) /\ ItemsApart(snap)
    <3>1. \A item \in data : item.row \notin OtherRow
      BY <1>2, <2>4, <2>5, RowsWritten DEF PlacesApart
    <3>2. \A item \in snap : item.row \notin OtherRow
      BY <1>2, <2>4, <2>5, <3>1, RowsWritten DEF PlacesApart, ItemsApart
    <3> QED
      BY <3>1, <3>2 DEF ItemsApart
  <2>7. \A k \in Removed : Absent(run.inv, k)
    BY <1>2, <2>5 DEF Removed, GoneThrough, Absent, Processes
  <2>8. \/ Unwhole(data) /\ Unwhole(snap)
        \/ data # {} /\ \E k \in Team : Absent(run.inv, k) /\ run.old.place[k] = Column
    <3>1. SUFFICES ASSUME ~(data # {} /\ \E k \in Removed : run.old.place[k] = Column)
                   PROVE  Unwhole(data) /\ Unwhole(snap)
      BY <2>5, <2>7
    <3>2. \A item \in data : item.row # Column
      BY <1>2, <2>3, <3>1, RowsWritten
    <3>3. \A item \in snap : item.row # Column
      BY <1>2, <2>3, <2>4, <3>2, RowsWritten DEF Unwhole
    <3> QED
      BY <3>2, <3>3 DEF Unwhole
  <2>9. /\ pc \in {"terminal", "applying"} /\ (pc = "terminal" <=> data = {})
    OBVIOUS
  <2> HIDE DEF data, snap, pc
  <2>10. /\ run' # None /\ run'.op = "process" /\ run'.inv = run.inv /\ run'.old = run.old
         /\ run'.version = run.version /\ run'.place = run.place /\ run'.undo = run.undo
         /\ run'.dups = run.dups /\ run'.data = data /\ run'.snap = snap /\ run'.pc = pc
    <3>1. run' = next
      BY <2>1 DEF Continue
    <3>2. run' # None
      <4>1. pc \in ProcessPc
        BY <2>9 DEF ProcessPc
      <4>2. data \subseteq Item /\ snap \subseteq Item
        BY <1>2, UpdatesTyped, SnapshotTyped DEF data, snap, AppendInv
      <4>3. run' \in ProcessRun
        BY <1>2, <3>1, <4>1, <4>2 DEF ProcessRun
      <4> QED
        BY <4>3, NoneAssumption
    <3> QED
      BY <1>2, <3>1, <3>2 DEF ProcessRun
  <2>11. Still /\ UNCHANGED <<sheet, late>> /\ OtherRow' = OtherRow
    BY <2>1 DEF Continue, Still, world, OtherRow
  <2>12. RunApart'
    BY <1>1, <2>2, <2>4, <2>6, <2>10, <2>11
       DEF RunApart, RecordApart, ItemsApart, PlacesApart
  <2>13. RunKeeps'
    <3>1. /\ Unwhole(run.old.snap) /\ Unwhole(run.undo)
          /\ run.version = 0 => \A k \in Team : run.old.place[k] = None
          /\ \A k \in Team : Absent(run.inv, k) => run.place[k] = run.old.place[k]
          /\ Level => \A k \in Team : Absent(run.inv, k) => record.place[k] = run.old.place[k]
      BY <1>1, <1>2, <2>2 DEF RunKeeps, Processes
    <3>2. Processes' /\ ~Decides' /\ run'.pc \notin WritePc
      BY <2>9, <2>10 DEF Processes, Decides, WritePc
    <3> QED
      BY <2>8, <2>9, <2>10, <2>11, <3>1, <3>2 DEF RunKeeps, Still, Absent, Level, Unwhole
  <2>14. OthersStand'
    BY <2>2, <2>11 DEF OthersStand, Still
  <2> QED
    BY <2>11, <2>12, <2>13, <2>14, StillKeeps
<1> QED
  BY <1>3, <1>4

(* A write leaves the rows it does not name.                                 *)
LEMMA WriteStands ==
  ASSUME TypeInv, OthersStand, NEW items, Unwhole(items), ItemsApart(items), others' = others,
         sheet' = sheet \/ sheet' = Written(sheet, items)
  PROVE  OthersStand'
<1>1. ASSUME NEW o \in others
      PROVE  sheet'[o[1]] = sheet[o[1]]
  <2>1. o[1] \in Row /\ o[1] \in OtherRow
    BY DEF TypeInv, TypeOK, OtherRow
  <2> QED
    BY <2>1, WrittenKeeps DEF ItemsApart
<1> QED
  BY <1>1 DEF OthersStand

LEMMA WriteKeeps ==
  ASSUME AppendInv, TypeInv', Kept, Write
  PROVE  Kept'
<1>1. /\ run # None /\ run.pc \in WritePc
      /\ UNCHANGED <<content, record, over, shown, others, history, clicks>>
      /\ sheet' = sheet \/ sheet' = Written(sheet, run.data)
      /\ UNCHANGED late \/ GiveUp([type |-> "write", data |-> run.data])
  BY DEF Write, WritePc
<1>2. RunKeeps /\ RunApart /\ OthersStand /\ Still
  BY <1>1, ApartParts DEF AppendInv, Kept, Still
<1>3. Unwhole(run.data) /\ ItemsApart(run.data)
  BY <1>1, <1>2, RunTyped DEF AppendInv, TypeInv, RunKeeps, RunApart, WritePc, EndPc
<1>4. OthersStand'
  BY <1>1, <1>2, <1>3, WriteStands DEF AppendInv
<1>5. \A entry \in late' :
        \/ entry \in late
        \/ entry[2].type = "write" /\ Unwhole(entry[2].data) /\ ItemsApart(entry[2].data)
  <2> DEFINE req == [type |-> "write", data |-> run.data]
  <2>1. req.type = "write" /\ req.data = run.data
    OBVIOUS
  <2>2. UNCHANGED late \/ GiveUp(req)
    BY <1>1
  <2> HIDE DEF req
  <2>3. \A entry \in late' : entry \in late \/ entry = <<faults, req>>
    BY <2>2 DEF GiveUp
  <2> QED
    BY <1>3, <2>1, <2>3
<1>6. \E pc \in {AfterWrite, "readback write", IF run.op = "process" THEN "failed" ELSE "check"} :
        run' = To(pc)
  BY DEF Write, WriteFailed
<1>7. RunKeeps' /\ RunApart'
  <2>1. CASE Processes
    <3>1. \E pc \in {"terminal", "readback write", "failed"} : run' = To(pc)
      BY <1>6, <2>1 DEF AfterWrite, Processes
    <3> QED
      BY <1>1, <1>2, <2>1, <3>1, MoveKeeps
         DEF Processes, Decides, ProcessPc, Opening, EntryPc, WritePc, EndPc
  <2>2. CASE Decides
    <3>1. \E pc \in {"reject", "readback write", "check"} : run' = To(pc)
      BY <1>6, <2>2 DEF AfterWrite, Decides
    <3> QED
      BY <1>1, <1>2, <2>2, <3>1, MoveKeeps DEF Processes, Decides, DecidePc, WritePc
  <2> QED
    BY <1>1, <2>1, <2>2, RunTyped DEF AppendInv, TypeInv
<1> QED
  BY <1>2, <1>4, <1>5, <1>7, StillKeeps

LEMMA ReadBackWriteKeeps ==
  ASSUME AppendInv, TypeInv', Kept, ReadBackWrite
  PROVE  Kept'
<1>1. run # None /\ run.pc = "readback write" /\ UNCHANGED <<sheet, late>> /\ Still
  BY DEF ReadBackWrite, Continue, world, Still
<1>2. \E pc \in {AfterWrite, "rewrite"} : run' = To(pc)
  BY DEF ReadBackWrite, Continue
<1>3. RunKeeps' /\ RunApart'
  <2>1. CASE Processes
    <3>1. \E pc \in {"terminal", "rewrite"} : run' = To(pc)
      BY <1>2, <2>1 DEF AfterWrite, Processes
    <3> QED
      BY <1>1, <2>1, <3>1, MoveKeeps
         DEF Processes, Decides, ProcessPc, Opening, EntryPc, WritePc, EndPc
  <2>2. CASE Decides
    <3>1. \E pc \in {"reject", "rewrite"} : run' = To(pc)
      BY <1>2, <2>2 DEF AfterWrite, Decides
    <3> QED
      BY <1>1, <2>2, <3>1, MoveKeeps DEF Processes, Decides, DecidePc, WritePc
  <2> QED
    BY <1>1, <2>1, <2>2, RunTyped DEF AppendInv, TypeInv
<1>4. OthersStand'
  BY <1>1 DEF Kept, OthersStand, Still
<1> QED
  BY <1>1, <1>3, <1>4, StillKeeps

LEMMA ConfirmationKeeps ==
  ASSUME AppendInv, TypeInv', Kept, SetConfirmation \/ EnableButtons
  PROVE  Kept'
<1>1. /\ run # None /\ run.pc \in {"bind", "enable"} /\ UNCHANGED <<content, sheet, others>>
      /\ UNCHANGED record \/ record' = Bind(run.inv)
      /\ UNCHANGED late \/ GiveUp([type |-> "bind", inv |-> run.inv])
      /\ \E pc \in {"enable", "failed", "done"} : run' = To(pc) /\ (pc = "enable" => run.pc = "bind")
  BY DEF SetConfirmation, EnableButtons, world, Failed, Done, To
<1>2. Processes /\ run.inv \in Invocation /\ RecordOK
  BY <1>1, RunTyped, Parts DEF AppendInv, TypeInv, DecidePc, WritePc, EndPc
<1>3. Still /\ OthersStand'
  <2>1. /\ record'.version = record.version /\ record'.place = record.place
        /\ record'.snap = record.snap
    BY <1>1, <1>2, BindTyped
  <2> QED
    BY <1>1, <2>1 DEF Still, Kept, OthersStand
<1>4. RunKeeps' /\ RunApart'
  BY <1>1, <1>2, <1>3, MoveKeeps
     DEF Processes, Decides, ProcessPc, Opening, EntryPc, WritePc, EndPc
<1>5. \A entry \in late' : entry \in late \/ entry[2].type \notin {"upsert", "write"}
  <2> DEFINE req == [type |-> "bind", inv |-> run.inv]
  <2>1. req.type \notin {"upsert", "write"}
    OBVIOUS
  <2>2. UNCHANGED late \/ GiveUp(req)
    BY <1>1
  <2> HIDE DEF req
  <2>3. \A entry \in late' : entry \in late \/ entry = <<faults, req>>
    BY <2>2 DEF GiveUp
  <2> QED
    BY <2>1, <2>3
<1> QED
  BY <1>3, <1>4, <1>5, StillKeeps

LEMMA DecideKeeps ==
  ASSUME AppendInv, TypeInv', Kept, NEW i \in Invocation, NEW pc \in DecidePc, Decide(i, pc)
  PROVE  Kept'
<1>1. /\ UNCHANGED <<sheet, late>> /\ Still
      /\ run' = [op |-> "decide", inv |-> i, pc |-> pc, old |-> record,
                 version |-> record.version, data |-> {}]
  BY DEF Decide, world, Still
<1>2. run'.op = "decide" /\ run'.old = record /\ run'.data = {}
  BY <1>1
<1>3. RecordApart(record) /\ Unwhole(record.snap) /\ OtherRow' = OtherRow /\ OthersStand'
  BY <1>1, ApartParts DEF AppendInv, Kept, Still, OtherRow, OthersStand
<1>4. RunKeeps' /\ RunApart'
  BY <1>2, <1>3
     DEF RunKeeps, RunApart, RecordApart, ItemsApart, PlacesApart, Unwhole, Processes
<1> QED
  BY <1>1, <1>3, <1>4, StillKeeps

LEMMA RestoreKeeps ==
  ASSUME AppendInv, TypeInv', Kept, Restore
  PROVE  Kept'
<1>1. run # None /\ run.pc = "restore"
  BY DEF Restore
<1>2. Decides /\ run \in DecideRun
  BY <1>1, RunTyped DEF AppendInv, TypeInv, ProcessPc, EntryPc, WritePc, EndPc
<1> DEFINE rows == {item \in run.old.snap : item.row # None}
           pc == IF rows = {} THEN "fail" ELSE "write"
<1>3. Continue([run EXCEPT !.data = rows, !.pc = pc])
  BY Zenon DEF Restore
<1>4. RunKeeps /\ RunApart
  BY ApartParts DEF AppendInv, Kept
<1>5. Unwhole(rows) /\ ItemsApart(rows)
  BY <1>1, <1>4 DEF RunKeeps, RunApart, RecordApart, Unwhole, ItemsApart
<1> HIDE DEF rows, pc
<1>6. run'.op = "decide" /\ run'.old = run.old /\ run'.data = rows
  BY <1>2, <1>3 DEF Continue, DecideRun
<1>7. UNCHANGED <<sheet, late>> /\ Still /\ OtherRow' = OtherRow /\ OthersStand'
  BY <1>3 DEF Continue, world, Still, OtherRow, OthersStand, Kept
<1>8. RunKeeps' /\ RunApart'
  BY <1>1, <1>4, <1>5, <1>6, <1>7
     DEF RunKeeps, RunApart, RecordApart, ItemsApart, PlacesApart, Unwhole, Processes
<1> QED
  BY <1>7, <1>8, StillKeeps

LEMMA CheckRestoredKeeps ==
  ASSUME AppendInv, TypeInv', Kept, CheckRestored
  PROVE  Kept'
<1>1. run # None /\ run.pc = "check" /\ UNCHANGED <<sheet, late>> /\ Still
  BY DEF CheckRestored, Continue, world, Still
<1>2. Decides
  BY <1>1, RunTyped DEF AppendInv, TypeInv, ProcessPc, EntryPc, WritePc, EndPc
<1>3. \E pc \in {"reject", "fail"} : run' = To(pc)
  BY DEF CheckRestored, Continue
<1>4. RunKeeps' /\ RunApart'
  BY <1>1, <1>2, <1>3, MoveKeeps DEF Processes, Decides, DecidePc
<1>5. OthersStand'
  BY <1>1 DEF Kept, OthersStand, Still
<1> QED
  BY <1>1, <1>4, <1>5, StillKeeps

LEMMA StopKeeps ==
  ASSUME AppendInv, TypeInv', Kept, End \/ Interrupt
  PROVE  Kept'
<1>1. run' = None /\ UNCHANGED <<sheet, late>> /\ Still
  BY DEF End, Interrupt, Still, world
<1>2. RunKeeps' /\ RunApart' /\ OthersStand'
  BY <1>1 DEF RunKeeps, RunApart, Kept, OthersStand, Still
<1> QED
  BY <1>1, <1>2, StillKeeps

(* A request given up may name other rows only where it would note that a
   pending place is forgotten.                                               *)
LEMMA LateUpsertKeeps ==
  ASSUME ConstantsAssumption, AppendInv, TypeInv', Kept, ~Spoiled',
         NEW entry \in late, entry[2].type = "upsert", Upsert(entry[2]),
         late' = late \ {entry}, UNCHANGED <<content, sheet, run, others>>
  PROVE  Kept'
<1> DEFINE req == entry[2]
<1>1. req \in Upserts
  BY DEF AppendInv, TypeInv, TypeOK, Request, Upserts
<1>2. RecordApart(req.new) /\ LateKeeps /\ RunKeeps /\ RunApart /\ OtherRow' = OtherRow
  BY ApartParts DEF AppendInv, Kept, LateApart, OtherRow
<1>3. Unwhole(req.new.snap)
  <2>1. SUFFICES ASSUME req.expected # None,
                        req.expected = record.version =>
                          \E k \in Team : /\ Absent(req.inv, k) /\ record.place[k] = Column
                                          /\ req.new.place[k] = None
                 PROVE  FALSE
    BY <1>2 DEF LateKeeps
  <2>2. PICK k \in Team : /\ Absent(req.inv, k) /\ record.place[k] = Column
                          /\ req.new.place[k] = None
    BY <2>1 DEF Upsert, Accepts
  <2>3. Column # None
    BY ConstantsAssumption DEF ConstantsAssumption, Column
  <2>4. k \in Forgets(req)
    BY <2>2, <2>3 DEF Forgets, Absent
  <2>5. "forgotten" \in past'
    BY <2>2, <2>4 DEF Upsert, Note
  <2> QED
    BY <2>5 DEF Spoiled, Had
<1> HIDE DEF req
<1>4. record'.version = record.version + 1 /\ record.version \in Nat
  BY <1>1 DEF Upsert, Upserted, Upserts, Submission, AppendInv, TypeInv, TypeOK, req
<1>5. RunKeeps' /\ RunApart'
  <2>1. run # None => ~Level'
    BY <1>4, RunTyped DEF Level, AppendInv, TypeInv, RunKnows
  <2>2. RunApart'
    BY <1>2 DEF RunApart, RecordApart, ItemsApart, PlacesApart, Processes
  <2>3. RunKeeps'
    BY <1>2, <2>1 DEF RunKeeps, Unwhole, Absent, Processes, Decides
  <2> QED
    BY <2>2, <2>3
<1>6. late' \subseteq late
  OBVIOUS
<1> QED
  BY <1>1, <1>2, <1>3, <1>5, <1>6, UpsertKeeps DEF req

LEMMA ApplyLateKeeps ==
  ASSUME ConstantsAssumption, AppendInv, TypeInv', Kept, ~Spoiled', ApplyLate
  PROVE  Kept'
<1>1. UNCHANGED <<content, run, over, shown, others, appends, faults, clicks>>
  BY DEF ApplyLate
<1>2. PICK entry \in late :
        /\ late' = late \ {entry}
        /\ \/ entry[2].type = "upsert" /\ Upsert(entry[2]) /\ UNCHANGED sheet
           \/ /\ entry[2].type = "append" /\ LastRow(sheet) < MaxRow
              /\ sheet' = Appended(sheet, entry[2].cell) /\ UNCHANGED record
           \/ /\ entry[2].type = "write" /\ sheet' = Written(sheet, entry[2].data)
              /\ UNCHANGED record
           \/ entry[2].type = "bind" /\ record' = Bind(entry[2].inv) /\ UNCHANGED sheet
  BY Zenon DEF ApplyLate
<1>3. /\ entry[2] \in Request /\ RecordOK /\ OthersStand
      /\ LateKeeps /\ LateApart /\ RunKeeps /\ RunApart
  BY <1>2, Parts, ApartParts DEF AppendInv, LateOK, Kept
<1>4. ASSUME Still, OthersStand' PROVE Kept'
  <2>1. OtherRow' = OtherRow /\ (Level' <=> Level)
    BY <1>1, <1>4 DEF OtherRow, Still, Level
  <2>2. RunApart'
    BY <1>1, <1>3, <2>1 DEF RunApart, RecordApart, ItemsApart, PlacesApart, Processes
  <2>3. RunKeeps'
    BY <1>1, <1>3, <1>4, <2>1 DEF RunKeeps, Still, Unwhole, Absent, Processes, Decides
  <2>4. \A e \in late' : e \in late
    BY <1>2
  <2> QED
    BY <1>4, <2>2, <2>3, <2>4, StillKeeps
<1>5. CASE entry[2].type = "upsert" /\ Upsert(entry[2]) /\ UNCHANGED sheet
  BY <1>1, <1>2, <1>5, LateUpsertKeeps
<1>6. CASE /\ entry[2].type = "append" /\ LastRow(sheet) < MaxRow
           /\ sheet' = Appended(sheet, entry[2].cell) /\ UNCHANGED record
  <2>1. sheet \in [Row -> Cell] /\ others \subseteq Row \X Cell
    BY DEF AppendInv, TypeInv, TypeOK
  <2>2. \A o \in others : o[1] \in Row /\ sheet[o[1]] # Blank
    BY <1>3, <2>1, FreshRows DEF OtherRow, AppendInv
  <2>3. \A o \in others : sheet'[o[1]] = sheet[o[1]]
    BY <1>6, <2>1, <2>2, AppendedKeeps
  <2>4. OthersStand'
    BY <1>1, <1>3, <2>3 DEF OthersStand
  <2>5. Still
    BY <1>1, <1>6 DEF Still
  <2> QED
    BY <1>4, <2>4, <2>5
<1>7. CASE /\ entry[2].type = "write" /\ sheet' = Written(sheet, entry[2].data)
           /\ UNCHANGED record
  <2>1. Unwhole(entry[2].data) /\ ItemsApart(entry[2].data)
    BY <1>3, <1>7 DEF LateKeeps, LateApart
  <2>2. OthersStand'
    BY <1>1, <1>3, <1>7, <2>1, WriteStands DEF AppendInv
  <2>3. Still
    BY <1>1, <1>7 DEF Still
  <2> QED
    BY <1>4, <2>2, <2>3
<1>8. CASE entry[2].type = "bind" /\ record' = Bind(entry[2].inv) /\ UNCHANGED sheet
  <2>1. entry[2].inv \in Invocation
    BY <1>3, <1>8 DEF Request, Upserts
  <2>2. Still
    BY <1>1, <1>3, <1>8, <2>1, BindTyped DEF Still
  <2>3. OthersStand'
    BY <1>1, <1>3, <1>8 DEF OthersStand
  <2> QED
    BY <1>4, <2>2, <2>3
<1> QED
  BY <1>2, <1>5, <1>6, <1>7, <1>8

(* Another message's row comes after the last one, and names nothing of this
   message unless it is noted as reused.                                     *)
LEMMA OtherAppendsKeeps ==
  ASSUME ConstantsAssumption, AppendInv, TypeInv', Kept, ~Spoiled', OtherAppends
  PROVE  Kept'
<1> DEFINE row == LastRow(sheet) + 1
<1>1. /\ LastRow(sheet) < MaxRow /\ sheet' = Appended(sheet, Other)
      /\ others' = others \union {<<row, Other>>}
      /\ UNCHANGED <<content, record, run, late>>
  BY DEF OtherAppends
<1>2. row \notin Mentioned
  <2>1. row \in Mentioned => "reused" \in past'
    BY DEF OtherAppends, Note
  <2> QED
    BY <2>1 DEF Spoiled, Had
<1>3. Mentioned' = Mentioned
  BY <1>1 DEF Mentioned, RowsHeld, RowsAsked, RowsOf, RowsIn
<1>4. sheet \in [Row -> Cell] /\ others \subseteq Row \X Cell
  BY DEF AppendInv, TypeInv, TypeOK
<1>5. \A o \in others : o[1] \in Row /\ sheet[o[1]] # Blank
  BY <1>4, FreshRows DEF OtherRow, AppendInv, Kept
<1>6. (\A o \in others : sheet'[o[1]] = sheet[o[1]]) /\ sheet'[row] = Other
  BY <1>1, <1>4, <1>5, AppendedKeeps
<1> HIDE DEF row
<1>7. OtherRow' = OtherRow \union {row}
  <2>1. \A o \in others' : o \in others \/ o = <<row, Other>>
    BY <1>1
  <2>2. others \subseteq others' /\ <<row, Other>> \in others'
    BY <1>1
  <2> QED
    BY <2>1, <2>2 DEF OtherRow
<1>8. (Mentioned \intersect OtherRow)' = {}
  BY <1>2, <1>3, <1>7 DEF Kept
<1>9. OthersStand'
  <2>1. ASSUME NEW o \in others'
        PROVE  /\ o[2] \in {Other} \union [team: Team, value: Value, marked: {FALSE}]
               /\ sheet'[o[1]] = o[2]
    <3>1. CASE o \in others
      BY <1>6, <3>1 DEF Kept, OthersStand
    <3>2. CASE o = <<row, Other>>
      BY <1>6, <3>2
    <3> QED
      BY <1>1, <3>1, <3>2
  <2> QED
    BY <2>1 DEF OthersStand
<1>10. Unwhole(record.snap)' /\ RunKeeps' /\ LateKeeps'
  BY <1>1 DEF Kept, Unwhole, RunKeeps, LateKeeps, Level, Absent, Processes, Decides
<1> QED
  BY <1>8, <1>9, <1>10 DEF Kept

LEMMA StutterKeeps ==
  ASSUME AppendInv, TypeInv', Kept, UNCHANGED vars
  PROVE  Kept'
<1>1. Still /\ UNCHANGED <<run, late, sheet>>
  BY DEF Still, vars, world
<1>2. OthersStand' /\ OtherRow' = OtherRow /\ RunKeeps /\ RunApart
  BY <1>1, ApartParts DEF Kept, OthersStand, Still, OtherRow, AppendInv
<1>3. RunApart'
  BY <1>1, <1>2 DEF RunApart, RecordApart, ItemsApart, PlacesApart, Processes
<1>4. RunKeeps'
  BY <1>1, <1>2 DEF RunKeeps, Still, Unwhole, Absent, Processes, Decides, Level
<1> QED
  BY <1>1, <1>2, <1>3, <1>4, StillKeeps

LEMMA NextKeeps ==
  ASSUME ConstantsAssumption, KeptInv, [Next]_vars
  PROVE  KeptInv'
<1>1. AppendInv /\ AppendInv' /\ TypeInv' /\ (Spoiled => Spoiled')
  BY NextKnows, PastGrows DEF KeptInv, AppendInv, Spoiled, Had
<1>2. CASE Spoiled'
  BY <1>1, <1>2 DEF KeptInv
<1>3. CASE Kept /\ ~Spoiled'
  <2> SUFFICES Kept'
    BY <1>1 DEF KeptInv
  <2>1. CASE ProcessStep
    <3>1. CASE \E i \in Invocation : Start(i)
      BY <1>1, <1>3, <3>1, StartKeeps
    <3>2. CASE \E k \in Team : ProcessEntry(k)
      BY <1>1, <1>3, <3>2, AdoptKeeps, BeforeAppendKeeps, RequestKeeps, ReadFailsKeeps
         DEF ProcessEntry
    <3>3. CASE PersistAppended \/ PersistApplying \/ PersistTerminal
      BY <1>1, <1>3, <3>3, PersistAppendedKeeps, PersistApplyingKeeps, PersistTerminalKeeps
    <3>4. CASE ReadSnapshot \/ SetConfirmation \/ EnableButtons
      BY <1>1, <1>3, <3>4, ReadSnapshotKeeps, ConfirmationKeeps
    <3> QED
      BY <2>1, <3>1, <3>2, <3>3, <3>4 DEF ProcessStep
  <2>2. CASE DecideStep
    <3>1. ASSUME NEW i \in Invocation, Confirm(i) \/ Reject(i)
          PROVE  Kept'
      BY <1>1, <1>3, <3>1, DecidesRecorded, DecideKeeps
    <3> QED
      BY <1>1, <1>3, <2>2, <3>1, PersistDecisionKeeps, RestoreKeeps, CheckRestoredKeeps
         DEF DecideStep
  <2>3. CASE Write \/ ReadBackWrite \/ End \/ Interrupt
    BY <1>1, <1>3, <2>3, WriteKeeps, ReadBackWriteKeeps, StopKeeps
  <2>4. CASE ApplyLate \/ OtherAppends \/ UNCHANGED vars
    BY <1>1, <1>3, <2>4, ApplyLateKeeps, OtherAppendsKeeps, StutterKeeps
  <2> QED
    BY <2>1, <2>2, <2>3, <2>4 DEF Next
<1> QED
  BY <1>1, <1>2, <1>3 DEF KeptInv

(* Rows of other messages stay what they are, whatever this message's
   operations write, blank and roll back, in any order and however late,
   unless a team was adopted from such a row, a pending place was forgotten or
   a row still named was reused.  Everything that may be written is named by
   the record, by the operation or by a request given up, and none of them
   names another message's row; a place that is still pending names the whole
   column, and nothing that names the column is ever written.                *)
THEOREM KeepsOthers == Spec => []OthersKept
<1>1. Init => KeptInv
  BY InitKept, ConstantsAssumption
<1>2. KeptInv /\ [Next]_vars => KeptInv'
  BY NextKeeps, ConstantsAssumption
<1>3. KeptInv => OthersKept
  BY DEF KeptInv, Kept, OthersStand, OthersKept, Spoiled
<1> QED
  BY <1>1, <1>2, <1>3, PTL DEF Spec

-----------------------------------------------------------------------------
(* The record tells the truth.  Rows that are not blank stay, until something
   is written.                                                               *)
Stands(s, t) == \A r \in Row : s[r] # Blank => t[r] = s[r]

LEMMA StandsHold ==
  ASSUME NEW s, NEW t, Stands(s, t)
  PROVE  /\ \A r \in Row : \A k : HoldsTeam(s, r, k) => HoldsTeam(t, r, k)
         /\ \A place : HoldsTeams(s, place) => HoldsTeams(t, place)
         /\ \A rec : HoldsTeams(s, rec.place) /\ HoldsEntries(s, rec) => HoldsEntries(t, rec)
         /\ \A rec : Truthful(s, rec) => Truthful(t, rec)
<1>1. Blank \notin Entry
  BY CellAssumption DEF CellAssumption
<1>2. \A r \in Row : \A k : HoldsTeam(s, r, k) => t[r] = s[r] /\ HoldsTeam(t, r, k)
  BY <1>1 DEF HoldsTeam, Stands
<1>3. \A place : HoldsTeams(s, place) => HoldsTeams(t, place)
  BY <1>2 DEF HoldsTeams
<1>4. \A rec : HoldsTeams(s, rec.place) /\ HoldsEntries(s, rec) => HoldsEntries(t, rec)
  BY <1>2 DEF HoldsTeams, HoldsEntries
<1>5. Concluded \subseteq Live
  BY DEF Concluded, Live, Editable
<1> QED
  BY <1>2, <1>3, <1>4, <1>5 DEF Truthful

LEMMA AppendStands ==
  ASSUME ConstantsAssumption, TypeInv, NEW cell, LastRow(sheet) < MaxRow
  PROVE  Stands(sheet, Appended(sheet, cell))
BY AppendedKeeps DEF Stands, TypeInv, TypeOK

(* The steps that leave what the record says.                                *)
Unsaid ==
  /\ record'.version = record.version /\ record'.place = record.place
  /\ record'.status = record.status /\ record'.entries = record.entries
  /\ content' = content

LEMMA UnsaidTells ==
  ASSUME Told, Unsaid, Stands(sheet, sheet'), RunTells', WriteTells',
         Writing' => Writing \/ record.status \notin Editable,
         \A entry \in late' : entry \in late \/ entry[2].type # "upsert"
  PROVE  Told'
<1>1. Truthful(sheet', record')
  <2>1. Truthful(sheet', record)
    BY StandsHold DEF Told
  <2> QED
    BY <2>1 DEF Truthful, HoldsTeams, HoldsEntries, Unsaid
<1>2. LateTells'
  <2>1. ASSUME NEW entry \in late', entry[2].type = "upsert"
        PROVE  /\ entry[2].expected = None => Rowless(entry[2].new)
               /\ entry[2].expected = record'.version /\ entry[2].new.status \in Live =>
                    record'.status \in Editable /\ Truthful(sheet', entry[2].new) /\ ~Writing'
    <3>1. entry \in late
      BY <2>1
    <3>2. /\ entry[2].expected = None => Rowless(entry[2].new)
          /\ entry[2].expected = record.version /\ entry[2].new.status \in Live =>
               record.status \in Editable /\ Truthful(sheet, entry[2].new) /\ ~Writing
      BY <2>1, <3>1 DEF Told, LateTells
    <3>3. Truthful(sheet, entry[2].new) => Truthful(sheet', entry[2].new)
      BY StandsHold
    <3> QED
      BY <3>2, <3>3 DEF Unsaid
  <2> QED
    BY <2>1 DEF LateTells, Rowless
<1> QED
  BY <1>1, <1>2 DEF Told

LEMMA MoveTells ==
  ASSUME ConstantsAssumption, AppendInv, Told, run # None, Unsaid, NEW pc, run' = To(pc),
         Processes => pc \in ProcessPc,
         Decides => pc \in DecidePc /\ pc # "confirm",
         Processes /\ pc \notin EndPc =>
           /\ run.pc \notin EndPc /\ pc # "applying"
           /\ pc \in EntryPc \ {"entry"} => run.version # 0
           /\ pc \in Opening => run.pc \in Opening /\ Stands(sheet, sheet')
           /\ pc \in WritePc => run.pc \in WritePc
           /\ pc = "terminal" => \A k \in run.registered : sheet'[run.place[k]] = Clean(k),
         pc \in WritePc \union {"restore"} => Writing
  PROVE  RunTells' /\ WriteTells' /\ (Writing' => Writing)
<1>1. CASE Processes
  <2>1. /\ run' \in ProcessRun /\ run'.pc = pc /\ KeptBut(run') /\ KeptProcess(run')
    BY <1>1, ToProcess, RunTyped DEF AppendInv, TypeInv
  <2>2. run' # None /\ Processes' /\ ~Decides'
    BY <1>1, <2>1, NoneAssumption DEF KeptBut, Processes, Decides
  <2>3. Level' <=> Level
    BY <2>1 DEF KeptBut, Unsaid, Level
  <2>4. ASSUME pc \notin EndPc
        PROVE  ProcessTells'
    <3>1. ProcessTells
      BY <1>1, <2>4 DEF Told, RunTells
    <3>2. run'.pc \in Opening => RowsApart'
      <4>1. ASSUME pc \in Opening
            PROVE  RowsApart /\ Stands(sheet, sheet')
        BY <1>1, <2>4, <3>1, <4>1 DEF ProcessTells
      <4>2. ASSUME pc \in Opening
            PROVE  /\ HoldsTeams(sheet', run.place) /\ HoldsTeams(sheet', run.old.place)
                   /\ \A k \in run.registered :
                        run.place[k] \notin run.dups[k] /\ \A r \in run.dups[k] : HoldsTeam(sheet', r, k)
        <5>1. \A k \in run.registered : run.dups[k] \subseteq Row
          BY <1>1, RunTyped DEF AppendInv, TypeInv, ProcessRun
        <5> QED
          BY <4>1, <4>2, <5>1, StandsHold DEF RowsApart
      <4> QED
        BY <2>1, <4>2 DEF RowsApart, KeptBut, KeptProcess
    <3>3. WritesTeams => WritesTeams'
      BY <2>1 DEF WritesTeams, KeptBut, KeptProcess, Clean, Unsaid
    <3>4. run'.pc = "terminal" => \A k \in run'.registered : sheet'[run'.place[k]] = Clean(k)'
      BY <1>1, <2>1, <2>4 DEF KeptBut, KeptProcess, Clean, Unsaid
    <3>5. /\ run'.version = 0 =>
               /\ run'.registered = {} /\ run'.pc \notin EntryPc \ {"entry"}
               /\ \A k \in Team : run'.place[k] = None
          /\ Level' => record'.status \in Editable
          /\ \A k \in Team : Absent(run.inv, k)' => run'.place[k] = run'.old.place[k]
          /\ run'.pc \in Opening /\ Level' =>
               \A k \in Team : Absent(run.inv, k)' => record'.place[k] = run'.old.place[k]
          /\ run'.pc # "applying"
          /\ run'.pc \in WritePc => WritesTeams
      BY <1>1, <2>1, <2>3, <2>4, <3>1 DEF ProcessTells, KeptBut, KeptProcess, Unsaid, Absent
    <3> QED
      BY <3>2, <3>3, <3>4, <3>5 DEF ProcessTells
  <2>5. Writing' => Writing
    BY <2>1 DEF Writing
  <2>6. WriteTells'
    BY <1>1, <2>1, <2>2, <2>3, <2>5
       DEF WriteTells, Told, Unsaid, Rowless, Places, KeptBut, KeptProcess
  <2> QED
    BY <2>1, <2>2, <2>4, <2>5, <2>6 DEF RunTells
<1>2. CASE Decides
  <2>1. run' \in DecideRun /\ run'.pc = pc /\ KeptBut(run')
    BY <1>2, ToDecide, RunTyped DEF AppendInv, TypeInv
  <2>2. run' # None /\ Decides' /\ ~Processes' /\ ~Processes
    BY <1>2, <2>1, NoneAssumption DEF KeptBut, Processes, Decides
  <2>3. Writing' => Writing
    BY <2>1 DEF Writing
  <2>4. WriteTells'
    BY <2>2, <2>3 DEF WriteTells, Told, Unsaid, Rowless
  <2> QED
    BY <1>2, <2>1, <2>2, <2>3, <2>4 DEF RunTells
<1> QED
  BY <1>1, <1>2, RunTyped DEF AppendInv, TypeInv

(* A team is registered with rows that hold its entries.                     *)
LEMMA RegisteredTells ==
  ASSUME ConstantsAssumption, AppendInv, Told, Processes, run.pc \in EntryPc, run.version # 0,
         Unsaid, Stands(sheet, sheet'),
         NEW rows, rows \subseteq Row, rows # {}, \A r \in rows : HoldsTeam(sheet', r, run.team),
         \/ run' = RegisterAppended(run.team, rows)
         \/ run' = Onward(Register(run.team, rows))
  PROVE  RunTells' /\ WriteTells' /\ ~Writing'
<1>1. /\ run \in ProcessRun /\ run.team \in Team /\ ~Absent(run.inv, run.team)
      /\ run.place \in [Team -> Place] /\ run.dups \in [Team -> SUBSET Row]
      /\ run.registered \subseteq Team
  BY AtTeamFacts DEF AppendInv, ProcessRun, Absent
<1>2. Min(rows) \in rows
  BY MinRow
<1>3. /\ run' # None /\ KeptBut(run') /\ run'.op = "process"
      /\ run'.pc \in {"interim", "entry", "data"}
      /\ run'.registered = run.registered \union {run.team}
      /\ run'.place = [run.place EXCEPT ![run.team] = Min(rows)]
      /\ run'.dups = [run.dups EXCEPT ![run.team] = rows \ {Min(rows)}]
  BY RegisteredMoves
<1>4. /\ Processes' /\ ~Decides' /\ run.pc \in Opening /\ ~Writing'
      /\ run'.pc \notin WritePc \union EndPc \union {"terminal", "applying"}
      /\ run.pc \notin EndPc
  BY <1>3 DEF Processes, Decides, Opening, EntryPc, WritePc, EndPc, Writing
<1>5. ProcessTells /\ RowsApart
  BY <1>4 DEF Told, RunTells, ProcessTells
<1>6. RowsApart'
  <2>1. HoldsTeams(sheet', run.place) /\ HoldsTeams(sheet', run.old.place)
    BY <1>5, StandsHold DEF RowsApart
  <2>2. HoldsTeams(sheet', run'.place)
    BY <1>1, <1>2, <1>3, <2>1 DEF HoldsTeams
  <2>3. ASSUME NEW k \in run'.registered
        PROVE  run'.place[k] \notin run'.dups[k] /\ \A r \in run'.dups[k] : HoldsTeam(sheet', r, k)
    <3>1. CASE k = run.team
      <4>1. run'.place[k] = Min(rows) /\ run'.dups[k] = rows \ {Min(rows)}
        BY <1>1, <1>3, <3>1
      <4> QED
        BY <3>1, <4>1
    <3>2. CASE k # run.team
      <4>1. /\ k \in run.registered /\ run'.place[k] = run.place[k] /\ run'.dups[k] = run.dups[k]
            /\ run.dups[k] \subseteq Row
        BY <1>1, <1>3, <2>3, <3>2
      <4> QED
        BY <1>5, <4>1, StandsHold DEF RowsApart
    <3> QED
      BY <3>1, <3>2
  <2> QED
    BY <1>3, <2>1, <2>2, <2>3 DEF RowsApart, KeptBut
<1>7. ProcessTells'
  <2>1. (Level' <=> Level) /\ run'.version # 0
    BY <1>3 DEF KeptBut, Unsaid, Level
  <2>2. \A k \in Team : Absent(run.inv, k)' => run'.place[k] = run'.old.place[k]
    BY <1>1, <1>3, <1>5 DEF ProcessTells, Unsaid, KeptBut, Absent
  <2>3. Level' => record'.status \in Editable
    BY <1>5, <2>1 DEF ProcessTells, Unsaid
  <2>4. Level' => \A k \in Team : Absent(run.inv, k)' => record'.place[k] = run'.old.place[k]
    BY <1>3, <1>4, <1>5, <2>1 DEF ProcessTells, Unsaid, KeptBut, Absent
  <2> QED
    BY <1>4, <1>6, <2>1, <2>2, <2>3, <2>4 DEF ProcessTells
<1> QED
  BY <1>4, <1>7 DEF RunTells, WriteTells

(* The rows an entry is found in, and the row of an append, hold the team.   *)
LEMMA HeldRows ==
  ASSUME ConstantsAssumption, TypeInv, Processes, NEW k \in Team, content[run.inv][k] # None
  PROVE  /\ Marked(k) \in Entry /\ Clean(k) \in Entry
         /\ Marked(k).team = k /\ Clean(k).team = k
         /\ \A r \in Found(k) : HoldsTeam(sheet, r, k)
         /\ \A r \in RowsWith(Marked(k)) : HoldsTeam(sheet, r, k)
<1>1. content[run.inv][k] \in Value
  BY RunTyped DEF TypeInv, TypeOK
<1>2. /\ Marked(k) \in Entry /\ Clean(k) \in Entry
      /\ Marked(k).team = k /\ Clean(k).team = k
  BY <1>1 DEF Marked, Clean, Entry
<1>3. \A r \in RowsWith(Marked(k)) \union RowsWith(Clean(k)) : HoldsTeam(sheet, r, k)
  BY <1>2 DEF RowsWith, HoldsTeam
<1> QED
  BY <1>2, <1>3 DEF Found

LEMMA FindTells ==
  ASSUME ConstantsAssumption, AppendInv, Told, NEW k \in Team,
         ResolveMapped(k) \/ Reconcile(k) \/ ReadBackAppend(k)
  PROVE  Told'
<1>1. /\ run # None /\ run.pc \in EntryPc /\ k = run.team /\ UNCHANGED <<sheet, late>> /\ Unsaid
  BY DEF ResolveMapped, Reconcile, ReadBackAppend, AtEntry, Continue, Adopt, EntryPc, world, Unsaid
<1>2. Processes /\ TypeInv /\ content[run.inv][k] # None /\ run.pc \notin EndPc \union {"restore"}
  BY <1>1, RunTyped, AtTeamFacts
     DEF AppendInv, TypeInv, DecidePc, WritePc, EndPc, EntryPc
<1>3. ProcessTells /\ RowsApart
  BY <1>1, <1>2 DEF Told, RunTells, ProcessTells, Opening
<1>4. Stands(sheet, sheet')
  BY <1>1 DEF Stands
<1>5. run.version # 0
  <2>1. CASE run.pc = "entry" /\ run.old.place[k] # None
    <3>1. run.place[k] = run.old.place[k]
      BY <1>1, <1>2, <2>1 DEF AppendInv, RunKnows, GoneThrough, Processes, EntryPc, EndPc
    <3> QED
      BY <1>3, <2>1, <3>1 DEF ProcessTells
  <2>2. CASE run.pc \in {"reconcile", "readback"}
    BY <1>3, <2>2 DEF ProcessTells, EntryPc
  <2>3. None \notin Row /\ Column # None
    BY ConstantsAssumption DEF ConstantsAssumption, Row, Column
  <2> QED
    BY <2>1, <2>2, <2>3 DEF ResolveMapped, Reconcile, ReadBackAppend, AtEntry
<1>6. \/ run' = Failed
      \/ /\ run.old.place[k] \in Row
         /\ run' = Onward(Register(k, {run.old.place[k]}))
      \/ \E rows \in SUBSET Row :
           /\ rows # {} /\ (rows = Found(k) \/ rows = RowsWith(Marked(k)))
           /\ run' = RegisterAppended(k, rows)
  <2>1. Found(k) # {} => Found(k) \in SUBSET Row
    BY FoundTyped
  <2>2. RowsWith(Marked(k)) \in SUBSET Row
    BY DEF RowsWith
  <2>3. CASE ResolveMapped(k) \/ Reconcile(k)
    BY <2>1, <2>3 DEF ResolveMapped, Reconcile, Continue, Adopt
  <2>4. CASE ReadBackAppend(k)
    BY <2>2, <2>4 DEF ReadBackAppend, Continue, Adopt
  <2> QED
    BY <2>3, <2>4
<1>7. RunTells' /\ WriteTells' /\ ~Writing'
  <2>1. CASE run' = Failed
    <3>1. run' = To("failed") /\ ~Writing
      BY <1>1, <2>1 DEF Failed, To, Writing, EntryPc, WritePc
    <3> QED
      BY <1>1, <1>2, <3>1, MoveTells DEF AppendInv, ProcessPc, EndPc, WritePc, Processes, Decides
  <2>2. CASE run.old.place[k] \in Row /\ run' = Onward(Register(k, {run.old.place[k]}))
    <3>1. HoldsTeam(sheet', run.old.place[k], k)
      BY <1>1, <1>3, <2>2 DEF RowsApart, HoldsTeams
    <3> QED
      BY <1>1, <1>2, <1>4, <1>5, <2>2, <3>1, RegisteredTells
  <2>3. ASSUME NEW rows \in SUBSET Row, rows # {}, rows = Found(k) \/ rows = RowsWith(Marked(k)),
               run' = RegisterAppended(k, rows)
        PROVE  RunTells' /\ WriteTells' /\ ~Writing'
    <3>1. \A r \in rows : HoldsTeam(sheet', r, k)
      BY <1>1, <1>2, <2>3, HeldRows
    <3> QED
      BY <1>1, <1>2, <1>4, <1>5, <2>3, <3>1, RegisteredTells
  <2> QED
    BY <1>6, <2>1, <2>2, <2>3
<1> QED
  BY <1>1, <1>4, <1>7, UnsaidTells

LEMMA RequestTells ==
  ASSUME ConstantsAssumption, AppendInv, Told, NEW k \in Team, RequestAppend(k)
  PROVE  Told'
<1> DEFINE row == LastRow(sheet) + 1
<1>1. /\ run # None /\ run.pc = "append" /\ k = run.team /\ LastRow(sheet) < MaxRow /\ Unsaid
      /\ \/ sheet' = Appended(sheet, Marked(k)) /\ run' = RegisterAppended(k, {row})
         \/ /\ sheet' = sheet \/ sheet' = Appended(sheet, Marked(k))
            /\ \E pc \in {"reconcile", "readback", "failed"} : run' = To(pc)
      /\ UNCHANGED late \/ GiveUp([type |-> "append", cell |-> Marked(k)])
  BY DEF RequestAppend, Unsaid, Failed, To
<1>2. Processes /\ TypeInv /\ content[run.inv][k] # None
  BY <1>1, RunTyped, AtTeamFacts
     DEF AppendInv, TypeInv, DecidePc, WritePc, EndPc, EntryPc
<1>3. run.version # 0 /\ ~Writing
  BY <1>1, <1>2 DEF Told, RunTells, ProcessTells, EntryPc, EndPc, Writing, WritePc
<1>4. Stands(sheet, sheet')
  <2>1. sheet' = sheet => Stands(sheet, sheet')
    BY DEF Stands
  <2> QED
    BY <1>1, <1>2, <2>1, AppendStands
<1>5. \A entry \in late' : entry \in late \/ entry[2].type # "upsert"
  <2>1. PICK req : req = [type |-> "append", cell |-> Marked(k)]
    OBVIOUS
  <2>2. UNCHANGED late \/ GiveUp(req)
    BY <1>1, <2>1
  <2>3. req.type # "upsert"
    BY <2>1
  <2> QED
    BY <2>2, <2>3 DEF GiveUp
<1>6. RunTells' /\ WriteTells' /\ ~Writing'
  <2>1. CASE sheet' = Appended(sheet, Marked(k)) /\ run' = RegisterAppended(k, {row})
    <3>1. row \in Row /\ sheet'[row] = Marked(k)
      BY <1>1, <1>2, <2>1, AppendedKeeps DEF TypeInv, TypeOK
    <3>2. HoldsTeam(sheet', row, k)
      BY <1>2, <3>1, HeldRows DEF HoldsTeam
    <3> HIDE DEF row
    <3>3. \A r \in {row} : HoldsTeam(sheet', r, run.team)
      BY <1>1, <3>2
    <3>4. {row} \subseteq Row /\ {row} # {} /\ run.pc \in EntryPc
      BY <1>1, <3>1 DEF EntryPc
    <3> QED
      BY <1>1, <1>2, <1>3, <1>4, <2>1, <3>3, <3>4, RegisteredTells
  <2>2. ASSUME NEW pc \in {"reconcile", "readback", "failed"}, run' = To(pc)
        PROVE  RunTells' /\ WriteTells' /\ ~Writing'
    <3>1. run.pc \in Opening /\ run.pc \notin EndPc
      BY <1>1 DEF Opening, EntryPc, EndPc
    <3>2. pc \in ProcessPc /\ pc # "applying" /\ pc # "terminal" /\ pc \notin WritePc \union {"restore"}
      BY <2>2 DEF ProcessPc, EntryPc, EndPc, WritePc
    <3> QED
      BY <1>1, <1>2, <1>3, <1>4, <2>2, <3>1, <3>2, MoveTells DEF Processes, Decides
  <2> QED
    BY <1>1, <2>1, <2>2
<1> QED
  BY <1>1, <1>4, <1>5, <1>6, UnsaidTells

LEMMA ReadFailsTells ==
  ASSUME ConstantsAssumption, AppendInv, Told, run # None, run.pc \notin WritePc, ReadFails
  PROVE  Told'
<1>1. Unsaid /\ UNCHANGED <<sheet, late>> /\ run' = To("failed")
  BY DEF ReadFails, world, Unsaid, Failed, To
<1>2. RunTells' /\ WriteTells' /\ (Writing' => Writing)
  BY <1>1, MoveTells DEF ProcessPc, DecidePc, EndPc, WritePc
<1> QED
  BY <1>1, <1>2, UnsaidTells DEF Stands

LEMMA StartTells ==
  ASSUME ConstantsAssumption, AppendInv, Told, NEW i \in Invocation, Start(i)
  PROVE  Told'
<1>1. run = None /\ Unsaid /\ UNCHANGED <<sheet, late>>
  BY DEF Start, world, Unsaid
<1>2. RunTells' /\ WriteTells' /\ ~Writing'
  <2>1. CASE run' = None
    BY <2>1 DEF RunTells, WriteTells, Writing, Processes, Decides
  <2>2. CASE run' # None
    <3>1. /\ record.status \in Editable
          /\ run' = [op |-> "process", inv |-> i, pc |-> AtTeam(i, 1), team |-> NextTeam(i, 1),
                     old |-> record, version |-> record.version, place |-> record.place,
                     undo |-> record.snap, dups |-> [k \in Team |-> {}],
                     registered |-> {}, appended |-> {}, snap |-> {}, data |-> {}]
      BY <1>1, <2>2 DEF Start
    <3>2. /\ run'.op = "process" /\ run'.inv = i /\ run'.pc \in {"entry", "data"}
          /\ run'.old = record /\ run'.version = record.version /\ run'.place = record.place
          /\ run'.registered = {}
      BY <3>1 DEF AtTeam
    <3>3. HoldsTeams(sheet, record.place)
      BY <3>1 DEF Told, Truthful, Live
    <3>4. record.version = 0 => \A k \in Team : record.place[k] = None
      BY DEF AppendInv, TypeInv, TypeOK, Missing
    <3>5. RowsApart'
      BY <1>1, <3>2, <3>3 DEF RowsApart
    <3>6. ProcessTells'
      BY <1>1, <3>1, <3>2, <3>4, <3>5
         DEF ProcessTells, Unsaid, WritePc, Level, EntryPc
    <3>7. ~Writing' /\ ~Decides'
      BY <3>2 DEF Writing, WritePc, Decides
    <3> QED
      BY <3>6, <3>7 DEF RunTells, WriteTells
  <2> QED
    BY <2>1, <2>2
<1> QED
  BY <1>1, <1>2, UnsaidTells DEF Stands

(* A record that replaces the one stored.  A pending place that it drops was
   not the record's, and the requests given up are behind it.                *)
Recorded(new, next) ==
  /\ record' = [new EXCEPT !.version = record.version + 1]
  /\ run' = [next EXCEPT !.version = @ + 1]
  /\ run.version = 0 \/ Level
  /\ run.version # 0 =>
       \A k \in Team : Absent(run.inv, k) /\ new.place[k] = None => record.place[k] # Column

LEMMA UpsertTells ==
  ASSUME ConstantsAssumption, AppendInv, Told, NEW req \in Upserts, Upsert(req),
         Truthful(sheet, req.new), late' \subseteq late, sheet' = sheet,
         RunTells', WriteTells'
  PROVE  Told'
<1>1. /\ record' = [req.new EXCEPT !.version = record.version + 1] /\ req.new \in Submission
      /\ record.version \in Nat /\ LateKnows /\ LateTells /\ None \notin Nat
  BY ConstantsAssumption
     DEF AppendInv, TypeInv, TypeOK, Submission, Upsert, Upserted, Upserts, Told, ConstantsAssumption
<1>2. /\ record'.version = record.version + 1 /\ record'.status = req.new.status
      /\ record'.place = req.new.place /\ record'.entries = req.new.entries
  BY <1>1 DEF Submission
<1>3. Truthful(sheet', record')
  BY <1>2 DEF Truthful, HoldsTeams, HoldsEntries
<1>4. LateTells'
  <2>1. ASSUME NEW entry \in late', entry[2].type = "upsert"
        PROVE  /\ entry[2].expected = None => Rowless(entry[2].new)
               /\ entry[2].expected # record.version + 1
    <3>1. /\ entry[2].expected = None => Rowless(entry[2].new)
          /\ entry[2].expected = None \/ entry[2].expected \in 1..record.version
      BY <1>1, <2>1 DEF LateKnows, LateTells
    <3>2. entry[2].expected \in 1..record.version => entry[2].expected # record.version + 1
      BY <1>1
    <3>3. record.version + 1 \in Nat
      BY <1>1
    <3> QED
      BY <1>1, <3>1, <3>2, <3>3
  <2> QED
    BY <1>2, <2>1 DEF LateTells, Rowless
<1> QED
  BY <1>3, <1>4 DEF Told

LEMMA PersistTells ==
  ASSUME ConstantsAssumption, AppendInv, Told, ~Misled', run # None, run.pc \notin WritePc,
         NEW new \in Submission, NEW next, Persist(new, next),
         Truthful(sheet, new), run.version = 0 => Rowless(new),
         Level /\ new.status \in Live => record.status \in Editable,
         Recorded(new, next) /\ UNCHANGED <<content, sheet>> => RunTells' /\ WriteTells'
  PROVE  Told'
<1> DEFINE req == [type |-> "upsert", inv |-> run.inv, new |-> new,
                   expected |-> IF run.version = 0 THEN None ELSE run.version]
<1>1. /\ run.inv \in Invocation /\ run.version \in Nat /\ None \notin Nat /\ Column # None
      /\ record.version \in Nat /\ run.version <= record.version
  BY RunTyped, ConstantsAssumption
     DEF AppendInv, TypeInv, TypeOK, ConstantsAssumption, Column, RunKnows, Submission
<1>2. /\ req \in Upserts /\ req.new = new /\ req.type = "upsert" /\ req.inv = run.inv
      /\ req.expected = IF run.version = 0 THEN None ELSE run.version
  BY <1>1 DEF Upserts
<1>3. /\ \/ UNCHANGED <<late, faults>> /\ Upsert(req)
            /\ run' = [next EXCEPT !.version = @ + 1]
         \/ ~Accepts(req) /\ run' = Failed
            /\ UNCHANGED <<record, removals, before, past, late, faults>>
         \/ Fault /\ UNCHANGED late /\ Upsert(req) /\ run' = Failed
         \/ Fault /\ GiveUp(req) /\ run' = Failed /\ UNCHANGED <<record, removals, before, past>>
      /\ UNCHANGED <<content, sheet, over, shown, others, appends, clicks>>
  BY Zenon DEF Persist
<1> HIDE DEF req
<1>4. run' = Failed => RunTells' /\ WriteTells' /\ ~Writing'
  <2>1. ASSUME run' = Failed
        PROVE  run'.op = run.op /\ run'.pc = "failed"
    <3>1. CASE Processes
      BY <2>1, <3>1, RunTyped DEF Failed, ProcessRun, AppendInv, TypeInv
    <3>2. CASE Decides
      BY <2>1, <3>2, RunTyped DEF Failed, DecideRun, AppendInv, TypeInv
    <3> QED
      BY <3>1, <3>2, RunTyped DEF AppendInv, TypeInv
  <2> QED
    BY <2>1 DEF RunTells, WriteTells, Writing, EndPc, WritePc
<1>5. CASE Upsert(req) /\ UNCHANGED late /\ run' = Failed
  BY <1>2, <1>3, <1>4, <1>5, UpsertTells
<1>6. CASE Upsert(req) /\ UNCHANGED late /\ run' = [next EXCEPT !.version = @ + 1]
  <2>0. record' = [new EXCEPT !.version = record.version + 1]
    BY <1>2, <1>6 DEF Upsert, Upserted
  <2>1. run.version = 0 \/ Level
    <3>1. req.expected = None \/ req.expected = record.version
      BY <1>6 DEF Upsert, Accepts
    <3> QED
      BY <1>1, <1>2, <3>1 DEF Level
  <2>2. ASSUME run.version # 0, NEW k \in Team, Absent(run.inv, k), new.place[k] = None,
               record.place[k] = Column
        PROVE  FALSE
    <3>1. k \in Forgets(req)
      BY <1>1, <1>2, <2>2 DEF Forgets, Absent
    <3> QED
      BY <1>6, <2>2, <3>1 DEF Upsert, Note, Misled, Had
  <2>3. RunTells' /\ WriteTells'
    BY <1>3, <1>6, <2>0, <2>1, <2>2 DEF Recorded
  <2> QED
    BY <1>2, <1>3, <1>6, <2>3, UpsertTells
<1>7. CASE UNCHANGED <<record, late>> /\ run' = Failed
  <2>1. Unsaid /\ Stands(sheet, sheet')
    BY <1>3, <1>7 DEF Unsaid, Stands
  <2> QED
    BY <1>4, <1>7, <2>1, UnsaidTells
<1>8. CASE GiveUp(req) /\ run' = Failed /\ UNCHANGED record
  <2>1. \A entry \in late' : entry \in late \/ entry = <<faults, req>>
    BY <1>8 DEF GiveUp
  <2>2. Truthful(sheet', record') /\ RunTells' /\ WriteTells' /\ ~Writing'
    BY <1>3, <1>4, <1>8 DEF Told
  <2>3. LateTells'
    <3>1. ASSUME NEW entry \in late', entry[2].type = "upsert"
          PROVE  /\ entry[2].expected = None => Rowless(entry[2].new)
                 /\ entry[2].expected = record.version /\ entry[2].new.status \in Live =>
                      record.status \in Editable /\ Truthful(sheet, entry[2].new)
      <4>1. CASE entry \in late
        BY <3>1, <4>1 DEF Told, LateTells
      <4>2. CASE entry = <<faults, req>>
        <5>1. entry[2] = req
          BY <4>2
        <5>2. req.expected = None => run.version = 0
          BY <1>1, <1>2
        <5>3. req.expected = record.version => Level
          BY <1>1, <1>2 DEF Level
        <5> QED
          BY <1>2, <5>1, <5>2, <5>3
      <4> QED
        BY <2>1, <3>1, <4>1, <4>2
    <3> QED
      BY <1>3, <1>8, <2>2, <3>1 DEF LateTells, Rowless
  <2> QED
    BY <2>2, <2>3 DEF Told
<1> QED
  BY <1>3, <1>5, <1>6, <1>7, <1>8

(* The operation after its upsert.                                           *)
LEMMA RecordedTells ==
  ASSUME ConstantsAssumption, AppendInv, Told, Processes, run.pc \notin EndPc,
         NEW new \in Submission, NEW next \in ProcessRun, Recorded(new, next),
         UNCHANGED <<content, sheet>>, KeptBut(next),
         next.place = run.place, next.dups = run.dups, next.registered = run.registered,
         new.status \in Editable, run.version = 0 => Rowless(new),
         next.pc \notin {"applying", "terminal"},
         next.pc \in Opening =>
           run.pc \in Opening /\ \A k \in Team : Absent(run.inv, k) => new.place[k] = run.old.place[k],
         next.pc \in WritePc =>
           WritesTeams /\ new.status = "applying" /\ new.place = Places(run.registered)
  PROVE  RunTells' /\ WriteTells'
<1>1. run \in ProcessRun /\ run.version \in Nat /\ record.version \in Nat
  BY RunTyped DEF AppendInv, TypeInv, TypeOK, Submission
<1>2. /\ run' \in ProcessRun /\ run'.op = run.op /\ run'.inv = run.inv /\ run'.old = run.old
      /\ run'.version = run.version + 1 /\ run'.data = run.data /\ run'.pc = next.pc
      /\ run'.place = run.place /\ run'.dups = run.dups /\ run'.registered = run.registered
  BY <1>1 DEF Recorded, ProcessRun, KeptBut
<1>3. /\ record'.status = new.status /\ record'.place = new.place
      /\ record'.version = record.version + 1
  BY DEF Recorded, Submission
<1>4. /\ run' # None /\ Processes' /\ ~Decides' /\ run'.version # 0
      /\ run.version # 0 => Level'
  BY <1>1, <1>2, <1>3, NoneAssumption DEF Processes, Decides, Level, Recorded
<1>5. ProcessTells
  BY DEF Told, RunTells
<1>6. RowsApart => RowsApart'
  BY <1>2 DEF RowsApart
<1>7. WritesTeams => WritesTeams'
  BY <1>2 DEF WritesTeams, Clean
<1>8. ProcessTells'
  <2>1. \A k \in Team : Absent(run.inv, k)' => run'.place[k] = run'.old.place[k]
    BY <1>2, <1>5 DEF ProcessTells, Absent
  <2>2. run'.pc \in Opening =>
          RowsApart' /\ \A k \in Team : Absent(run.inv, k)' => record'.place[k] = run'.old.place[k]
    BY <1>2, <1>3, <1>5, <1>6 DEF ProcessTells, Absent
  <2> QED
    BY <1>2, <1>3, <1>4, <1>7, <2>1, <2>2 DEF ProcessTells
<1>9. WriteTells'
  <2>1. SUFFICES ASSUME Writing' PROVE Rowless(record') \/ (Level' /\ record'.status = "applying"
                                             /\ record'.place = Places(run.registered)')
    BY <1>4 DEF WriteTells, Rowless
  <2>2. CASE run.version = 0
    BY <1>3, <2>2 DEF Rowless
  <2>3. CASE run.version # 0
    <3>1. next.pc \in WritePc
      BY <1>2, <2>1, RunTyped DEF Writing, ProcessRun, ProcessPc, EntryPc, EndPc
    <3> QED
      BY <1>2, <1>3, <1>4, <2>3, <3>1 DEF Places
  <2> QED
    BY <2>2, <2>3
<1> QED
  BY <1>4, <1>8, <1>9 DEF RunTells

LEMMA BeforeAppendTells ==
  ASSUME ConstantsAssumption, AppendInv, Told, ~Misled', NEW k \in Team, BeforeAppend(k)
  PROVE  Told'
<1>1. run # None /\ run.pc = "entry" /\ k = run.team
  BY DEF BeforeAppend, AtEntry
<1>2. /\ Processes /\ run \in ProcessRun /\ TypeInv /\ run.pc \notin EndPc \union WritePc
      /\ ~Absent(run.inv, k) /\ run.pc \in Opening
  BY <1>1, RunTyped, AtTeamFacts
     DEF AppendInv, TypeInv, Processes, DecidePc, WritePc, EndPc, EntryPc, Absent, Opening
<1>3. ProcessTells /\ RowsApart
  BY <1>2 DEF Told, RunTells, ProcessTells
<1> DEFINE teams == run.registered \union {k}
           place == [run.place EXCEPT ![k] = Column]
           snap == Without(run.undo, k) \union {BlankRow(k, None)}
           new == Record("applying", teams, place, snap)
           next == To("append")
<1>4. /\ teams \in SUBSET Team /\ place \in [Team -> Place]
      /\ snap \in SUBSET Item
  BY <1>2, BlankRowTyped DEF ProcessRun, Place, Without
<1>5. Persist(new, next)
  BY Zenon DEF BeforeAppend
<1>6. \A j \in Team : place[j] = IF j = k THEN Column ELSE run.place[j]
  BY <1>2 DEF ProcessRun
<1> HIDE DEF teams, place, snap
<1>7. /\ Record("applying", teams, place, snap) \in Submission
      /\ Record("applying", teams, place, snap).status = "applying"
      /\ Record("applying", teams, place, snap).place = place
  BY <1>2, <1>4, ApplyingTyped
<1>8. new \in Submission /\ new.status = "applying" /\ new.place = place
  BY <1>7
<1> HIDE DEF new
<1>9. next \in ProcessRun /\ next.pc = "append" /\ KeptBut(next) /\ KeptProcess(next)
  BY <1>2, ToProcess DEF ProcessPc, EntryPc
<1> HIDE DEF next
<1>10. Column \notin Row /\ None \notin Row
  BY ConstantsAssumption DEF ConstantsAssumption, Column, Row
<1>11. Truthful(sheet, new)
  <2>1. HoldsTeams(sheet, new.place)
    BY <1>3, <1>6, <1>8, <1>10 DEF RowsApart, HoldsTeams
  <2> QED
    BY <1>8, <2>1 DEF Truthful, Concluded, Actionable
<1>12. new.status \in Editable /\ (run.version = 0 => Rowless(new))
  BY <1>3, <1>6, <1>8, <1>10 DEF Editable, Rowless, ProcessTells
<1>13. \A j \in Team : Absent(run.inv, j) => new.place[j] = run.old.place[j]
  BY <1>2, <1>3, <1>6, <1>8 DEF ProcessTells
<1>14. ASSUME Recorded(new, next), UNCHANGED <<content, sheet>>
       PROVE  RunTells' /\ WriteTells'
  <2>1. next.pc \notin WritePc \union {"applying", "terminal"}
    BY <1>9 DEF WritePc
  <2> QED
    BY <1>2, <1>8, <1>9, <1>12, <1>13, <1>14, <2>1, RecordedTells DEF KeptProcess
<1>15. Level => record.status \in Editable
  BY <1>3 DEF ProcessTells
<1> QED
  BY <1>1, <1>2, <1>5, <1>8, <1>11, <1>12, <1>14, <1>15, PersistTells

LEMMA PersistAppendedTells ==
  ASSUME ConstantsAssumption, AppendInv, Told, ~Misled', PersistAppended
  PROVE  Told'
<1>1. run # None /\ run.pc = "interim"
  BY DEF PersistAppended
<1>2. /\ Processes /\ run \in ProcessRun /\ TypeInv /\ run.pc \notin EndPc \union WritePc
      /\ run.team \in Team /\ run.pc \in Opening
  BY <1>1, RunTyped, AtTeamFacts
     DEF AppendInv, TypeInv, Processes, DecidePc, WritePc, EndPc, EntryPc, Opening
<1>3. ProcessTells /\ RowsApart
  BY <1>2 DEF Told, RunTells, ProcessTells
<1> DEFINE new == Record("applying", run.registered, run.place, run.undo)
           next == Onward(run)
<1>4. Persist(new, next)
  BY Zenon DEF PersistAppended
<1>5. new \in Submission /\ new.status = "applying" /\ new.place = run.place
  <2>1. /\ run.registered \in SUBSET Team /\ run.place \in [Team -> Place]
        /\ run.undo \in SUBSET Item
    BY <1>2 DEF ProcessRun
  <2>2. /\ Record("applying", run.registered, run.place, run.undo) \in Submission
        /\ Record("applying", run.registered, run.place, run.undo).status = "applying"
        /\ Record("applying", run.registered, run.place, run.undo).place = run.place
    BY <1>2, <2>1, ApplyingTyped
  <2> QED
    BY <2>2
<1>6. /\ next \in ProcessRun /\ next.op = run.op /\ next.inv = run.inv /\ next.old = run.old
      /\ next.version = run.version /\ next.data = run.data /\ next.place = run.place
      /\ next.dups = run.dups /\ next.registered = run.registered
      /\ next.pc \in {"entry", "data"}
  BY <1>2, OnwardTyped
<1> HIDE DEF new, next
<1>7. run.version # 0
  BY <1>1, <1>3 DEF ProcessTells, EntryPc
<1>8. Truthful(sheet, new) /\ new.status \in Editable
  BY <1>3, <1>5 DEF Truthful, Concluded, Actionable, RowsApart, Editable
<1>9. ASSUME Recorded(new, next), UNCHANGED <<content, sheet>>
      PROVE  RunTells' /\ WriteTells'
  <2>1. KeptBut(next) /\ next.pc \notin WritePc \union {"applying", "terminal"}
    BY <1>6 DEF WritePc, KeptBut
  <2>2. \A j \in Team : Absent(run.inv, j) => new.place[j] = run.old.place[j]
    BY <1>3, <1>5 DEF ProcessTells
  <2> QED
    BY <1>2, <1>5, <1>6, <1>7, <1>8, <1>9, <2>1, <2>2, RecordedTells
<1>10. Level => record.status \in Editable
  BY <1>3 DEF ProcessTells
<1> QED
  BY <1>1, <1>2, <1>4, <1>5, <1>7, <1>8, <1>9, <1>10, PersistTells

(* What the operation has registered has its row.                            *)
LEMMA PlacesHold ==
  ASSUME ConstantsAssumption, TypeInv, Processes
  PROVE  /\ \A k \in Team : Places(run.registered)[k] =
                              IF k \in run.registered THEN run.place[k] ELSE None
         /\ \A k \in run.registered : ~Absent(run.inv, k) /\ run.place[k] \in Row /\ k \in Team
         /\ None \notin Row /\ Column # None
         /\ HoldsTeams(sheet, run.place) => HoldsTeams(sheet, Places(run.registered))
<1>1. ProcessWell /\ run.registered \subseteq Team
  BY RunTyped DEF TypeInv, RunWell, Processes, ProcessRun
<1>2. None \notin Row /\ Column # None
  BY ConstantsAssumption DEF ConstantsAssumption, Column, Row
<1>3. \A k \in Team : Places(run.registered)[k] =
                        IF k \in run.registered THEN run.place[k] ELSE None
  BY DEF Places
<1> QED
  BY <1>1, <1>2, <1>3 DEF ProcessWell, Absent, HoldsTeams

LEMMA PersistApplyingTells ==
  ASSUME ConstantsAssumption, AppendInv, Told, ~Misled', PersistApplying
  PROVE  Told'
<1>1. run # None /\ run.pc = "applying"
  BY DEF PersistApplying
<1>2. /\ Processes /\ run \in ProcessRun /\ TypeInv /\ run.pc \in Opening
      /\ run.pc \notin EndPc \union WritePc
  BY <1>1, RunTyped DEF AppendInv, TypeInv, Processes, DecidePc, WritePc, EndPc, Opening
<1>3. ProcessTells /\ RowsApart
  BY <1>2 DEF Told, RunTells, ProcessTells
<1> DEFINE place == Places(run.registered)
           new == Record("applying", run.registered, place, run.snap)
           next == To("write")
<1>4. Persist(new, next)
  BY Zenon DEF PersistApplying
<1>5. place \in [Team -> Place] /\ run.registered \in SUBSET Team /\ run.snap \in SUBSET Item
  BY <1>2, PlacesTyped DEF ProcessRun
<1>6. place = Places(run.registered)
  OBVIOUS
<1> HIDE DEF place
<1>7. /\ Record("applying", run.registered, place, run.snap) \in Submission
      /\ Record("applying", run.registered, place, run.snap).status = "applying"
      /\ Record("applying", run.registered, place, run.snap).place = place
  BY <1>2, <1>5, ApplyingTyped
<1>8. new \in Submission /\ new.status = "applying" /\ new.place = Places(run.registered)
  BY <1>6, <1>7
<1> HIDE DEF new
<1>9. next \in ProcessRun /\ next.pc = "write" /\ KeptBut(next) /\ KeptProcess(next)
  BY <1>2, ToProcess DEF ProcessPc, WritePc
<1> HIDE DEF next
<1>10. Truthful(sheet, new) /\ new.status \in Editable
  <2>1. HoldsTeams(sheet, new.place)
    BY <1>2, <1>3, <1>8, PlacesHold DEF RowsApart
  <2> QED
    BY <1>8, <2>1 DEF Truthful, Concluded, Actionable, Editable
<1>11. run.version = 0 => Rowless(new)
  BY <1>2, <1>3, <1>8, PlacesHold DEF ProcessTells, Rowless
<1>12. ASSUME Recorded(new, next), UNCHANGED <<content, sheet>>
       PROVE  RunTells' /\ WriteTells'
  <2>1. ASSUME NEW k \in Team, Absent(run.inv, k), run.old.place[k] = Column
        PROVE  FALSE
    <3>1. run.version # 0 /\ Level
      BY <1>2, <1>3, <1>12, <2>1, PlacesHold DEF ProcessTells, Recorded
    <3>2. record.place[k] = Column
      BY <1>2, <1>3, <2>1, <3>1 DEF ProcessTells
    <3>3. new.place[k] = None
      BY <1>2, <1>8, <2>1, PlacesHold
    <3> QED
      BY <1>12, <2>1, <3>1, <3>2, <3>3 DEF Recorded
  <2>2. WritesTeams
    BY <1>1, <1>3, <2>1 DEF ProcessTells
  <2>3. next.pc \notin Opening \union {"applying", "terminal"}
    BY <1>9 DEF Opening, EntryPc
  <2> QED
    BY <1>2, <1>8, <1>9, <1>10, <1>11, <1>12, <2>2, <2>3, RecordedTells DEF KeptProcess, EndPc
<1>13. Level => record.status \in Editable
  BY <1>3 DEF ProcessTells
<1> QED
  BY <1>1, <1>2, <1>4, <1>8, <1>10, <1>11, <1>12, <1>13, PersistTells

LEMMA PersistTerminalTells ==
  ASSUME ConstantsAssumption, AppendInv, Told, ~Misled', PersistTerminal
  PROVE  Told'
<1>1. run # None /\ run.pc = "terminal"
  BY DEF PersistTerminal
<1>2. /\ Processes /\ run \in ProcessRun /\ TypeInv /\ run.pc \notin EndPc \union WritePc
  BY <1>1, RunTyped DEF AppendInv, TypeInv, Processes, DecidePc, WritePc, EndPc
<1>3. ProcessTells
  BY <1>2 DEF Told, RunTells
<1> DEFINE status == IF run.registered = {} THEN "empty"
                     ELSE IF run.old = Missing THEN "registered" ELSE "updated"
           place == Places(run.registered)
           new == Record(status, run.registered, place, run.snap)
           next == To("bind")
<1>4. Persist(new, next)
  BY Zenon DEF PersistTerminal
<1>5. /\ status \in Status /\ place \in [Team -> Place] /\ run.registered \in SUBSET Team
      /\ run.snap \in SUBSET Item /\ status \in Editable
      /\ run.registered = {} <=> status = "empty"
  BY <1>2, PlacesTyped DEF ProcessRun, Status, Editable, Actionable
<1>6. place = Places(run.registered)
  OBVIOUS
<1> HIDE DEF status, place
<1>7. /\ Record(status, run.registered, place, run.snap) \in Submission
      /\ Record(status, run.registered, place, run.snap).status = status
      /\ Record(status, run.registered, place, run.snap).place = place
      /\ Record(status, run.registered, place, run.snap).entries = Says(run.registered)
  <2>1. TypeInv /\ Processes
    BY <1>2
  <2> QED
    BY <2>1, <1>5, RecordTyped
<1>8. /\ new \in Submission /\ new.status = status /\ new.place = Places(run.registered)
      /\ new.entries = Says(run.registered)
  BY <1>6, <1>7
<1> HIDE DEF new
<1>9. next \in ProcessRun /\ next.pc = "bind" /\ KeptBut(next) /\ KeptProcess(next)
  BY <1>2, ToProcess DEF ProcessPc
<1> HIDE DEF next
<1>10. Truthful(sheet, new)
  <2>1. ASSUME NEW k \in Team, new.place[k] # None
        PROVE  /\ new.place[k] \in Row /\ HoldsTeam(sheet, new.place[k], k)
               /\ sheet[new.place[k]] = [team |-> k, value |-> new.entries[k], marked |-> FALSE]
    <3>1. /\ k \in run.registered /\ new.place[k] = run.place[k] /\ run.place[k] \in Row
          /\ content[run.inv][k] # None
      BY <1>2, <1>8, <2>1, PlacesHold DEF Absent
    <3>2. sheet[new.place[k]] = Clean(k)
      BY <1>1, <1>3, <3>1 DEF ProcessTells
    <3>3. new.entries[k] = content[run.inv][k]
      BY <1>8, <3>1 DEF Says
    <3>4. Clean(k) \in Entry /\ Clean(k).team = k
      BY <1>2, <3>1, HeldRows
    <3> QED
      BY <3>1, <3>2, <3>3, <3>4 DEF HoldsTeam, Clean
  <2>2. \A k \in Team : new.place[k] \in Row => new.place[k] # None
    BY <1>2, PlacesHold
  <2> QED
    BY <2>1, <2>2 DEF Truthful, HoldsTeams, HoldsEntries
<1>11. run.version = 0 => Rowless(new)
  BY <1>2, <1>3, <1>5, <1>8, PlacesHold DEF ProcessTells, Rowless
<1>12. ASSUME Recorded(new, next), UNCHANGED <<content, sheet>>
       PROVE  RunTells' /\ WriteTells'
  <2>1. next.pc \notin Opening \union WritePc \union {"applying", "terminal"}
    BY <1>9 DEF Opening, EntryPc, WritePc
  <2> QED
    BY <1>2, <1>5, <1>8, <1>9, <1>11, <1>12, <2>1, RecordedTells DEF KeptProcess
<1>13. Level => record.status \in Editable
  BY <1>3 DEF ProcessTells
<1> QED
  BY <1>1, <1>2, <1>4, <1>8, <1>10, <1>11, <1>12, <1>13, PersistTells

LEMMA PersistDecisionTells ==
  ASSUME ConstantsAssumption, AppendInv, Told, ~Misled', PersistDecision
  PROVE  Told'
<1>1. run # None /\ run.op = "decide"
  BY DEF PersistDecision
<1>2. /\ Decides /\ ~Processes /\ run \in DecideRun /\ run.old \in Submission
      /\ run.version # 0
  BY <1>1, RunTyped DEF AppendInv, TypeInv, Decides, Processes, RunKnows
<1>3. PICK status \in Status, pc \in {"done", "restore"} :
        /\ Persist([run.old EXCEPT !.status = status], To(pc))
        /\ \/ run.pc = "confirm" /\ status = "confirmed" /\ pc = "done"
           \/ status \notin Live /\ run.pc \notin WritePc
        /\ pc = "restore" => status = "reverting"
  <2>1. Done = To("done")
    BY DEF Done, To
  <2>2. {"confirmed", "rejected", "rollbackFailed", "reverting"} \subseteq Status
    BY DEF Status
  <2>3. /\ {"rejected", "rollbackFailed", "reverting"} \intersect Live = {}
        /\ {"reject", "fail", "reverting"} \intersect WritePc = {}
    BY DEF Live, Editable, Actionable, WritePc
  <2> QED
    BY <2>1, <2>2, <2>3 DEF PersistDecision, PersistStatus
<1> DEFINE new == [run.old EXCEPT !.status = status]
           next == To(pc)
<1>4. /\ new \in Submission /\ new.place = run.old.place /\ new.status = status
      /\ new.entries = run.old.entries
  BY <1>2, <1>3 DEF Submission
<1>5. Persist(new, next)
  BY <1>3
<1>6. next \in DecideRun /\ next.pc = pc /\ next.op = "decide"
  BY <1>1, <1>2, <1>3, ToDecide DEF DecidePc, EndPc, KeptBut
<1> HIDE DEF new, next
<1>7. run.pc = "confirm" => Confirming
  BY <1>2 DEF Told, RunTells
<1>8. Truthful(sheet, new) /\ (Level /\ new.status \in Live => record.status \in Editable)
  <2>1. Concluded \subseteq Live
    BY DEF Concluded, Live, Editable
  <2> QED
    BY <1>3, <1>4, <1>7, <2>1 DEF Truthful, Confirming, HoldsEntries
<1>9. ASSUME Recorded(new, next), UNCHANGED <<content, sheet>>
      PROVE  RunTells' /\ WriteTells'
  <2>1. run'.op = "decide" /\ run'.pc = pc
    BY <1>6, <1>9 DEF Recorded, DecideRun
  <2>2. record'.status = status
    BY <1>4, <1>9 DEF Recorded, Submission
  <2>3. ~Processes' /\ run'.pc # "confirm"
    BY <1>3, <2>1 DEF Processes
  <2>4. Writing' => record'.status \notin Live
    BY <1>3, <2>1, <2>2 DEF Writing, WritePc, Live, Editable, Actionable
  <2> QED
    BY <2>3, <2>4 DEF RunTells, WriteTells
<1>10. run.pc \notin WritePc
  BY <1>3 DEF WritePc
<1> QED
  BY <1>1, <1>2, <1>4, <1>5, <1>8, <1>9, <1>10, PersistTells

(* The rows of the teams that stay are written with their entries alone, since
   no other team has its row there.                                          *)
LEMMA UpdatesApart ==
  ASSUME ConstantsAssumption, AppendInv, Processes, run.pc = "data", RowsApart,
         NEW k \in run.registered
  PROVE  /\ [key |-> k, row |-> run.place[k], cell |-> Clean(k)] \in Updates
         /\ \/ \A item \in Updates : RowOf(item) = run.place[k] => item.cell = Clean(k)
            \/ \E j \in Team : Absent(run.inv, j) /\ run.old.place[j] = Column
<1>1. /\ run \in ProcessRun /\ ProcessWell /\ GoneThrough(run) /\ run.old \in Submission /\ TypeInv
      /\ run.registered \subseteq Team /\ run.dups \in [Team -> SUBSET Row] /\ k \in Team
      /\ run.old.place \in [Team -> Place]
  BY RunTyped DEF AppendInv, TypeInv, RunWell, RunKnows, Processes, ProcessRun, Submission
<1>2. \A j \in run.registered : run.place[j] \in Row
  BY <1>1, PlacesHold
<1>3. HoldsTeam(sheet, run.place[k], k)
  BY <1>1, <1>2 DEF RowsApart, HoldsTeams
<1>4. \A row \in Row : row # Column
  BY DEF Row, Column
<1>5. \A item : item.row \in Row => RowOf(item) = item.row
  BY <1>4 DEF RowOf
<1>6. SUFFICES ASSUME NEW item \in Updates, RowOf(item) = run.place[k]
               PROVE  \/ item.cell = Clean(k)
                      \/ \E j \in Team : Absent(run.inv, j) /\ run.old.place[j] = Column
  BY DEF Updates
<1>7. CASE \E j \in run.registered : item = [key |-> j, row |-> run.place[j], cell |-> Clean(j)]
  <2>1. PICK j \in run.registered : item = [key |-> j, row |-> run.place[j], cell |-> Clean(j)]
    BY <1>7
  <2>2. item.row = run.place[j] /\ item.cell = Clean(j)
    BY <2>1
  <2>3. run.place[j] = run.place[k] /\ HoldsTeam(sheet, run.place[j], j)
    BY <1>1, <1>2, <1>5, <1>6, <2>2 DEF RowsApart, HoldsTeams
  <2>4. j = k
    BY <1>3, <2>3 DEF HoldsTeam
  <2> QED
    BY <2>2, <2>4
<1>8. CASE \E j \in run.registered : item \in BlankRows(j, run.dups[j])
  <2>0. PICK j \in run.registered : item \in BlankRows(j, run.dups[j])
    BY <1>8
  <2>1. PICK row \in run.dups[j] : item = BlankRow(j, row)
    BY <2>0 DEF BlankRows
  <2>2. item.row = row /\ row \in Row /\ HoldsTeam(sheet, row, j)
    BY <1>1, <2>1 DEF BlankRow, RowsApart
  <2>3. row = run.place[k]
    BY <1>5, <1>6, <2>2
  <2>4. j = k
    BY <1>3, <2>2, <2>3 DEF HoldsTeam
  <2> QED
    BY <2>1, <2>3, <2>4 DEF RowsApart
<1>9. CASE \E j \in Removed : item = BlankRow(None, run.old.place[j])
  <2>1. PICK j \in Removed : item = BlankRow(None, run.old.place[j])
    BY <1>9
  <2>2. /\ j \in Team /\ j \notin run.registered /\ item.row = run.old.place[j]
        /\ run.old.place[j] # None /\ run.old.place[j] \in Place
    BY <1>1, <2>1 DEF Removed, BlankRow
  <2>3. CASE run.old.place[j] \in Row
    <3>1. run.old.place[j] = run.place[k] /\ HoldsTeam(sheet, run.old.place[j], j)
      BY <1>5, <1>6, <2>2, <2>3 DEF RowsApart, HoldsTeams
    <3>2. j = k
      BY <1>3, <3>1 DEF HoldsTeam
    <3> QED
      BY <2>2, <3>2
  <2>4. CASE run.old.place[j] = Column
    <3>1. Absent(run.inv, j)
      BY <1>1, <2>2 DEF GoneThrough, Processes, EntryPc, EndPc, Absent
    <3> QED
      BY <2>2, <2>4, <3>1
  <2> QED
    BY <2>2, <2>3, <2>4 DEF Place
<1> QED
  BY <1>7, <1>8, <1>9 DEF Updates

LEMMA ReadSnapshotTells ==
  ASSUME ConstantsAssumption, AppendInv, Told, ReadSnapshot
  PROVE  Told'
<1>1. run # None /\ run.pc = "data"
  BY DEF ReadSnapshot
<1>2. /\ Processes /\ run \in ProcessRun /\ TypeInv /\ run.pc \notin EndPc \union WritePc
      /\ run.pc \in Opening
  BY <1>1, RunTyped DEF AppendInv, TypeInv, DecidePc, WritePc, EndPc, Opening
<1>3. CASE ReadFails
  BY <1>1, <1>2, <1>3, ReadFailsTells
<1>4. CASE ~ReadFails
  <2> DEFINE pc == IF Updates = {} THEN "terminal" ELSE "applying"
             next == [run EXCEPT !.data = Updates, !.snap = Snapshot, !.pc = pc]
  <2>1. /\ Unsaid /\ UNCHANGED <<content, sheet, late>>
        /\ run' = [run EXCEPT !.data = Updates, !.snap = Snapshot, !.pc = pc]
    BY <1>4 DEF ReadSnapshot, Continue, world, Unsaid
  <2>2. Updates \in SUBSET Item /\ Snapshot \in SUBSET Item
    BY <1>2, UpdatesTyped, SnapshotTyped
  <2>3. /\ pc \in {"terminal", "applying"} /\ pc \in ProcessPc
        /\ pc = "terminal" => Updates = {}
    BY DEF ProcessPc
  <2> HIDE DEF pc, next
  <2>4. /\ run' \in ProcessRun /\ run'.pc = pc /\ run'.op = run.op /\ run'.inv = run.inv
        /\ run'.old = run.old /\ run'.data = Updates /\ run'.version = run.version
        /\ run'.place = run.place /\ run'.registered = run.registered /\ run'.dups = run.dups
    BY <1>2, <2>1, <2>2, <2>3 DEF ProcessRun
  <2>5. Processes' /\ ~Decides' /\ ~Writing'
    BY <1>2, <2>3, <2>4, NoneAssumption DEF Processes, Decides, Writing, WritePc
  <2>6. ProcessTells /\ RowsApart
    BY <1>2 DEF Told, RunTells, ProcessTells
  <2>7. RowsApart' /\ (Level' <=> Level)
    BY <2>1, <2>4, <2>6 DEF RowsApart, Level, Unsaid
  <2>8. WritesTeams' \/ \E k \in Team : Absent(run.inv, k) /\ run.old.place[k] = Column
    <3>1. SUFFICES ASSUME ~ \E k \in Team : Absent(run.inv, k) /\ run.old.place[k] = Column,
                          NEW k \in run.registered
                   PROVE  /\ [key |-> k, row |-> run.place[k], cell |-> Clean(k)] \in Updates
                          /\ \A item \in Updates : RowOf(item) = run.place[k] => item.cell = Clean(k)
      BY <2>1, <2>4 DEF WritesTeams, Clean
    <3> QED
      BY <1>1, <1>2, <2>6, <3>1, UpdatesApart
  <2>9. pc = "terminal" => run.registered = {}
    <3>1. \A k \in run.registered : [key |-> k, row |-> run.place[k], cell |-> Clean(k)] \in Updates
      BY DEF Updates
    <3> QED
      BY <2>3, <3>1
  <2>10. ProcessTells'
    <3>1. /\ run'.version = 0 =>
               /\ run'.registered = {} /\ run'.pc \notin EntryPc \ {"entry"}
               /\ \A k \in Team : run'.place[k] = None
          /\ Level' => record'.status \in Editable
          /\ \A k \in Team : Absent(run.inv, k)' => run'.place[k] = run'.old.place[k]
          /\ Level' => \A k \in Team : Absent(run.inv, k)' => record'.place[k] = run'.old.place[k]
      BY <1>2, <2>1, <2>3, <2>4, <2>6, <2>7 DEF ProcessTells, Unsaid, Absent, EntryPc
    <3>2. run'.pc = "applying" =>
            WritesTeams' \/ \E k \in Team : Absent(run.inv, k)' /\ run'.old.place[k] = Column
      BY <2>1, <2>4, <2>8 DEF Absent
    <3>3. run'.pc = "terminal" => run'.registered = {}
      BY <2>4, <2>9
    <3>4. run'.pc \notin WritePc
      BY <2>3, <2>4 DEF WritePc
    <3> QED
      BY <2>7, <3>1, <3>2, <3>3, <3>4 DEF ProcessTells
  <2>11. RunTells' /\ WriteTells'
    BY <2>5, <2>10 DEF RunTells, WriteTells
  <2> QED
    BY <2>1, <2>5, <2>11, UnsaidTells DEF Stands
<1> QED
  BY <1>3, <1>4

(* A write leaves the entry of every team that stays in its row.             *)
LEMMA WrittenClean ==
  ASSUME ConstantsAssumption, TypeInv, Processes, WritesTeams, NEW k \in run.registered
  PROVE  Written(sheet, run.data)[run.place[k]] = Clean(k)
<1> DEFINE row == run.place[k]
           own == [key |-> k, row |-> row, cell |-> Clean(k)]
           hits == Hitting(run.data, row)
<1>1. /\ row \in Row /\ own \in run.data /\ own.row = row /\ run.data \subseteq Item
      /\ \A item \in run.data : RowOf(item) = row => item.cell = Clean(k)
  BY PlacesHold, RunTyped DEF WritesTeams, TypeInv, Processes
<1> HIDE DEF row, own
<1>2. RowOf(own) = row
  BY <1>1 DEF RowOf, Row, Column
<1>3. own \in hits /\ hits \subseteq Item
  BY <1>1, <1>2 DEF Hitting
<1>4. \A item \in hits : item.cell = Clean(k)
  BY <1>1 DEF Hitting
<1>5. Written(sheet, run.data)[row] = (CHOOSE item \in hits : Wins(item, hits)).cell
  BY <1>1, <1>3 DEF Written
<1> HIDE DEF hits
<1>6. (CHOOSE item \in hits : Wins(item, hits)) \in hits
  BY <1>3, WinnerExists
<1> QED
  BY <1>4, <1>5, <1>6 DEF row

LEMMA WriteTellsTruth ==
  ASSUME ConstantsAssumption, AppendInv, Told, Write
  PROVE  Told'
<1>1. /\ run # None /\ run.pc \in WritePc /\ Writing
      /\ UNCHANGED <<content, record>>
      /\ UNCHANGED late \/ GiveUp([type |-> "write", data |-> run.data])
  BY DEF Write, WritePc, Writing
<1>2. \A entry \in late' : entry \in late \/ entry[2].type # "upsert"
  <2> DEFINE req == [type |-> "write", data |-> run.data]
  <2>1. req.type # "upsert"
    OBVIOUS
  <2>2. UNCHANGED late \/ GiveUp(req)
    BY <1>1
  <2> HIDE DEF req
  <2>3. \A entry \in late' : entry \in late \/ entry = <<faults, req>>
    BY <2>2 DEF GiveUp
  <2> QED
    BY <2>1, <2>3
<1>3. PICK pc \in {AfterWrite, "readback write", IF run.op = "process" THEN "failed" ELSE "check"} :
        /\ run' = To(pc)
        /\ \/ sheet' = Written(sheet, run.data)
           \/ sheet' = sheet /\ pc # AfterWrite
  <2>1. AfterWrite \notin {"readback write", IF run.op = "process" THEN "failed" ELSE "check"}
    BY DEF AfterWrite
  <2> QED
    BY <2>1 DEF Write, WriteFailed
<1>4. TypeInv /\ Unsaid
  BY <1>1 DEF AppendInv, Unsaid
<1>5. Processes => ProcessTells /\ WritesTeams /\ run.registered \subseteq Team
  BY <1>1, <1>4, RunTyped DEF Told, RunTells, ProcessTells, WritePc, EndPc, TypeInv, ProcessRun
<1>6. RunTells' /\ WriteTells' /\ (Writing' => Writing)
  <2>1. CASE Processes
    <3>1. /\ pc \in {"terminal", "readback write", "failed"}
          /\ pc = "terminal" => sheet' = Written(sheet, run.data)
      BY <1>3, <2>1 DEF AfterWrite, Processes
    <3>2. pc = "terminal" => \A k \in run.registered : sheet'[run.place[k]] = Clean(k)
      BY <1>4, <1>5, <2>1, <3>1, WrittenClean
    <3>3. /\ pc \in ProcessPc /\ pc \notin Opening \union EntryPc /\ pc # "applying"
          /\ run.pc \notin EndPc
      BY <1>1, <3>1 DEF ProcessPc, Opening, EntryPc, WritePc, EndPc
    <3> QED
      BY <1>1, <1>3, <1>4, <2>1, <3>2, <3>3, MoveTells DEF Processes, Decides
  <2>2. CASE Decides
    <3>1. pc \in {"reject", "readback write", "check"}
      BY <1>3, <2>2 DEF AfterWrite, Decides
    <3>2. pc \in DecidePc /\ pc # "confirm"
      BY <3>1 DEF DecidePc, WritePc
    <3> QED
      BY <1>1, <1>3, <1>4, <2>2, <3>2, MoveTells DEF Processes, Decides
  <2> QED
    BY <1>1, <1>4, <2>1, <2>2, RunTyped DEF TypeInv
<1>7. Truthful(sheet', record')
  <2>1. SUFFICES ASSUME record.status \in Live, sheet' = Written(sheet, run.data)
                 PROVE  Truthful(sheet', record)
    <3>1. Concluded \subseteq Live
      BY DEF Concluded, Live, Editable
    <3> QED
      BY <1>1, <1>3, <3>1 DEF Told, Truthful
  <2>2. CASE Rowless(record)
    BY <2>2 DEF Rowless, Truthful, HoldsTeams, Concluded, Actionable
  <2>3. CASE /\ Processes /\ record.status = "applying" /\ record.place = Places(run.registered)
    <3>1. ASSUME NEW k \in Team, record.place[k] \in Row
          PROVE  HoldsTeam(sheet', record.place[k], k)
      <4>1. k \in run.registered /\ record.place[k] = run.place[k] /\ content[run.inv][k] # None
        BY <1>4, <2>3, <3>1, PlacesHold DEF Absent
      <4>2. Clean(k) \in Entry /\ Clean(k).team = k
        BY <1>4, <2>3, <4>1, HeldRows
      <4>3. sheet'[run.place[k]] = Clean(k)
        BY <1>4, <1>5, <2>1, <2>3, <4>1, WrittenClean
      <4> QED
        BY <4>1, <4>2, <4>3 DEF HoldsTeam
    <3> QED
      BY <2>3, <3>1 DEF Truthful, HoldsTeams, Concluded, Actionable
  <2> QED
    BY <1>1, <2>1, <2>2, <2>3 DEF Told, WriteTells
<1>8. LateTells'
  <2>1. ASSUME NEW entry \in late', entry[2].type = "upsert"
        PROVE  /\ entry[2].expected = None => Rowless(entry[2].new)
               /\ ~(entry[2].expected = record.version /\ entry[2].new.status \in Live)
    BY <1>1, <1>2, <2>1 DEF Told, LateTells
  <2> QED
    BY <1>1, <2>1 DEF LateTells, Rowless
<1> QED
  BY <1>6, <1>7, <1>8 DEF Told

LEMMA ReadBackWriteTells ==
  ASSUME ConstantsAssumption, AppendInv, Told, ReadBackWrite
  PROVE  Told'
<1>1. /\ run # None /\ run.pc = "readback write" /\ UNCHANGED <<sheet, late>> /\ Unsaid
      /\ run.pc \in WritePc /\ Writing
  BY DEF ReadBackWrite, Continue, world, Unsaid, Writing, WritePc
<1>2. PICK pc \in {AfterWrite, "rewrite"} :
        run' = To(pc) /\ (pc = AfterWrite => Matches(sheet, run.data))
  <2>1. AfterWrite # "rewrite"
    BY DEF AfterWrite
  <2> QED
    BY <2>1 DEF ReadBackWrite, Continue
<1>3. RunTells' /\ WriteTells' /\ (Writing' => Writing)
  <2>1. CASE Processes
    <3>1. pc \in {"terminal", "rewrite"} /\ (pc = "terminal" => Matches(sheet, run.data))
      BY <1>2, <2>1 DEF AfterWrite, Processes
    <3>2. pc = "terminal" => \A k \in run.registered : sheet'[run.place[k]] = Clean(k)
      <4>1. SUFFICES ASSUME Matches(sheet, run.data), NEW k \in run.registered
                     PROVE  sheet[run.place[k]] = Clean(k)
        BY <1>1, <3>1
      <4>2. PICK item \in run.data : item = [key |-> k, row |-> run.place[k], cell |-> Clean(k)]
        BY <1>1, <2>1 DEF Told, RunTells, ProcessTells, WritesTeams, WritePc, EndPc
      <4>3. item.row = run.place[k] /\ item.cell = Clean(k)
        BY <4>2
      <4>4. run.place[k] # Column
        BY <2>1, PlacesHold DEF AppendInv, Row, Column
      <4> QED
        BY <4>1, <4>3, <4>4 DEF Matches
    <3>3. /\ pc \in ProcessPc /\ pc \notin Opening \union EntryPc /\ pc # "applying"
          /\ run.pc \notin EndPc
      BY <1>1, <3>1 DEF ProcessPc, Opening, EntryPc, WritePc, EndPc
    <3> QED
      BY <1>1, <1>2, <2>1, <3>2, <3>3, MoveTells DEF Processes, Decides
  <2>2. CASE Decides
    <3>1. pc \in {"reject", "rewrite"}
      BY <1>2, <2>2 DEF AfterWrite, Decides
    <3>2. pc \in DecidePc /\ pc # "confirm"
      BY <3>1 DEF DecidePc, WritePc
    <3> QED
      BY <1>1, <1>2, <2>2, <3>2, MoveTells DEF Processes, Decides
  <2> QED
    BY <1>1, <2>1, <2>2, RunTyped DEF AppendInv, TypeInv
<1> QED
  BY <1>1, <1>3, UnsaidTells DEF Stands

LEMMA ConfirmationTells ==
  ASSUME ConstantsAssumption, AppendInv, Told, SetConfirmation \/ EnableButtons
  PROVE  Told'
<1>1. /\ run # None /\ run.pc \in {"bind", "enable"} /\ UNCHANGED <<content, sheet>>
      /\ UNCHANGED record \/ record' = Bind(run.inv)
      /\ UNCHANGED late \/ GiveUp([type |-> "bind", inv |-> run.inv])
      /\ \E pc \in {"enable", "failed", "done"} : run' = To(pc)
  BY DEF SetConfirmation, EnableButtons, world, Failed, Done, To
<1>2. Processes /\ run.inv \in Invocation /\ RecordOK
  BY <1>1, RunTyped, Parts DEF AppendInv, TypeInv, DecidePc, WritePc, EndPc
<1>3. Unsaid
  BY <1>1, <1>2, BindTyped DEF Unsaid
<1>4. RunTells' /\ WriteTells' /\ (Writing' => Writing)
  <2>1. PICK pc \in {"enable", "failed", "done"} : run' = To(pc)
    BY <1>1
  <2>2. /\ pc \in ProcessPc /\ pc \notin Opening \union EntryPc \union WritePc
        /\ pc \notin {"applying", "terminal", "restore"} /\ run.pc \notin EndPc
    BY <1>1 DEF ProcessPc, Opening, EntryPc, WritePc, EndPc
  <2> QED
    BY <1>1, <1>2, <1>3, <2>1, <2>2, MoveTells DEF Processes, Decides
<1>5. \A entry \in late' : entry \in late \/ entry[2].type # "upsert"
  <2> DEFINE req == [type |-> "bind", inv |-> run.inv]
  <2>1. req.type # "upsert"
    OBVIOUS
  <2>2. UNCHANGED late \/ GiveUp(req)
    BY <1>1
  <2> HIDE DEF req
  <2>3. \A entry \in late' : entry \in late \/ entry = <<faults, req>>
    BY <2>2 DEF GiveUp
  <2> QED
    BY <2>1, <2>3
<1> QED
  BY <1>1, <1>3, <1>4, <1>5, UnsaidTells DEF Stands

LEMMA DecideTells ==
  ASSUME ConstantsAssumption, AppendInv, Told, NEW i \in Invocation, Confirm(i) \/ Reject(i)
  PROVE  Told'
<1>1. PICK pc \in DecidePc :
        /\ Decide(i, pc)
        /\ pc = "confirm" => record.status \in Actionable
        /\ pc \in WritePc \union {"restore"} => record.status = "reverting"
  <2>1. CASE Confirm(i)
    <3>1. "confirm" \in DecidePc /\ "confirm" \notin WritePc \union {"restore"}
      BY DEF DecidePc, WritePc
    <3> QED
      BY <2>1, <3>1 DEF Confirm
  <2>2. CASE Reject(i)
    <3>1. PICK pc \in {"reject", "restore", "reverting"} :
            Decide(i, pc) /\ (pc = "restore" => record.status = "reverting")
      BY <2>2 DEF Reject
    <3>2. pc \in DecidePc /\ pc # "confirm" /\ pc \notin WritePc
      BY DEF DecidePc, WritePc
    <3> QED
      BY <3>1, <3>2
  <2> QED
    BY <2>1, <2>2
<1>2. /\ UNCHANGED <<sheet, late>> /\ Unsaid /\ run'.op = "decide" /\ run'.pc = pc
      /\ run'.old = record
  BY <1>1 DEF Decide, world, Unsaid
<1>3. Actionable \subseteq Concluded \intersect Live \intersect Editable
      /\ "reverting" \notin Live
  BY DEF Concluded, Live, Editable, Actionable
<1>4. pc = "confirm" => Confirming'
  BY <1>1, <1>2, <1>3 DEF Confirming, Told, Truthful, HoldsTeams, HoldsEntries, Unsaid
<1>5. RunTells'
  BY <1>2, <1>4 DEF RunTells, Processes
<1>6. Writing' => record.status \notin Live
  BY <1>1, <1>2, <1>3 DEF Writing
<1>7. Writing' => record.status \notin Editable
  BY <1>6 DEF Live
<1>8. WriteTells'
  BY <1>2, <1>6 DEF WriteTells, Unsaid
<1> QED
  BY <1>2, <1>5, <1>7, <1>8, UnsaidTells DEF Stands

LEMMA RestoreTells ==
  ASSUME ConstantsAssumption, AppendInv, Told, Restore
  PROVE  Told'
<1>1. run # None /\ run.pc = "restore" /\ Writing
  BY DEF Restore, Writing
<1>2. Decides /\ run \in DecideRun
  BY <1>1, RunTyped DEF AppendInv, TypeInv, ProcessPc, EntryPc, WritePc, EndPc
<1> DEFINE rows == {item \in run.old.snap : item.row # None}
           pc == IF rows = {} THEN "fail" ELSE "write"
<1>3. Continue([run EXCEPT !.data = rows, !.pc = pc])
  BY Zenon DEF Restore
<1>4. pc \in {"fail", "write"}
  OBVIOUS
<1> HIDE DEF rows, pc
<1>5. run'.op = "decide" /\ run'.pc = pc
  BY <1>2, <1>3 DEF Continue, DecideRun
<1>6. UNCHANGED <<sheet, late>> /\ Unsaid
  BY <1>3 DEF Continue, world, Unsaid
<1>7. RunTells'
  BY <1>4, <1>5 DEF RunTells, Processes
<1>8. WriteTells'
  BY <1>1, <1>2, <1>6 DEF WriteTells, Told, Unsaid, Rowless, Processes, Decides
<1> QED
  BY <1>1, <1>6, <1>7, <1>8, UnsaidTells DEF Stands

LEMMA CheckRestoredTells ==
  ASSUME ConstantsAssumption, AppendInv, Told, CheckRestored
  PROVE  Told'
<1>1. run # None /\ run.pc = "check" /\ UNCHANGED <<sheet, late>> /\ Unsaid
  BY DEF CheckRestored, Continue, world, Unsaid
<1>2. Decides
  BY <1>1, RunTyped DEF AppendInv, TypeInv, ProcessPc, EntryPc, WritePc, EndPc
<1>3. PICK pc \in {"reject", "fail"} : run' = To(pc)
  BY DEF CheckRestored, Continue
<1>4. pc \in DecidePc /\ pc # "confirm" /\ pc \notin WritePc \union {"restore"}
  BY DEF DecidePc, WritePc
<1>5. RunTells' /\ WriteTells' /\ (Writing' => Writing)
  BY <1>1, <1>2, <1>3, <1>4, MoveTells DEF Processes, Decides
<1> QED
  BY <1>1, <1>5, UnsaidTells DEF Stands

LEMMA StopTells ==
  ASSUME Told, End \/ Interrupt
  PROVE  Told'
<1>1. run' = None /\ UNCHANGED <<sheet, late>> /\ Unsaid
  BY DEF End, Interrupt, Unsaid, world
<1>2. RunTells' /\ WriteTells' /\ ~Writing'
  BY <1>1 DEF RunTells, WriteTells, Writing, Processes, Decides
<1> QED
  BY <1>1, <1>2, UnsaidTells DEF Stands

(* The steps around an operation that write only blank rows.                 *)
LEMMA AroundTells ==
  ASSUME ConstantsAssumption, AppendInv, Told, Unsaid, UNCHANGED run, Stands(sheet, sheet'),
         \A entry \in late' : entry \in late
  PROVE  Told'
<1>1. Level' <=> Level
  BY DEF Level, Unsaid
<1>2. (Processes' <=> Processes) /\ (Decides' <=> Decides) /\ (Writing' <=> Writing)
  BY DEF Processes, Decides, Writing
<1>3. ASSUME Processes, run.pc \notin EndPc
      PROVE  ProcessTells'
  <2>1. ProcessTells
    BY <1>3 DEF Told, RunTells
  <2>2. RowsApart => RowsApart'
    <3>1. SUFFICES ASSUME RowsApart
                   PROVE  /\ HoldsTeams(sheet', run.place) /\ HoldsTeams(sheet', run.old.place)
                          /\ \A k \in run.registered :
                               /\ run.place[k] \notin run.dups[k]
                               /\ \A r \in run.dups[k] : HoldsTeam(sheet', r, k)
      BY DEF RowsApart
    <3>2. \A k \in run.registered : run.dups[k] \subseteq Row
      BY <1>3, RunTyped DEF AppendInv, TypeInv, ProcessRun
    <3> QED
      BY <3>1, <3>2, StandsHold DEF RowsApart
  <2>3. WritesTeams => WritesTeams'
    BY DEF WritesTeams, Clean, Unsaid
  <2>4. run.pc = "terminal" => \A k \in run.registered : sheet'[run.place[k]] = Clean(k)'
    <3>1. SUFFICES ASSUME run.pc = "terminal", NEW k \in run.registered
                   PROVE  sheet'[run.place[k]] = Clean(k)
      BY DEF Clean, Unsaid
    <3>2. run.place[k] \in Row /\ content[run.inv][k] # None /\ k \in Team
      BY <1>3, PlacesHold DEF AppendInv, Absent
    <3>3. Clean(k) \in Entry
      BY <1>3, <3>2, HeldRows DEF AppendInv
    <3>4. sheet[run.place[k]] # Blank
      BY <2>1, <3>1, <3>3, CellAssumption DEF ProcessTells, CellAssumption
    <3> QED
      BY <2>1, <3>1, <3>2, <3>4 DEF ProcessTells, Stands
  <2>5. \A k \in Team : Absent(run.inv, k)' <=> Absent(run.inv, k)
    BY DEF Absent, Unsaid
  <2> QED
    BY <1>1, <2>1, <2>2, <2>3, <2>4, <2>5 DEF ProcessTells, Unsaid
<1>4. Confirming => Confirming'
  <2>1. SUFFICES ASSUME Confirming
                 PROVE  /\ HoldsTeams(sheet', run.old.place) /\ HoldsEntries(sheet', run.old)
                        /\ Level => record.status \in Editable
    BY <1>1 DEF Confirming, Unsaid
  <2> QED
    BY <2>1, StandsHold DEF Confirming
<1>5. RunTells'
  BY <1>2, <1>3, <1>4 DEF RunTells, Told
<1>6. WriteTells'
  BY <1>1, <1>2 DEF WriteTells, Told, Unsaid, Rowless, Places
<1> QED
  BY <1>2, <1>5, <1>6, UnsaidTells

LEMMA LateUpsertTells ==
  ASSUME ConstantsAssumption, AppendInv, Told,
         NEW entry \in late, entry[2].type = "upsert", Upsert(entry[2]),
         late' = late \ {entry}, UNCHANGED <<content, sheet, run>>
  PROVE  Told'
<1> DEFINE req == entry[2]
<1>1. req \in Upserts
  BY DEF AppendInv, TypeInv, TypeOK, Request, Upserts
<1>2. /\ req.expected = None => Rowless(req.new)
      /\ req.expected # None /\ req.new.status \in Live => Truthful(sheet, req.new) /\ ~Writing
  BY DEF Told, LateTells, Upsert, Accepts
<1> HIDE DEF req
<1>3. /\ record'.version = record.version + 1 /\ record.version \in Nat
      /\ record'.status = req.new.status /\ record'.place = req.new.place
  BY <1>1 DEF Upsert, Upserted, Upserts, Submission, AppendInv, TypeInv, TypeOK, req
<1>4. Truthful(sheet, req.new)
  <2>1. Concluded \subseteq Live /\ {"applying", "empty"} \intersect Concluded = {}
    BY DEF Concluded, Live, Editable, Actionable
  <2> QED
    BY <1>2, <2>1 DEF Truthful, Rowless, HoldsTeams
<1>5. run # None => ~Level'
  BY <1>3, RunTyped DEF Level, AppendInv, TypeInv, RunKnows
<1>6. RunTells'
  <2>1. ASSUME ProcessTells, run # None PROVE ProcessTells'
    BY <1>5, <2>1 DEF ProcessTells, RowsApart, WritesTeams, Absent, Clean
  <2>2. ASSUME Confirming, run # None PROVE Confirming'
    BY <1>5, <2>2 DEF Confirming
  <2> QED
    BY <2>1, <2>2 DEF RunTells, Told, Processes, Decides
<1>7. WriteTells'
  <2>1. SUFFICES ASSUME Writing, req.new.status \in Live
                 PROVE  Rowless(req.new)
    BY <1>3 DEF WriteTells, Writing, Rowless
  <2> QED
    BY <1>2, <2>1
<1> QED
  BY <1>1, <1>4, <1>6, <1>7, UpsertTells DEF req

LEMMA ApplyLateTells ==
  ASSUME ConstantsAssumption, AppendInv, Told, ~Misled', ApplyLate
  PROVE  Told'
<1>1. UNCHANGED <<content, run, over, shown, others, appends, faults, clicks>>
  BY DEF ApplyLate
<1>2. PICK entry \in late :
        /\ late' = late \ {entry}
        /\ \/ entry[2].type = "upsert" /\ Upsert(entry[2]) /\ UNCHANGED sheet
           \/ /\ entry[2].type = "append" /\ LastRow(sheet) < MaxRow
              /\ sheet' = Appended(sheet, entry[2].cell) /\ UNCHANGED record
           \/ /\ entry[2].type = "write" /\ UNCHANGED record
              /\ Note(IF sheet' = sheet THEN {} ELSE {"late write"})
           \/ entry[2].type = "bind" /\ record' = Bind(entry[2].inv) /\ UNCHANGED sheet
  BY Zenon DEF ApplyLate
<1>3. entry[2] \in Request /\ RecordOK /\ TypeInv /\ \A e \in late' : e \in late
  BY <1>2, Parts DEF AppendInv, LateOK
<1>4. UNCHANGED sheet => Stands(sheet, sheet')
  BY DEF Stands
<1>5. CASE entry[2].type = "upsert" /\ Upsert(entry[2]) /\ UNCHANGED sheet
  BY <1>1, <1>2, <1>5, LateUpsertTells
<1>6. CASE /\ entry[2].type = "append" /\ LastRow(sheet) < MaxRow
           /\ sheet' = Appended(sheet, entry[2].cell) /\ UNCHANGED record
  <2>1. Unsaid /\ Stands(sheet, sheet')
    BY <1>1, <1>3, <1>6, AppendStands DEF Unsaid
  <2> QED
    BY <1>1, <1>3, <2>1, AroundTells
<1>7. CASE UNCHANGED record /\ Note(IF sheet' = sheet THEN {} ELSE {"late write"})
  <2>1. UNCHANGED sheet /\ Unsaid
    BY <1>1, <1>7 DEF Note, Misled, Had, Unsaid
  <2> QED
    BY <1>1, <1>3, <1>4, <2>1, AroundTells
<1>8. CASE entry[2].type = "bind" /\ record' = Bind(entry[2].inv) /\ UNCHANGED sheet
  <2>1. entry[2].inv \in Invocation
    BY <1>3, <1>8 DEF Request, Upserts
  <2>2. Unsaid
    BY <1>1, <1>3, <1>8, <2>1, BindTyped DEF Unsaid
  <2> QED
    BY <1>1, <1>3, <1>4, <1>8, <2>2, AroundTells
<1> QED
  BY <1>2, <1>5, <1>6, <1>7, <1>8

LEMMA OtherAppendsTells ==
  ASSUME ConstantsAssumption, AppendInv, Told, OtherAppends \/ UNCHANGED vars
  PROVE  Told'
<1>1. /\ Unsaid /\ UNCHANGED <<run, late>>
      /\ UNCHANGED sheet \/ (LastRow(sheet) < MaxRow /\ sheet' = Appended(sheet, Other))
  BY DEF OtherAppends, Unsaid, vars, world
<1>2. Stands(sheet, sheet')
  <2>1. UNCHANGED sheet => Stands(sheet, sheet')
    BY DEF Stands
  <2> QED
    BY <1>1, <2>1, AppendStands DEF AppendInv
<1> QED
  BY <1>1, <1>2, AroundTells

LEMMA InitTold ==
  ASSUME ConstantsAssumption, Init
  PROVE  ToldInv
<1>1. AppendInv
  BY InitKnows
<1>2. record = Missing /\ run = None /\ late = {}
  BY DEF Init
<1>3. None \notin Row
  BY ConstantsAssumption DEF ConstantsAssumption, Row
<1>4. Truthful(sheet, record)
  BY <1>2, <1>3 DEF Missing, Truthful, HoldsTeams, Concluded, Actionable
<1>5. RunTells /\ WriteTells /\ LateTells
  BY <1>2 DEF RunTells, WriteTells, LateTells, Writing, Processes, Decides
<1> QED
  BY <1>1, <1>4, <1>5 DEF ToldInv, Told

LEMMA NextTells ==
  ASSUME ConstantsAssumption, ToldInv, [Next]_vars
  PROVE  ToldInv'
<1>1. AppendInv /\ AppendInv' /\ (Misled => Misled')
  BY NextKnows, PastGrows DEF ToldInv, Misled, Had
<1>2. CASE Misled'
  BY <1>1, <1>2 DEF ToldInv
<1>3. CASE Told /\ ~Misled'
  <2> SUFFICES Told'
    BY <1>1 DEF ToldInv
  <2>1. CASE ProcessStep
    <3>1. CASE \E i \in Invocation : Start(i)
      BY <1>1, <1>3, <3>1, StartTells
    <3>2. ASSUME NEW k \in Team, ProcessEntry(k) PROVE Told'
      <4>1. CASE run # None /\ run.pc \in {"entry", "reconcile", "readback"} /\ ReadFails
        BY <1>1, <1>3, <4>1, ReadFailsTells DEF WritePc
      <4> QED
        BY <1>1, <1>3, <3>2, <4>1, FindTells, BeforeAppendTells, RequestTells DEF ProcessEntry
    <3>3. CASE PersistAppended \/ PersistApplying \/ PersistTerminal
      BY <1>1, <1>3, <3>3, PersistAppendedTells, PersistApplyingTells, PersistTerminalTells
    <3>4. CASE ReadSnapshot \/ SetConfirmation \/ EnableButtons
      BY <1>1, <1>3, <3>4, ReadSnapshotTells, ConfirmationTells
    <3> QED
      BY <2>1, <3>1, <3>2, <3>3, <3>4 DEF ProcessStep
  <2>2. CASE DecideStep
    BY <1>1, <1>3, <2>2, DecideTells, PersistDecisionTells, RestoreTells, CheckRestoredTells
       DEF DecideStep
  <2>3. CASE Write \/ ReadBackWrite \/ End \/ Interrupt
    BY <1>1, <1>3, <2>3, WriteTellsTruth, ReadBackWriteTells, StopTells
  <2>4. CASE ApplyLate \/ OtherAppends \/ UNCHANGED vars
    BY <1>1, <1>3, <2>4, ApplyLateTells, OtherAppendsTells
  <2> QED
    BY <2>1, <2>2, <2>3, <2>4 DEF Next
<1> QED
  BY <1>1, <1>2, <1>3 DEF ToldInv

(* A record that can be decided, or is confirmed, tells the truth, through any
   number of interrupts, lost answers and late requests, unless a pending place
   was forgotten or a sheet write that was given up changed the sheet.  No two
   teams ever share a row, so what an operation blanks and rewrites leaves the
   other teams' rows alone; what it wrote is checked before it concludes the
   record; and while a write is under way the record is one that nobody can
   confirm, except for a late first upsert, which places no row.             *)
THEOREM TellsTheTruth == Spec => []ShownAsRecorded
<1>1. Init => ToldInv
  BY InitTold, ConstantsAssumption
<1>2. ToldInv /\ [Next]_vars => ToldInv'
  BY NextTells, ConstantsAssumption
<1>3. ToldInv => ShownAsRecorded
  <2>1. \A row \in Row : row # Column
    BY DEF Row, Column
  <2> QED
    BY <2>1 DEF ToldInv, Told, Truthful, HoldsEntries, Concluded, ShownAsRecorded, Misled
<1> QED
  BY <1>1, <1>2, <1>3, PTL DEF Spec

================================================================================
