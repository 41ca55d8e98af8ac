----------------------------- MODULE TeamRowsProofs -----------------------------
(***************************************************************************)
(* No row of a message is orphaned: RowsAreKnown of TeamSubmissions, for   *)
(* any number of teams, values, invocations, rows, faults and presses.     *)
(*                                                                         *)
(* A team is in one row at most, or its append is on its way, and the      *)
(* record and the operation know which.  The row of a team that was        *)
(* removed is in the snapshot until it is blank.                           *)
(***************************************************************************)
EXTENDS TeamSubmissionsProofs

Unknowing == Had({"adopted", "forgotten", "overwritten", "late write", "unblanked"})

(* The rows each team stands in, and its appends that may still arrive.      *)
Standing == [k \in Team |-> {r \in Row : TeamAt(r) = k}]
Coming == [k \in Team |-> {entry \in late : entry[2].type = "append" /\ entry[2].cell.team = k}]

(* A pending place stands for one row or one append, any other for itself.   *)
Accounted(at, coming, p) ==
  IF p = Column
  THEN /\ \A r, q \in at : r = q
       /\ \A e, f \in coming : e = f
       /\ at = {} \/ coming = {}
  ELSE coming = {} /\ at \subseteq {p}

Keyed(items, k, p) == p \in Row => \E item \in items : item.key = k /\ item.row = p

(* An unfinished record may have dropped a team whose row is not blank yet.   *)
Remains(at, coming, rec, k) ==
  rec.status = "applying" /\ rec.place[k] = None /\ coming = {} /\ at \subseteq RowsIn(rec.snap)
KnownLive(at, coming, rec, k) ==
  Keyed(rec.snap, k, rec.place[k])
    /\ (Accounted(at, coming, rec.place[k]) \/ Remains(at, coming, rec, k))
KnownEnded(at, coming, rec, k) ==
  rec.place[k] = Column \/ (coming = {} /\ at \subseteq {rec.place[k]} \union RowsIn(rec.snap))
KnownRows(standing, coming, rec) ==
  \A k \in Team :
    IF rec.status \in Live THEN KnownLive(standing[k], coming[k], rec, k)
    ELSE KnownEnded(standing[k], coming[k], rec, k)

PlaceNow(k) == IF run.pc \in {"reconcile", "readback"} /\ k = run.team THEN Column ELSE run.place[k]
AtWork == Processes /\ run.pc \notin EndPc \union {"bind", "enable"}
Changing == Processes /\ run.pc \in Unplacing \union WritePc

PlacesKnown == \A k \in Team : Accounted(Standing[k], Coming[k], PlaceNow(k)) /\ run.dups[k] = {}

(* What the operation places is in the snapshot that it will record.         *)
PlacesKeyed ==
  /\ run.pc \in EntryPc \union {"data"} => \A k \in Team : Keyed(run.undo, k, run.place[k])
  /\ run.pc \in WritePc \union {"applying", "terminal"} =>
       \A k \in run.registered : Keyed(run.snap, k, run.place[k])

WriteKnown ==
  /\ run.pc \in WritePc \union {"applying"} =>
       /\ run.data = Updates
       /\ \A k \in Removed : run.old.place[k] \in Row => run.old.place[k] \in RowsIn(run.snap)
  /\ run.pc \in WritePc =>
       /\ record.status = "applying" /\ record.place = Places(run.registered)
       /\ record.snap = run.snap
  /\ run.pc \in WritePc \union {"terminal"} =>
       \A k \in Team \ run.registered : run.place[k] # Column
  /\ run.pc = "terminal" => \A k \in Team \ run.registered : Standing[k] = {}

ProcessKnown ==
  /\ PlacesKnown /\ PlacesKeyed /\ WriteKnown
  /\ run.pc \in Unplacing => record.status = "applying" /\ record.place[run.team] = Column
  /\ run.pc = "append" => run.place[run.team] = None

(* What a decision is made about, and what a rollback writes.                *)
DecideKnown ==
  /\ Level => record.snap = run.old.snap /\ (run.pc = "confirm" => record.status \in Actionable)
  /\ run.pc \in WritePc \union {"restore"} => record.status \notin Live /\ record.snap = run.old.snap
  /\ run.pc \in WritePc => run.data \subseteq run.old.snap

Forgetful(inv, new) ==
  \E k \in Team : Absent(inv, k) /\ record.place[k] = Column /\ new.place[k] = None

LateKnown ==
  \A entry \in late :
    /\ entry[2].type = "append" => entry[2].cell \in Entry
    /\ entry[2].type = "upsert" /\ entry[2].expected = record.version =>
         /\ ~Changing
         /\ entry[2].new.status \in Live =>
              KnownRows(Standing, Coming, entry[2].new) \/ Forgetful(entry[2].inv, entry[2].new)
         /\ entry[2].new.status \notin Live =>
              entry[2].new.place = record.place /\ entry[2].new.snap = record.snap

Known ==
  /\ 1 \in OtherRow /\ KnownRows(Standing, Coming, record) /\ LateKnown
  /\ AtWork => ProcessKnown
  /\ Decides => DecideKnown

KnownInv == ToldInv /\ (Unknowing \/ Known)

-----------------------------------------------------------------------------
(* The rows of the teams.                                                    *)
LEMMA StandingIs ==
  ASSUME ConstantsAssumption, TypeOK, NEW k \in Team
  PROVE  Standing[k] = {r \in Row : r \notin OtherRow /\ HoldsTeam(sheet, r, k)}
<1>1. None \notin Team /\ {Blank, Other} \intersect Entry = {}
  BY CellAssumption DEF ConstantsAssumption, Team, CellAssumption
<1>2. \A r \in Row : sheet[r] \in {Blank, Other} \union Entry
  BY DEF TypeOK, Cell
<1> QED
  BY <1>1, <1>2 DEF Standing, TeamAt, HoldsTeam

LEMMA ComingIs ==
  ASSUME NEW k \in Team
  PROVE  Coming[k] = {entry \in late : entry[2].type = "append" /\ entry[2].cell.team = k}
BY DEF Coming

(* Fewer rows and appends, or an append that has arrived, are known as well.  *)
Settles(at, coming, at2, coming2) ==
  /\ coming2 \subseteq coming
  /\ at2 \subseteq at \/ \E e \in coming \ coming2 : \E r : at2 \subseteq at \union {r}

LEMMA SettledIs ==
  ASSUME NEW at, NEW coming, NEW at2, NEW coming2, Settles(at, coming, at2, coming2)
  PROVE  /\ \A p : Accounted(at, coming, p) => Accounted(at2, coming2, p)
         /\ \A rec : \A k : KnownLive(at, coming, rec, k) => KnownLive(at2, coming2, rec, k)
         /\ \A rec : \A k : KnownEnded(at, coming, rec, k) => KnownEnded(at2, coming2, rec, k)
<1>1. ASSUME coming = {} PROVE coming2 = {} /\ at2 \subseteq at
  BY <1>1 DEF Settles
<1>2. ASSUME Accounted(at, coming, Column) PROVE Accounted(at2, coming2, Column)
  <2>1. CASE at2 \subseteq at
    BY <1>2, <2>1 DEF Accounted, Settles
  <2>2. CASE \E e \in coming \ coming2 : \E r : at2 \subseteq at \union {r}
    <3>1. at = {} /\ coming2 = {}
      BY <1>2, <2>2 DEF Accounted, Settles
    <3> QED
      BY <2>2, <3>1 DEF Accounted
  <2> QED
    BY <2>1, <2>2 DEF Settles
<1>3. ASSUME NEW p, Accounted(at, coming, p) PROVE Accounted(at2, coming2, p)
  <2>1. CASE p = Column
    BY <1>2, <1>3, <2>1
  <2>2. CASE p # Column
    BY <1>1, <1>3, <2>2 DEF Accounted
  <2> QED
    BY <2>1, <2>2
<1>4. \A rec : \A k : Remains(at, coming, rec, k) => Remains(at2, coming2, rec, k)
  BY <1>1 DEF Remains
<1> QED
  BY <1>1, <1>3, <1>4 DEF KnownLive, KnownEnded

LEMMA SettledRows ==
  ASSUME NEW s, NEW c, NEW s2, NEW c2, \A k \in Team : Settles(s[k], c[k], s2[k], c2[k])
  PROVE  \A rec : KnownRows(s, c, rec) => KnownRows(s2, c2, rec)
<1>1. ASSUME NEW rec, KnownRows(s, c, rec), NEW k \in Team
      PROVE  IF rec.status \in Live THEN KnownLive(s2[k], c2[k], rec, k)
             ELSE KnownEnded(s2[k], c2[k], rec, k)
  <2>1. /\ KnownLive(s[k], c[k], rec, k) => KnownLive(s2[k], c2[k], rec, k)
        /\ KnownEnded(s[k], c[k], rec, k) => KnownEnded(s2[k], c2[k], rec, k)
    BY SettledIs
  <2> QED
    BY <1>1, <2>1 DEF KnownRows
<1> QED
  BY <1>1 DEF KnownRows

(* A record that ends knows what it knew, and one that says the same the same. *)
LEMMA EndedKnown ==
  ASSUME NEW s, NEW c, NEW rec, NEW new, KnownRows(s, c, rec), new.place = rec.place,
         new.snap = rec.snap, new.status \notin Live \/ new.status = rec.status
                                \/ {rec.status, new.status} \subseteq Live \ {"applying"}
  PROVE  KnownRows(s, c, new)
<1>1. \A k : Accounted(s[k], c[k], rec.place[k]) => KnownEnded(s[k], c[k], rec, k)
  BY DEF Accounted, KnownEnded
<1>2. \A k : Remains(s[k], c[k], rec, k) => KnownEnded(s[k], c[k], rec, k)
  BY DEF Remains, KnownEnded
<1>3. CASE new.status \notin Live
  BY <1>1, <1>2, <1>3 DEF KnownRows, KnownLive, KnownEnded
<1>4. CASE new.status = rec.status
  BY <1>4 DEF KnownRows, KnownLive, KnownEnded, Remains
<1>5. CASE {rec.status, new.status} \subseteq Live \ {"applying"}
  BY <1>5 DEF KnownRows, KnownLive, Remains
<1> QED
  BY <1>3, <1>4, <1>5

(* What the invariant says of the rows is that they are known.               *)
LEMMA KnownAreKnown ==
  ASSUME ConstantsAssumption, TypeOK, KnownRows(Standing, Coming, record)
  PROVE  \A r \in Row : TeamAt(r) # None =>
           \/ record.place[TeamAt(r)] \in {r, Column}
           \/ r \in RowsIn(record.snap)
<1>1. SUFFICES ASSUME NEW r \in Row, TeamAt(r) # None
               PROVE  \/ record.place[TeamAt(r)] \in {r, Column}
                      \/ r \in RowsIn(record.snap)
  OBVIOUS
<1>2. PICK k : k = TeamAt(r)
  OBVIOUS
<1>3. k \in Team
  <2>1. sheet[r] \notin {Blank, Other} => sheet[r].team \in Team
    BY DEF TypeOK, Cell, Entry
  <2> QED
    BY <1>1, <1>2, <2>1 DEF TeamAt
<1>4. r \in Standing[k]
  BY <1>2, <1>3 DEF Standing
<1>5. \/ KnownLive(Standing[k], Coming[k], record, k)
      \/ KnownEnded(Standing[k], Coming[k], record, k)
  BY <1>3 DEF KnownRows
<1> HIDE DEF Standing, Coming
<1> QED
  BY <1>2, <1>4, <1>5 DEF KnownLive, KnownEnded, Accounted, Remains

(* The steps that leave the sheet, and those that append a row.              *)
Quiet ==
  /\ UNCHANGED sheet /\ OtherRow' = OtherRow
  /\ \A entry \in late' : entry \in late \/ entry[2].type # "append"
AllSettle == \A k \in Team : Settles(Standing[k], Coming[k], Standing'[k], Coming'[k])

LEMMA QuietSettles ==
  ASSUME Quiet
  PROVE  AllSettle
<1>1. ASSUME NEW k \in Team
      PROVE  Standing'[k] = Standing[k] /\ Coming'[k] \subseteq Coming[k]
  <2>1. Standing'[k] = Standing[k]
    BY DEF Quiet, Standing, TeamAt
  <2>2. Coming'[k] \subseteq Coming[k]
    BY DEF Quiet, Coming
  <2> QED
    BY <2>1, <2>2
<1> QED
  BY <1>1 DEF AllSettle, Settles

LEMMA AppendedRows ==
  ASSUME ConstantsAssumption, TypeOK, TypeOK', NEW cell \in Cell, LastRow(sheet) < MaxRow,
         sheet' = Appended(sheet, cell), OtherRow \subseteq OtherRow', NEW k \in Team
  PROVE  /\ Standing'[k] \subseteq Standing[k] \union {LastRow(sheet) + 1}
         /\ cell \in Entry /\ cell.team # k => Standing'[k] \subseteq Standing[k]
         /\ cell \notin Entry => Standing'[k] \subseteq Standing[k]
<1>1. sheet \in [Row -> Cell]
  BY DEF TypeOK
<1>2. /\ LastRow(sheet) + 1 \in Row /\ sheet'[LastRow(sheet) + 1] = cell
  BY <1>1, AppendedKeeps
<1>3. \A r \in Row : r # LastRow(sheet) + 1 => sheet'[r] = sheet[r]
  BY <1>1, <1>2 DEF Appended
<1>4. Standing[k] = {r \in Row : r \notin OtherRow /\ HoldsTeam(sheet, r, k)}
  BY StandingIs
<1>5. Standing'[k] = {r \in Row : r \notin OtherRow' /\ HoldsTeam(sheet', r, k)}
  <2>1. None \notin Team /\ {Blank, Other} \intersect Entry = {}
    BY CellAssumption DEF ConstantsAssumption, Team, CellAssumption
  <2>2. \A r \in Row : sheet'[r] \in {Blank, Other} \union Entry
    BY DEF TypeOK, Cell
  <2> QED
    BY <2>1, <2>2 DEF Standing, TeamAt, HoldsTeam
<1> QED
  BY <1>2, <1>3, <1>4, <1>5 DEF HoldsTeam

-----------------------------------------------------------------------------
(* What a step keeps of the record and the requests given up.                *)
SameRecord ==
  /\ record'.version = record.version /\ record'.place = record.place
  /\ record'.status = record.status /\ record'.snap = record.snap /\ content' = content
Standstill ==
  /\ SameRecord /\ OtherRow \subseteq OtherRow' /\ (Changing' => Changing)
  /\ \A entry \in late' :
       \/ entry \in late
       \/ entry[2].type # "upsert" /\ (entry[2].type = "append" => entry[2].cell \in Entry)
  /\ AllSettle

LEMMA StandstillKnown ==
  ASSUME Known, Standstill
  PROVE  1 \in OtherRow' /\ KnownRows(Standing', Coming', record') /\ LateKnown'
<1>1. \A rec : KnownRows(Standing, Coming, rec) => KnownRows(Standing', Coming', rec)
  <2>1. PICK s, c, t, d : s = Standing /\ c = Coming /\ t = Standing' /\ d = Coming'
    OBVIOUS
  <2> QED
    BY <2>1, SettledRows DEF Standstill, AllSettle
<1>2. KnownRows(Standing', Coming', record')
  <2>1. PICK s, c, rec, new : s = Standing' /\ c = Coming' /\ rec = record /\ new = record'
    OBVIOUS
  <2>2. KnownRows(s, c, rec)
    BY <1>1, <2>1 DEF Known
  <2>3. KnownRows(s, c, new)
    BY <2>1, <2>2, EndedKnown DEF Standstill, SameRecord
  <2> QED
    BY <2>1, <2>3
<1>3. LateKnown'
  <2>1. ASSUME NEW entry \in late'
        PROVE  /\ entry[2].type = "append" => entry[2].cell \in Entry
               /\ entry[2].type = "upsert" /\ entry[2].expected = record'.version =>
                    /\ ~Changing'
                    /\ entry[2].new.status \in Live =>
                         \/ KnownRows(Standing', Coming', entry[2].new)
                         \/ Forgetful(entry[2].inv, entry[2].new)'
                    /\ entry[2].new.status \notin Live =>
                         entry[2].new.place = record'.place /\ entry[2].new.snap = record'.snap
    <3>1. CASE entry \in late
      <4>1. Forgetful(entry[2].inv, entry[2].new) => Forgetful(entry[2].inv, entry[2].new)'
        BY DEF Forgetful, Standstill, SameRecord, Absent
      <4>2. /\ entry[2].type = "append" => entry[2].cell \in Entry
            /\ entry[2].type = "upsert" /\ entry[2].expected = record.version =>
                 /\ ~Changing
                 /\ entry[2].new.status \in Live =>
                      \/ KnownRows(Standing, Coming, entry[2].new)
                      \/ Forgetful(entry[2].inv, entry[2].new)
                 /\ entry[2].new.status \notin Live =>
                      entry[2].new.place = record.place /\ entry[2].new.snap = record.snap
        BY <3>1 DEF Known, LateKnown
      <4>3. KnownRows(Standing, Coming, entry[2].new) => KnownRows(Standing', Coming', entry[2].new)
        BY <1>1
      <4> QED
        BY <4>1, <4>2, <4>3 DEF Standstill, SameRecord
    <3>2. CASE entry \notin late
      BY <2>1, <3>2 DEF Standstill
    <3> QED
      BY <3>1, <3>2
  <2> QED
    BY <2>1 DEF LateKnown
<1> QED
  BY <1>2, <1>3 DEF Known, Standstill

-----------------------------------------------------------------------------
(* What a step makes of the operation.                                       *)
RunKnown == (AtWork => ProcessKnown) /\ (Decides => DecideKnown)

LEMMA NobodyKnown ==
  ASSUME run = None
  PROVE  RunKnown /\ ~Changing
BY DEF RunKnown, AtWork, Processes, Decides, Changing

LEMMA DecideMovesKnown ==
  ASSUME DecideKnown, SameRecord, run' # None, run'.op = "decide",
         run'.old = run.old, run'.version = run.version, run'.pc # "confirm",
         run'.pc \in WritePc \union {"restore"} => run.pc \in WritePc \union {"restore"},
         run'.pc \in WritePc => run'.data \subseteq run.old.snap
  PROVE  RunKnown' /\ ~Changing'
<1>1. ~Processes' /\ Decides' /\ (Level' <=> Level)
  BY DEF Processes, Decides, Level, SameRecord
<1>2. DecideKnown'
  BY <1>1 DEF DecideKnown, SameRecord
<1> QED
  BY <1>1, <1>2 DEF RunKnown, AtWork, Changing

(* An operation that has failed or ended, or is about to bind.               *)
LEMMA IdleKnown ==
  ASSUME AppendInv, run # None, Known, SameRecord,
         NEW pc \in EndPc \union {"bind", "enable"}, run' = To(pc), Decides => pc \in EndPc
  PROVE  RunKnown' /\ ~Changing'
<1>1. pc \notin WritePc \union {"restore", "confirm"} \union Unplacing
  BY DEF EndPc, WritePc, Unplacing
<1>2. CASE Processes
  <2>1. pc \in ProcessPc
    BY DEF ProcessPc
  <2>2. run'.op = "process" /\ run'.pc = pc
    BY <1>2, <2>1, ToProcess, RunTyped DEF AppendInv, TypeInv, KeptBut, Processes
  <2> QED
    BY <1>1, <2>2 DEF RunKnown, AtWork, Decides, Changing
<1>3. CASE Decides
  <2>1. pc \in DecidePc
    BY <1>3 DEF DecidePc
  <2>2. /\ run' \in DecideRun /\ run'.op = "decide" /\ run'.pc = pc /\ run'.old = run.old
        /\ run'.version = run.version
    BY <1>3, <2>1, ToDecide, RunTyped DEF AppendInv, TypeInv, KeptBut, Decides
  <2>3. run' # None /\ DecideKnown
    BY <1>3, <2>2, NoneAssumption DEF Known
  <2> QED
    BY <1>1, <2>2, <2>3, DecideMovesKnown
<1> QED
  BY <1>2, <1>3, RunTyped DEF AppendInv, TypeInv

LEMMA FailedKnown ==
  ASSUME AppendInv, run # None, Known, SameRecord, run' = Failed
  PROVE  RunKnown' /\ ~Changing'
<1>1. Failed = To("failed") /\ "failed" \in EndPc
  BY DEF Failed, To, EndPc
<1> QED
  BY <1>1, IdleKnown

(* A row is registered for the team that the operation stands at.            *)
LEMMA RegisteredKnown ==
  ASSUME ConstantsAssumption, AppendInv, Processes, run.pc \in EntryPc, PlacesKnown, PlacesKeyed,
         NEW row \in Row, Accounted(Standing'[run.team], Coming'[run.team], row),
         \A j \in Team \ {run.team} : Settles(Standing[j], Coming[j], Standing'[j], Coming'[j]),
         \/ run' = RegisterAppended(run.team, {row})
         \/ run' = Onward(Register(run.team, {row})) /\ row = run.place[run.team]
  PROVE  RunKnown' /\ ~Changing'
<1>1. /\ run \in ProcessRun /\ run.team \in Team /\ run.place \in [Team -> Place]
      /\ run.dups \in [Team -> SUBSET Row]
  BY AtTeamFacts DEF AppendInv, ProcessRun
<1>2. Min({row}) = row
  BY MinRow
<1>3. PICK rows : rows = {row}
  OBVIOUS
<1>4. rows \subseteq Row /\ rows # {} /\ rows \ {Min(rows)} = {} /\ Min(rows) = row
  BY <1>2, <1>3
<1>5. /\ run' # None /\ KeptBut(run') /\ run'.op = "process"
      /\ run'.pc \in {"interim", "entry", "data"}
      /\ run'.place = [run.place EXCEPT ![run.team] = Min(rows)]
      /\ run'.dups = [run.dups EXCEPT ![run.team] = rows \ {Min(rows)}]
      /\ \/ run'.undo = Without(run.undo, run.team) \union BlankRows(run.team, rows)
         \/ run'.undo = run.undo /\ run' = Onward(Register(run.team, rows))
  BY <1>3, <1>4, RegisteredMoves
<1>6. /\ Processes' /\ ~Decides' /\ ~Changing'
      /\ run'.pc \notin {"reconcile", "readback", "applying", "terminal"} \union WritePc \union Unplacing
  <2>1. Processes' /\ ~Decides'
    BY <1>5 DEF Processes, Decides
  <2>2. run'.pc \notin {"reconcile", "readback", "applying", "terminal"} \union WritePc \union Unplacing
    BY <1>5 DEF WritePc, Unplacing
  <2> QED
    BY <2>1, <2>2 DEF Changing
<1>7. /\ \A j \in Team : run'.place[j] = IF j = run.team THEN row ELSE run.place[j]
      /\ \A j \in Team : run'.dups[j] = IF j = run.team THEN {} ELSE run.dups[j]
  BY <1>1, <1>4, <1>5
<1>8. PlacesKnown'
  <2>1. ASSUME NEW j \in Team
        PROVE  Accounted(Standing'[j], Coming'[j], run'.place[j]) /\ run'.dups[j] = {}
    <3>1. CASE j = run.team
      BY <1>7, <3>1
    <3>2. CASE j # run.team
      <4>1. Accounted(Standing[j], Coming[j], run.place[j]) /\ run.dups[j] = {}
        BY <3>2 DEF PlacesKnown, PlaceNow
      <4>2. Settles(Standing[j], Coming[j], Standing'[j], Coming'[j])
        BY <3>2
      <4> QED
        BY <1>7, <3>2, <4>1, <4>2, SettledIs
    <3> QED
      BY <3>1, <3>2
  <2>2. \A j \in Team : PlaceNow(j)' = run'.place[j]
    BY <1>6 DEF PlaceNow
  <2> QED
    BY <2>1, <2>2 DEF PlacesKnown
<1>9. PlacesKeyed'
  <2>1. ASSUME NEW j \in Team
        PROVE  Keyed(run'.undo, j, run'.place[j])
    <3>1. Keyed(run.undo, j, run.place[j])
      BY DEF PlacesKeyed
    <3>2. CASE run'.undo = run.undo /\ run' = Onward(Register(run.team, rows))
      <4>1. run'.place[j] = run.place[j]
        <5>1. CASE run' = RegisterAppended(run.team, {row})
          <6>1. RegisterAppended(run.team, rows).pc = "interim"
            BY <1>1, <1>4, RegisterAppendedTyped
          <6>2. Onward(Register(run.team, rows)).pc \in {"entry", "data"}
            <7>1. PICK r : r = Register(run.team, rows)
              OBVIOUS
            <7>2. r \in ProcessRun
              BY <1>1, <1>4, <7>1, RegisterTyped
            <7> QED
              BY <1>1, <7>1, <7>2, OnwardTyped
          <6> QED
            BY <1>3, <3>2, <5>1, <6>1, <6>2
        <5>2. CASE row = run.place[run.team]
          BY <1>7, <5>2
        <5> QED
          BY <5>1, <5>2
      <4> QED
        BY <3>1, <3>2, <4>1
    <3>3. CASE run'.undo = Without(run.undo, run.team) \union BlankRows(run.team, rows)
      <4>1. CASE j = run.team
        <5>1. BlankRow(j, row) \in run'.undo /\ BlankRow(j, row).key = j /\ BlankRow(j, row).row = row
          BY <1>3, <3>3, <4>1 DEF BlankRows, BlankRow
        <5> QED
          BY <1>7, <4>1, <5>1 DEF Keyed
      <4>2. CASE j # run.team
        BY <1>7, <3>1, <3>3, <4>2 DEF Keyed, Without
      <4> QED
        BY <4>1, <4>2
    <3> QED
      BY <1>5, <3>2, <3>3
  <2> QED
    BY <1>6, <2>1 DEF PlacesKeyed
<1>10. ProcessKnown'
  BY <1>6, <1>8, <1>9 DEF ProcessKnown, WriteKnown, Unplacing
<1> QED
  BY <1>6, <1>10 DEF RunKnown

-----------------------------------------------------------------------------
(* The steps among the entries.                                              *)
LEMMA FoundStands ==
  ASSUME ConstantsAssumption, TypeInv, Processes, run.pc \in EntryPc
  PROVE  /\ \A r \in Found(run.team) \union RowsWith(Marked(run.team)) :
              r \in Row /\ (r \notin OtherRow => r \in Standing[run.team])
         /\ \A r \in Found(run.team) : sheet[r] \in {Marked(run.team), Clean(run.team)}
<1>1. run.team \in Team /\ content[run.inv][run.team] # None /\ TypeOK
  BY AtTeamFacts DEF TypeInv
<1>2. PICK k : k = run.team
  OBVIOUS
<1>3. /\ \A r \in Found(k) : HoldsTeam(sheet, r, k) /\ r \in Row
      /\ \A r \in RowsWith(Marked(k)) : HoldsTeam(sheet, r, k) /\ r \in Row
  BY <1>1, <1>2, HeldRows, FoundTyped DEF RowsWith
<1>4. Standing[k] = {r \in Row : r \notin OtherRow /\ HoldsTeam(sheet, r, k)}
  BY <1>1, <1>2, StandingIs
<1>5. \A r \in Found(k) : sheet[r] \in {Marked(k), Clean(k)}
  BY DEF Found, RowsWith
<1> QED
  BY <1>2, <1>3, <1>4, <1>5

(* A pending team that is found stands in the one row found.                 *)
LEMMA FoundOnce ==
  ASSUME NEW at, NEW coming, NEW rows, Accounted(at, coming, Column), rows \subseteq at, rows # {}
  PROVE  \E r \in rows : rows = {r} /\ Accounted(at, coming, r)
<1>1. PICK r \in rows : TRUE
  OBVIOUS
<1>2. at = {r} /\ rows = {r} /\ coming = {}
  BY <1>1 DEF Accounted
<1>3. Accounted(at, coming, r)
  BY <1>2 DEF Accounted
<1> QED
  BY <1>2, <1>3

LEMMA FindKnown ==
  ASSUME ConstantsAssumption, AppendInv, Known, ~Unknowing', NEW k \in Team,
         ResolveMapped(k) \/ Reconcile(k) \/ ReadBackAppend(k)
  PROVE  Known'
<1>1. /\ run # None /\ run.pc \in {"entry", "reconcile", "readback"} /\ k = run.team
      /\ UNCHANGED <<content, sheet, record, late, others>>
  BY DEF ResolveMapped, Reconcile, ReadBackAppend, AtEntry, Continue, Adopt, world
<1>2. run.pc \in EntryPc /\ run.pc \notin EndPc \union {"bind", "enable", "interim"}
  BY <1>1 DEF EntryPc, EndPc
<1>3. Processes /\ ~Decides /\ AtWork /\ TypeInv
  BY <1>1, <1>2, RunTyped DEF AppendInv, TypeInv, DecidePc, WritePc, EndPc, AtWork
<1>4. SameRecord /\ AllSettle /\ OtherRow' = OtherRow
  <2>1. Quiet
    BY <1>1 DEF Quiet, OtherRow
  <2> QED
    BY <1>1, <2>1, QuietSettles DEF SameRecord, OtherRow
<1>5. PlacesKnown /\ PlacesKeyed
  BY <1>3 DEF Known, ProcessKnown
<1>6. Standing'[k] = Standing[k] /\ Coming'[k] = Coming[k]
  BY <1>1, <1>4 DEF Standing, Coming, TeamAt
<1>7. Accounted(Standing[k], Coming[k], PlaceNow(k))
  BY <1>5 DEF PlacesKnown
<1>8. run.pc = "entry" => PlaceNow(k) = run.place[k] /\ run.place[k] = run.old.place[k]
  BY <1>1, <1>2, <1>3 DEF AppendInv, RunKnows, GoneThrough, Processes, PlaceNow
<1>9. \/ run' = Failed
      \/ \E row \in Row :
           /\ Accounted(Standing[k], Coming[k], row)
           /\ \/ run' = RegisterAppended(k, {row})
              \/ run' = Onward(Register(k, {row})) /\ row = run.place[k]
  <2>1. ASSUME NEW rows, NEW next, Adopt(rows, next)
        PROVE  run' = next /\ rows \intersect OtherRow = {}
    BY <2>1 DEF Adopt, Note, Unknowing, Had
  <2>2. /\ \A r \in Found(k) \union RowsWith(Marked(k)) :
             r \in Row /\ (r \notin OtherRow => r \in Standing[k])
        /\ \A r \in Found(k) : sheet[r] \in {Marked(k), Clean(k)}
    BY <1>1, <1>2, <1>3, FoundStands
  <2>3. CASE ResolveMapped(k)
    <3>1. PICK row : row = run.old.place[k]
      OBVIOUS
    <3>2. row \in Row /\ run.pc = "entry" /\ row # Column
      BY <2>3, <3>1 DEF ResolveMapped, AtEntry, Row, Column
    <3>3. Accounted(Standing[k], Coming[k], row) /\ row = run.place[k]
      BY <1>7, <1>8, <3>1, <3>2
    <3>4. CASE sheet[row] \in {Marked(k), Clean(k)} \/ Found(k) = {}
      <4>1. run' = Onward(Register(k, {row}))
        BY <2>3, <3>1, <3>4 DEF ResolveMapped, Continue
      <4> QED
        BY <3>2, <3>3, <4>1
    <3>5. CASE sheet[row] \notin {Marked(k), Clean(k)} /\ Found(k) # {}
      <4>1. Found(k) \intersect OtherRow = {}
        BY <2>1, <2>3, <3>1, <3>5 DEF ResolveMapped
      <4>2. Found(k) \subseteq {row}
        BY <2>2, <3>2, <3>3, <4>1 DEF Accounted
      <4> QED
        BY <2>2, <3>5, <4>2
    <3> QED
      BY <3>4, <3>5
  <2>4. CASE Reconcile(k) /\ run' # Failed
    <3>1. PICK rows : rows = Found(k)
      OBVIOUS
    <3>2. /\ rows # {} /\ run' = RegisterAppended(k, rows) /\ rows \intersect OtherRow = {}
          /\ run.pc = "reconcile" \/ (run.pc = "entry" /\ run.old.place[k] = Column)
      BY <2>1, <2>4, <3>1 DEF Reconcile, AtEntry
    <3>3. PlaceNow(k) = Column
      BY <1>1, <1>8, <3>2 DEF PlaceNow
    <3>4. PICK r \in rows : rows = {r} /\ Accounted(Standing[k], Coming[k], r)
      BY <1>7, <2>2, <3>1, <3>2, <3>3, FoundOnce
    <3> QED
      BY <2>2, <3>1, <3>2, <3>4
  <2>5. CASE ReadBackAppend(k) /\ run' # Failed
    <3>1. PICK rows : rows = RowsWith(Marked(k))
      OBVIOUS
    <3>2. /\ rows # {} /\ run' = RegisterAppended(k, rows) /\ rows \intersect OtherRow = {}
          /\ run.pc = "readback"
      BY <2>1, <2>5, <3>1 DEF ReadBackAppend, Continue
    <3>3. PlaceNow(k) = Column
      BY <1>1, <3>2 DEF PlaceNow
    <3>4. PICK r \in rows : rows = {r} /\ Accounted(Standing[k], Coming[k], r)
      BY <1>7, <2>2, <3>1, <3>2, <3>3, FoundOnce
    <3> QED
      BY <2>2, <3>1, <3>2, <3>4
  <2> QED
    BY <2>3, <2>4, <2>5
<1>10. RunKnown' /\ ~Changing'
  <2>1. CASE run' = Failed
    BY <1>1, <1>4, <2>1, FailedKnown
  <2>2. CASE run' # Failed
    BY <1>1, <1>2, <1>3, <1>4, <1>5, <1>6, <1>9, <2>2, RegisteredKnown DEF AllSettle
  <2> QED
    BY <2>1, <2>2
<1>11. Standstill
  BY <1>1, <1>4, <1>10 DEF Standstill
<1> QED
  BY <1>10, <1>11, StandstillKnown DEF Known, RunKnown

LEMMA ReadFailsKnown ==
  ASSUME AppendInv, Known, run # None, ReadFails
  PROVE  Known'
<1>1. run' = Failed /\ UNCHANGED <<content, sheet, record, late, others>>
  BY DEF ReadFails, world
<1>2. SameRecord /\ Quiet /\ OtherRow' = OtherRow
  BY <1>1 DEF SameRecord, Quiet, OtherRow
<1>3. RunKnown' /\ ~Changing'
  BY <1>1, <1>2, FailedKnown
<1>4. Standstill
  BY <1>1, <1>2, <1>3, QuietSettles DEF Standstill
<1> QED
  BY <1>3, <1>4, StandstillKnown DEF Known, RunKnown

-----------------------------------------------------------------------------
(* The steps around an operation, and those that say nothing of the rows.    *)
LEMMA AroundKnown ==
  ASSUME Known, UNCHANGED run, SameRecord, AllSettle
  PROVE  RunKnown' /\ (Changing' => Changing)
<1>1. /\ (Level' <=> Level) /\ (AtWork' <=> AtWork) /\ (Decides' <=> Decides)
      /\ (Changing' <=> Changing)
  BY DEF Level, AtWork, Processes, Decides, Changing, SameRecord
<1>2. ASSUME ProcessKnown PROVE ProcessKnown'
  <2>1. ASSUME NEW j \in Team
        PROVE  /\ Settles(Standing[j], Coming[j], Standing'[j], Coming'[j])
               /\ \A p : Accounted(Standing[j], Coming[j], p) => Accounted(Standing'[j], Coming'[j], p)
    BY SettledIs DEF AllSettle
  <2>2. PlacesKnown'
    BY <1>2, <2>1 DEF ProcessKnown, PlacesKnown, PlaceNow
  <2>3. PlacesKeyed'
    BY <1>2 DEF ProcessKnown, PlacesKeyed, Keyed
  <2>4. Updates' = Updates /\ Removed' = Removed /\ Places(run.registered)' = Places(run.registered)
    BY DEF Updates, Removed, Places, Clean, SameRecord
  <2>5. ASSUME run.pc = "terminal", NEW j \in Team \ run.registered
        PROVE  Standing'[j] = {}
    <3>1. Standing[j] = {} /\ run.place[j] # Column
      BY <1>2, <2>5 DEF ProcessKnown, WriteKnown
    <3>2. Accounted(Standing[j], Coming[j], run.place[j])
      BY <1>2, <2>5 DEF ProcessKnown, PlacesKnown, PlaceNow
    <3>3. Coming[j] = {}
      BY <3>1, <3>2 DEF Accounted
    <3> QED
      BY <2>1, <3>1, <3>3 DEF Settles
  <2>6. WriteKnown'
    <3>1. WriteKnown
      BY <1>2 DEF ProcessKnown
    <3> HIDE DEF Standing
    <3> QED
      BY <2>4, <2>5, <3>1 DEF WriteKnown, SameRecord
  <2> QED
    BY <1>2, <2>2, <2>3, <2>6 DEF ProcessKnown, SameRecord
<1>3. DecideKnown => DecideKnown'
  BY <1>1 DEF DecideKnown, SameRecord
<1> QED
  BY <1>1, <1>2, <1>3 DEF Known, RunKnown

LEMMA OtherAppendsKnown ==
  ASSUME ConstantsAssumption, TypeOK, TypeOK', Known, OtherAppends \/ UNCHANGED vars
  PROVE  Known'
<1>1. /\ SameRecord /\ UNCHANGED <<run, late>> /\ OtherRow \subseteq OtherRow'
      /\ \/ UNCHANGED <<sheet, others>>
         \/ LastRow(sheet) < MaxRow /\ sheet' = Appended(sheet, Other)
  BY DEF OtherAppends, SameRecord, vars, world, OtherRow
<1>2. AllSettle
  <2>1. CASE UNCHANGED <<sheet, others>>
    BY <1>1, <2>1, QuietSettles DEF Quiet, OtherRow
  <2>2. CASE LastRow(sheet) < MaxRow /\ sheet' = Appended(sheet, Other)
    <3>1. Other \in Cell /\ Other \notin Entry
      BY CellAssumption DEF Cell, CellAssumption
    <3>2. ASSUME NEW k \in Team
          PROVE  Standing'[k] \subseteq Standing[k] /\ Coming'[k] = Coming[k]
      <4>1. Standing'[k] \subseteq Standing[k]
        BY <1>1, <2>2, <3>1, AppendedRows
      <4> QED
        BY <1>1, <4>1 DEF Coming
    <3> QED
      BY <3>2 DEF AllSettle, Settles
  <2> QED
    BY <1>1, <2>1, <2>2
<1>3. RunKnown' /\ (Changing' => Changing)
  BY <1>1, <1>2, AroundKnown
<1>4. Standstill
  BY <1>1, <1>2, <1>3 DEF Standstill
<1> QED
  BY <1>3, <1>4, StandstillKnown DEF Known, RunKnown

LEMMA StopKnown ==
  ASSUME Known, End \/ Interrupt
  PROVE  Known'
<1>1. run' = None /\ SameRecord /\ UNCHANGED <<sheet, late, others>>
  BY DEF End, Interrupt, SameRecord, world
<1>2. RunKnown' /\ ~Changing'
  BY <1>1 DEF RunKnown, AtWork, Processes, Decides, Changing
<1>3. Standstill
  BY <1>1, <1>2, QuietSettles DEF Standstill, Quiet, OtherRow
<1> QED
  BY <1>2, <1>3, StandstillKnown DEF Known, RunKnown

LEMMA ConfirmationKnown ==
  ASSUME ConstantsAssumption, AppendInv, Known, SetConfirmation \/ EnableButtons
  PROVE  Known'
<1>1. /\ run # None /\ run.pc \in {"bind", "enable"} /\ UNCHANGED <<content, sheet, others>>
      /\ UNCHANGED record \/ record' = Bind(run.inv)
      /\ UNCHANGED late \/ GiveUp([type |-> "bind", inv |-> run.inv])
      /\ \E pc \in {"enable", "failed", "done"} : run' = To(pc)
  BY DEF SetConfirmation, EnableButtons, world, Failed, Done, To
<1>2. Processes /\ ~Decides /\ run.inv \in Invocation /\ RecordOK
  BY <1>1, RunTyped, Parts DEF AppendInv, TypeInv, DecidePc, WritePc, EndPc
<1>3. SameRecord
  <2>1. UNCHANGED record => SameRecord
    BY <1>1 DEF SameRecord
  <2>2. record' = Bind(run.inv) => SameRecord
    BY <1>1, <1>2 DEF SameRecord, Bind, RecordOK, Submission
  <2> QED
    BY <1>1, <2>1, <2>2
<1>4. RunKnown' /\ ~Changing'
  <2>1. PICK pc \in {"enable", "failed", "done"} : run' = To(pc)
    BY <1>1
  <2>2. pc \in EndPc \union {"bind", "enable"}
    BY DEF EndPc
  <2> QED
    BY <1>1, <1>2, <1>3, <2>1, <2>2, IdleKnown
<1>5. \A entry \in late' : entry \in late \/ entry[2].type \notin {"upsert", "append"}
  <2> DEFINE req == [type |-> "bind", inv |-> run.inv]
  <2>1. req.type \notin {"upsert", "append"}
    OBVIOUS
  <2>2. UNCHANGED late \/ GiveUp(req)
    BY <1>1
  <2> HIDE DEF req
  <2>3. \A entry \in late' : entry \in late \/ entry = <<faults, req>>
    BY <2>2 DEF GiveUp
  <2> QED
    BY <2>1, <2>3
<1>6. Standstill
  <2>1. Quiet /\ OtherRow' = OtherRow
    BY <1>1, <1>5 DEF Quiet, OtherRow
  <2> QED
    BY <1>3, <1>4, <1>5, <2>1, QuietSettles DEF Standstill
<1> QED
  BY <1>4, <1>6, StandstillKnown DEF Known, RunKnown

LEMMA DecisionKnown ==
  ASSUME ConstantsAssumption, AppendInv, Known, NEW i \in Invocation, Confirm(i) \/ Reject(i)
  PROVE  Known'
<1>1. PICK pc \in DecidePc :
        /\ Decide(i, pc)
        /\ pc = "confirm" => record.status \in Actionable
        /\ pc \notin WritePc /\ (pc = "restore" => record.status = "reverting")
  <2>1. CASE Confirm(i)
    <3>1. "confirm" \in DecidePc /\ "confirm" \notin WritePc \union {"restore"}
      BY DEF DecidePc, WritePc
    <3> QED
      BY <2>1, <3>1 DEF Confirm
  <2>2. CASE Reject(i)
    <3>1. PICK pc \in {"reject", "restore", "reverting"} :
            Decide(i, pc) /\ (pc = "restore" => record.status = "reverting")
      BY <2>2 DEF Reject
    <3>2. pc \in DecidePc /\ pc # "confirm" /\ pc \notin WritePc
      BY DEF DecidePc, WritePc
    <3> QED
      BY <3>1, <3>2
  <2> QED
    BY <2>1, <2>2
<1>2. /\ UNCHANGED <<sheet, late, others>> /\ SameRecord /\ run'.op = "decide" /\ run'.pc = pc
      /\ run'.old = record /\ record' = record
  BY <1>1 DEF Decide, world, SameRecord
<1>3. "reverting" \notin Live
  BY DEF Live, Editable, Actionable
<1>4. RunKnown' /\ ~Changing'
  <2>1. ~Processes'
    BY <1>2 DEF Processes
  <2>2. DecideKnown'
    BY <1>1, <1>2, <1>3 DEF DecideKnown
  <2> QED
    BY <2>1, <2>2 DEF RunKnown, AtWork, Changing
<1>5. Standstill
  BY <1>2, <1>4, QuietSettles DEF Standstill, Quiet, OtherRow
<1> QED
  BY <1>4, <1>5, StandstillKnown DEF Known, RunKnown

LEMMA RestoreKnown ==
  ASSUME ConstantsAssumption, AppendInv, Known, Restore \/ CheckRestored
  PROVE  Known'
<1>1. run # None /\ run.pc \in {"restore", "check"} /\ UNCHANGED <<sheet, late, others>> /\ SameRecord
  BY DEF Restore, CheckRestored, Continue, world, SameRecord
<1>2. Decides /\ run \in DecideRun /\ DecideKnown
  BY <1>1, RunTyped DEF AppendInv, TypeInv, ProcessPc, EntryPc, WritePc, EndPc, Known
<1>3. /\ run' \in DecideRun
      /\ run'.op = "decide" /\ run'.old = run.old /\ run'.version = run.version
      /\ run'.pc \notin {"confirm", "restore"}
      /\ run'.pc \in WritePc => run.pc = "restore" /\ run'.data \subseteq run.old.snap
  <2>1. CASE Restore
    <3> DEFINE rows == {item \in run.old.snap : item.row # None}
               pc == IF rows = {} THEN "fail" ELSE "write"
    <3>1. Continue([run EXCEPT !.data = rows, !.pc = pc])
      BY <2>1, Zenon DEF Restore
    <3>2. pc \in {"fail", "write"} /\ rows \subseteq run.old.snap /\ run.pc = "restore"
      BY <2>1 DEF Restore
    <3>3. rows \subseteq Item /\ pc \in DecidePc
      BY <1>2, <3>2 DEF DecideRun, Submission, DecidePc, WritePc
    <3> HIDE DEF rows, pc
    <3> QED
      BY <1>2, <3>1, <3>2, <3>3 DEF Continue, DecideRun
  <2>2. CASE CheckRestored
    <3>1. PICK pc \in {"reject", "fail"} : run' = To(pc)
      BY <2>2 DEF CheckRestored, Continue
    <3>2. pc \in DecidePc /\ pc \notin WritePc \union {"confirm", "restore"}
      BY DEF DecidePc, WritePc
    <3> QED
      BY <1>2, <3>1, <3>2, ToDecide DEF KeptBut, Decides
  <2> QED
    BY <2>1, <2>2
<1>4. run' # None
  BY <1>3, NoneAssumption
<1>5. RunKnown' /\ ~Changing'
  BY <1>1, <1>2, <1>3, <1>4, DecideMovesKnown
<1>6. Standstill
  BY <1>1, <1>5, QuietSettles DEF Standstill, Quiet, OtherRow
<1> QED
  BY <1>5, <1>6, StandstillKnown DEF Known, RunKnown

LEMMA StartKnown ==
  ASSUME ConstantsAssumption, AppendInv, Known, ~Unknowing', NEW i \in Invocation, Start(i)
  PROVE  Known'
<1>1. run = None /\ SameRecord /\ UNCHANGED <<sheet, late, others, record>>
  BY DEF Start, world, SameRecord
<1>2. RunKnown' /\ ~Changing'
  <2>1. CASE run' = None
    BY <2>1 DEF RunKnown, AtWork, Processes, Decides, Changing
  <2>2. CASE run' # None
    <3>1. /\ record.status \in Editable
          /\ run' = [op |-> "process", inv |-> i, pc |-> AtTeam(i, 1), team |-> NextTeam(i, 1),
                     old |-> record, version |-> record.version, place |-> record.place,
                     undo |-> record.snap, dups |-> [k \in Team |-> {}],
                     registered |-> {}, appended |-> {}, snap |-> {}, data |-> {}]
          /\ Note((IF record.status = "applying" /\ \E r \in Row : Unblanked(r)
                   THEN {"unblanked"} ELSE {})
                    \union (IF record.status \in Actionable \union {"empty"} /\ record.entries = content[i]
                            THEN {"replayed"} ELSE {}))
      BY <1>1, <2>2 DEF Start
    <3>2. /\ run'.op = "process" /\ run'.pc \in {"entry", "data"}
          /\ run'.place = record.place /\ run'.undo = record.snap
          /\ \A k \in Team : run'.dups[k] = {}
      BY <3>1 DEF AtTeam
    <3>3. record.status = "applying" => \A r \in Row : ~Unblanked(r)
      BY <3>1 DEF Note, Unknowing, Had
    <3>4. ASSUME NEW k \in Team
          PROVE  Keyed(record.snap, k, record.place[k]) /\ Accounted(Standing[k], Coming[k], record.place[k])
      <4>1. KnownLive(Standing[k], Coming[k], record, k)
        BY <3>1 DEF Known, KnownRows, Live
      <4>2. ASSUME Remains(Standing[k], Coming[k], record, k)
            PROVE  Accounted(Standing[k], Coming[k], record.place[k])
        <5>1. record.status = "applying" /\ record.place[k] = None /\ Coming[k] = {}
          BY <4>2 DEF Remains
        <5>2. Standing[k] = {}
          <6>1. k # None
            BY ConstantsAssumption DEF ConstantsAssumption, Team
          <6> QED
            BY <3>3, <5>1, <6>1 DEF Standing, Unblanked
        <5>3. None # Column
          BY ConstantsAssumption DEF ConstantsAssumption, Column
        <5> QED
          BY <5>1, <5>2, <5>3 DEF Accounted
      <4> QED
        BY <4>1, <4>2 DEF KnownLive
    <3>5. /\ \A k \in Team : PlaceNow(k)' = record.place[k]
          /\ Standing' = Standing /\ Coming' = Coming
      BY <1>1, <3>2 DEF PlaceNow, Standing, Coming, TeamAt, OtherRow
    <3>6. PlacesKnown' /\ PlacesKeyed'
      <4>1. PlacesKnown'
        <5> HIDE DEF Standing, Coming
        <5> QED
          BY <3>2, <3>4, <3>5 DEF PlacesKnown
      <4>2. PlacesKeyed'
        BY <3>2, <3>4 DEF PlacesKeyed, WritePc
      <4> QED
        BY <4>1, <4>2
    <3>7. ~Changing' /\ ~Decides' /\ WriteKnown' /\ run'.pc \notin Unplacing \union {"append"}
      BY <3>2 DEF Changing, Decides, WriteKnown, WritePc, Unplacing
    <3> QED
      BY <3>6, <3>7 DEF RunKnown, ProcessKnown
  <2> QED
    BY <2>1, <2>2
<1>3. Standstill
  BY <1>1, <1>2, QuietSettles DEF Standstill, Quiet, OtherRow
<1> QED
  BY <1>2, <1>3, StandstillKnown DEF Known, RunKnown

(* A team whose append is under way.                                         *)
LEMMA PendingKnown ==
  ASSUME ConstantsAssumption, Known, SameRecord, Changing, record.status = "applying",
         NEW k \in Team, record.place[k] = Column, Accounted(Standing'[k], Coming'[k], Column),
         \A j \in Team \ {k} : Settles(Standing[j], Coming[j], Standing'[j], Coming'[j]),
         OtherRow' = OtherRow,
         \A entry \in late' :
           entry \in late \/ (entry[2].type = "append" /\ entry[2].cell \in Entry)
  PROVE  1 \in OtherRow' /\ KnownRows(Standing', Coming', record') /\ LateKnown'
<1>1. Column \notin Row /\ "applying" \in Live
  BY DEF Column, Row, Live, Editable
<1>2. KnownRows(Standing', Coming', record')
  <2>1. PICK s, c, t, d, rec, new : s = Standing /\ c = Coming /\ t = Standing' /\ d = Coming'
                                      /\ rec = record /\ new = record'
    OBVIOUS
  <2>2. ASSUME NEW j \in Team PROVE KnownLive(t[j], d[j], new, j)
    <3>1. CASE j = k
      BY <1>1, <2>1, <3>1 DEF KnownLive, Keyed, SameRecord
    <3>2. CASE j # k
      <4>1. KnownLive(s[j], c[j], rec, j)
        BY <1>1, <2>1 DEF Known, KnownRows
      <4>2. Settles(s[j], c[j], t[j], d[j])
        BY <2>1, <3>2
      <4>3. KnownLive(t[j], d[j], rec, j)
        BY <4>1, <4>2, SettledIs
      <4> QED
        BY <2>1, <4>3 DEF KnownLive, Remains, SameRecord
    <3> QED
      BY <3>1, <3>2
  <2> QED
    BY <1>1, <2>1, <2>2 DEF KnownRows, SameRecord
<1>3. LateKnown'
  <2>1. ASSUME NEW entry \in late'
        PROVE  /\ entry[2].type = "append" => entry[2].cell \in Entry
               /\ ~(entry[2].type = "upsert" /\ entry[2].expected = record'.version)
    <3>1. CASE entry \in late
      BY <3>1 DEF Known, LateKnown, SameRecord
    <3>2. CASE entry \notin late
      BY <2>1, <3>2
    <3> QED
      BY <3>1, <3>2
  <2> QED
    BY <2>1 DEF LateKnown
<1> QED
  BY <1>2, <1>3 DEF Known

LEMMA RequestKnown ==
  ASSUME ConstantsAssumption, AppendInv, AppendInv', Known, NEW k \in Team, RequestAppend(k)
  PROVE  Known'
<1> DEFINE row == LastRow(sheet) + 1
           req == [type |-> "append", cell |-> Marked(k)]
<1>1. /\ run # None /\ run.pc = "append" /\ k = run.team /\ LastRow(sheet) < MaxRow
      /\ UNCHANGED <<content, record, others>>
      /\ \/ /\ sheet' = Appended(sheet, Marked(k)) /\ UNCHANGED late
            /\ \/ run' = RegisterAppended(k, {row})
               \/ \E pc \in {"reconcile", "readback"} : run' = To(pc)
         \/ GiveUp(req) /\ UNCHANGED sheet /\ run' = To("readback")
         \/ UNCHANGED <<sheet, late>> /\ run' = Failed
  BY DEF RequestAppend
<1>2. Processes /\ ~Decides /\ TypeInv /\ TypeOK /\ TypeOK' /\ content[run.inv][k] # None
  BY <1>1, RunTyped, AtTeamFacts
     DEF AppendInv, TypeInv, DecidePc, WritePc, EndPc, EntryPc
<1>3. AtWork /\ Changing /\ ProcessKnown /\ run.pc \in EntryPc
  BY <1>1, <1>2 DEF AtWork, Changing, Unplacing, EndPc, Known, EntryPc
<1>4. /\ record.status = "applying" /\ record.place[k] = Column /\ run.place[k] = None
      /\ PlacesKnown /\ PlacesKeyed
  BY <1>1, <1>3 DEF ProcessKnown, Unplacing
<1>5. Standing[k] = {} /\ Coming[k] = {}
  <2>1. Accounted(Standing[k], Coming[k], None)
    BY <1>1, <1>4 DEF PlacesKnown, PlaceNow
  <2>2. None \notin Row /\ None # Column /\ Standing[k] \subseteq Row
    BY ConstantsAssumption DEF ConstantsAssumption, Row, Column, Standing
  <2> HIDE DEF Standing, Coming
  <2> QED
    BY <2>1, <2>2 DEF Accounted
<1>6. Marked(k) \in Entry /\ Marked(k).team = k /\ Marked(k) \in Cell
  BY <1>2, HeldRows DEF Cell
<1>7. SameRecord /\ OtherRow' = OtherRow
  BY <1>1 DEF SameRecord, OtherRow
<1>8. /\ req.type = "append" /\ req.cell \in Entry /\ req.cell.team = k
  BY <1>6
<1> HIDE DEF req
<1>9. /\ \A j \in Team \ {k} : Settles(Standing[j], Coming[j], Standing'[j], Coming'[j])
      /\ Accounted(Standing'[k], Coming'[k], Column)
      /\ sheet' = Appended(sheet, Marked(k)) /\ UNCHANGED late =>
           Accounted(Standing'[k], Coming'[k], row)
  <2>1. CASE sheet' = Appended(sheet, Marked(k)) /\ UNCHANGED late
    <3>1. ASSUME NEW j \in Team
          PROVE  /\ Coming'[j] = Coming[j]
                 /\ Standing'[j] \subseteq Standing[j] \union {row}
                 /\ j # k => Standing'[j] \subseteq Standing[j]
      <4>1. Coming'[j] = Coming[j]
        BY <2>1 DEF Coming
      <4>2. /\ Standing'[j] \subseteq Standing[j] \union {row}
            /\ j # k => Standing'[j] \subseteq Standing[j]
        BY <1>1, <1>2, <1>6, <1>7, <2>1, AppendedRows
      <4> QED
        BY <4>1, <4>2
    <3> HIDE DEF Standing, Coming, row
    <3> QED
      BY <1>5, <3>1 DEF Settles, Accounted
  <2>2. CASE GiveUp(req) /\ UNCHANGED sheet
    <3>1. late' = late \union {<<faults, req>>}
      BY <2>2 DEF GiveUp
    <3>2. ASSUME NEW j \in Team
          PROVE  /\ Standing'[j] = Standing[j]
                 /\ j # k => Coming'[j] = Coming[j]
                 /\ Coming'[j] \subseteq Coming[j] \union {<<faults, req>>}
      <4>1. Standing'[j] = Standing[j]
        BY <1>7, <2>2 DEF Standing, TeamAt
      <4>2. \A e \in late' : e \in late \/ e = <<faults, req>>
        BY <3>1
      <4>3. <<faults, req>>[2].cell.team = k /\ late \subseteq late'
        BY <1>8, <3>1
      <4>4. Coming'[j] \subseteq Coming[j] \union {<<faults, req>>}
        BY <4>2 DEF Coming
      <4>5. j # k => Coming'[j] = Coming[j]
        BY <4>2, <4>3 DEF Coming
      <4> QED
        BY <4>1, <4>4, <4>5
    <3>3. sheet' # Appended(sheet, Marked(k)) \/ ~UNCHANGED late
      <4>1. PICK cell : cell = Marked(k)
        OBVIOUS
      <4>2. sheet \in [Row -> Cell] /\ Blank \notin Entry
        BY <1>2, CellAssumption DEF TypeOK, CellAssumption
      <4>3. Appended(sheet, cell)[row] = cell /\ sheet[row] = Blank
        BY <1>1, <4>2, AppendedKeeps
      <4> QED
        BY <1>6, <2>2, <4>1, <4>2, <4>3
    <3> HIDE DEF Standing, Coming, row
    <3> QED
      BY <1>5, <3>2, <3>3 DEF Settles, Accounted
  <2>3. CASE UNCHANGED <<sheet, late>>
    <3>1. ASSUME NEW j \in Team
          PROVE  Standing'[j] = Standing[j] /\ Coming'[j] = Coming[j]
      BY <1>7, <2>3 DEF Standing, Coming, TeamAt
    <3>2. sheet' # Appended(sheet, Marked(k))
      <4>1. PICK cell : cell = Marked(k)
        OBVIOUS
      <4>2. sheet \in [Row -> Cell] /\ Blank \notin Entry
        BY <1>2, CellAssumption DEF TypeOK, CellAssumption
      <4>3. Appended(sheet, cell)[row] = cell /\ sheet[row] = Blank
        BY <1>1, <4>2, AppendedKeeps
      <4> QED
        BY <1>6, <2>3, <4>1, <4>2, <4>3
    <3> HIDE DEF Standing, Coming, row
    <3> QED
      BY <1>5, <3>1, <3>2 DEF Settles, Accounted
  <2> QED
    BY <1>1, <2>1, <2>2, <2>3
<1>10. \A entry \in late' :
         entry \in late \/ (entry[2].type = "append" /\ entry[2].cell \in Entry)
  <2>1. \A entry \in late' : entry \in late \/ entry = <<faults, req>>
    BY <1>1 DEF GiveUp
  <2> QED
    BY <1>8, <2>1
<1>11. 1 \in OtherRow' /\ KnownRows(Standing', Coming', record') /\ LateKnown'
  BY <1>3, <1>4, <1>7, <1>9, <1>10, PendingKnown
<1>12. RunKnown'
  <2>1. CASE sheet' = Appended(sheet, Marked(k)) /\ UNCHANGED late /\ run' = RegisterAppended(k, {row})
    <3>1. row \in Row
      BY <1>1, <1>2, AppendedKeeps DEF TypeOK
    <3> HIDE DEF row, Standing, Coming
    <3>2. run' = RegisterAppended(run.team, {row}) /\ Accounted(Standing'[run.team], Coming'[run.team], row)
      BY <1>1, <1>9, <2>1
    <3>3. \A j \in Team \ {run.team} : Settles(Standing[j], Coming[j], Standing'[j], Coming'[j])
      BY <1>1, <1>9
    <3> QED
      BY <1>2, <1>3, <1>4, <3>1, <3>2, <3>3, RegisteredKnown
  <2>2. ASSUME NEW pc \in {"reconcile", "readback"}, run' = To(pc)
        PROVE  RunKnown'
    <3>1. /\ run' \in ProcessRun /\ run'.pc = pc /\ KeptBut(run') /\ KeptProcess(run')
      BY <1>2, <2>2, ToProcess, RunTyped DEF ProcessPc, EntryPc
    <3>2. /\ Processes' /\ ~Decides' /\ pc \notin WritePc \union {"applying", "terminal"}
          /\ pc \in EntryPc \intersect Unplacing /\ pc # "append" /\ run'.team = k
          /\ run'.place = run.place /\ run'.dups = run.dups /\ run'.undo = run.undo
      BY <1>1, <1>2, <3>1, NoneAssumption
         DEF KeptBut, KeptProcess, Processes, Decides, WritePc, EntryPc, Unplacing
    <3>3. PlacesKnown'
      <4>1. ASSUME NEW j \in Team
            PROVE  Accounted(Standing'[j], Coming'[j], PlaceNow(j)') /\ run.dups[j] = {}
        <5>1. CASE j = k
          BY <1>9, <1>4, <3>1, <3>2, <5>1 DEF PlaceNow, PlacesKnown
        <5>2. CASE j # k
          <6>1. Accounted(Standing[j], Coming[j], run.place[j]) /\ run.dups[j] = {}
            BY <1>1, <1>4, <5>2 DEF PlacesKnown, PlaceNow
          <6>2. Settles(Standing[j], Coming[j], Standing'[j], Coming'[j])
            BY <1>9, <5>2
          <6>3. PlaceNow(j)' = run.place[j]
            BY <3>2, <5>2 DEF PlaceNow
          <6> QED
            BY <6>1, <6>2, <6>3, SettledIs
        <5> QED
          BY <5>1, <5>2
      <4> QED
        BY <3>2, <4>1 DEF PlacesKnown
    <3>4. PlacesKeyed'
      BY <1>3, <1>4, <3>1, <3>2 DEF PlacesKeyed
    <3>5. ProcessKnown'
      BY <1>4, <1>7, <3>1, <3>2, <3>3, <3>4 DEF ProcessKnown, WriteKnown, SameRecord
    <3> QED
      BY <3>2, <3>5 DEF RunKnown
  <2>3. CASE run' = Failed
    BY <1>1, <1>7, <2>3, FailedKnown
  <2> QED
    BY <1>1, <2>1, <2>2, <2>3
<1> QED
  BY <1>11, <1>12 DEF Known, RunKnown

-----------------------------------------------------------------------------
(* A record that replaces the one stored.  What replaces it is level with it:
   a first upsert would be noted as an overwriting.                          *)
LevelUpsert(new) ==
  /\ Level /\ ~Forgetful(run.inv, new)
  /\ record' = [new EXCEPT !.version = record.version + 1]

LEMMA UpsertedKnown ==
  ASSUME ConstantsAssumption, AppendInv, Known, UNCHANGED <<content, sheet, others>>, late' \subseteq late,
         NEW new \in Submission, record' = [new EXCEPT !.version = record.version + 1],
         IF new.status \in Live THEN KnownRows(Standing, Coming, new)
         ELSE new.place = record.place /\ new.snap = record.snap
  PROVE  1 \in OtherRow' /\ KnownRows(Standing', Coming', record') /\ LateKnown'
<1>1. /\ record'.version = record.version + 1 /\ record'.status = new.status
      /\ record'.place = new.place /\ record'.snap = new.snap
      /\ record.version \in Nat /\ None \notin Nat
  BY ConstantsAssumption DEF Submission, AppendInv, TypeInv, TypeOK, ConstantsAssumption
<1>2. AllSettle /\ OtherRow' = OtherRow
  BY QuietSettles DEF Quiet, OtherRow
<1>3. KnownRows(Standing', Coming', record')
  <2>1. PICK s, c, t, d, rec, next : s = Standing /\ c = Coming /\ t = Standing' /\ d = Coming'
                                       /\ rec = record /\ next = record'
    OBVIOUS
  <2>2. KnownRows(s, c, next)
    <3>1. CASE new.status \in Live
      BY <1>1, <2>1, <3>1 DEF KnownRows, KnownLive, Keyed, Remains
    <3>2. CASE new.status \notin Live
      <4>1. KnownRows(s, c, rec)
        BY <2>1 DEF Known
      <4>2. next.place = rec.place /\ next.snap = rec.snap /\ next.status \notin Live
        BY <1>1, <2>1, <3>2
      <4> QED
        BY <4>1, <4>2, EndedKnown
    <3> QED
      BY <3>1, <3>2
  <2>3. \A k \in Team : Settles(s[k], c[k], t[k], d[k])
    BY <1>2, <2>1 DEF AllSettle
  <2>4. KnownRows(t, d, next)
    BY <2>2, <2>3, SettledRows
  <2> QED
    BY <2>1, <2>4
<1>4. LateKnown'
  <2>1. ASSUME NEW entry \in late'
        PROVE  /\ entry[2].type = "append" => entry[2].cell \in Entry
               /\ entry[2].type = "upsert" => entry[2].expected # record.version + 1
    <3>1. /\ entry[2].type = "append" => entry[2].cell \in Entry
          /\ entry[2].type = "upsert" =>
               entry[2].expected = None \/ entry[2].expected \in 1..record.version
      BY DEF Known, LateKnown, AppendInv, LateKnows
    <3>2. entry[2].expected \in 1..record.version => entry[2].expected # record.version + 1
      BY <1>1
    <3>3. record.version + 1 \in Nat
      BY <1>1
    <3> QED
      BY <1>1, <3>1, <3>2, <3>3
  <2> QED
    BY <1>1, <2>1 DEF LateKnown
<1> QED
  BY <1>2, <1>3, <1>4 DEF Known

LEMMA PersistKnown ==
  ASSUME ConstantsAssumption, AppendInv, Known, ~Unknowing', run # None,
         NEW new \in Submission, NEW next, Persist(new, next),
         Level => IF new.status \in Live
                  THEN KnownRows(Standing, Coming, new) \/ Forgetful(run.inv, new)
                  ELSE new.place = record.place /\ new.snap = record.snap,
         LevelUpsert(new) /\ run' = [next EXCEPT !.version = @ + 1]
           /\ UNCHANGED <<content, sheet, late, others>> => RunKnown'
  PROVE  Known'
<1> DEFINE req == [type |-> "upsert", inv |-> run.inv, new |-> new,
                   expected |-> IF run.version = 0 THEN None ELSE run.version]
<1>1. /\ run.inv \in Invocation /\ run.version \in Nat /\ None \notin Nat /\ Column # None
      /\ record.version \in Nat /\ record \in Submission /\ (record.version = 0 => record = Missing)
  BY RunTyped, ConstantsAssumption
     DEF AppendInv, TypeInv, TypeOK, ConstantsAssumption, Column, Submission
<1>2. /\ req \in Upserts /\ req.new = new /\ req.type = "upsert" /\ req.inv = run.inv
      /\ req.expected = IF run.version = 0 THEN None ELSE run.version
  BY <1>1 DEF Upserts
<1>3. /\ \/ UNCHANGED <<late, faults>> /\ Upsert(req)
            /\ run' = [next EXCEPT !.version = @ + 1]
         \/ ~Accepts(req) /\ run' = Failed
            /\ UNCHANGED <<record, removals, before, past, late, faults>>
         \/ Fault /\ UNCHANGED late /\ Upsert(req) /\ run' = Failed
         \/ Fault /\ GiveUp(req) /\ run' = Failed /\ UNCHANGED <<record, removals, before, past>>
      /\ UNCHANGED <<content, sheet, over, shown, others, appends, clicks>>
  BY Zenon DEF Persist
<1> HIDE DEF req
<1>4. run' = Failed => RunKnown' /\ ~Changing'
  <2>1. ASSUME run' = Failed
        PROVE  /\ run'.op = run.op /\ run'.pc = "failed" /\ run'.old = run.old
               /\ run'.version = run.version
    <3>1. CASE Processes
      BY <2>1, <3>1, RunTyped DEF Failed, ProcessRun, AppendInv, TypeInv
    <3>2. CASE Decides
      BY <2>1, <3>2, RunTyped DEF Failed, DecideRun, AppendInv, TypeInv
    <3> QED
      BY <3>1, <3>2, RunTyped DEF AppendInv, TypeInv
  <2>2. CASE UNCHANGED record
    BY <1>3, <2>2, FailedKnown DEF SameRecord
  <2>3. CASE Upsert(req)
    <3>1. record'.version = record.version + 1 /\ run.version <= record.version
      BY <1>1, <1>2, <2>3 DEF Upsert, Upserted, Submission, AppendInv, RunKnows
    <3>2. ASSUME run' = Failed PROVE ~Level'
      BY <1>1, <2>1, <3>1, <3>2 DEF Level
    <3> QED
      BY <2>1, <3>2 DEF RunKnown, DecideKnown, AtWork, Changing, EndPc, WritePc, Unplacing
  <2> QED
    BY <1>3, <2>2, <2>3
<1>5. ASSUME Upsert(req), UNCHANGED late
      PROVE  /\ LevelUpsert(new)
             /\ 1 \in OtherRow' /\ KnownRows(Standing', Coming', record') /\ LateKnown'
  <2>1. record' = [new EXCEPT !.version = record.version + 1]
    BY <1>2, <1>5 DEF Upsert, Upserted
  <2>2. Level
    <3>1. req.expected = None => record = Missing
      BY <1>5 DEF Upsert, Note, Unknowing, Had
    <3>2. req.expected = None \/ req.expected = record.version
      BY <1>5 DEF Upsert, Accepts
    <3>3. Missing.version = 0
      BY DEF Missing
    <3> QED
      BY <1>1, <1>2, <3>1, <3>2, <3>3 DEF Level
  <2>3. ASSUME NEW k \in Team, Absent(run.inv, k), record.place[k] = Column, new.place[k] = None
        PROVE  FALSE
    <3>1. k \in Forgets(req)
      BY <1>1, <1>2, <2>3 DEF Forgets, Absent
    <3> QED
      BY <1>5, <2>3, <3>1 DEF Upsert, Note, Unknowing, Had
  <2>4. LevelUpsert(new)
    BY <2>1, <2>2, <2>3 DEF LevelUpsert, Forgetful
  <2>5. IF new.status \in Live THEN KnownRows(Standing, Coming, new)
        ELSE new.place = record.place /\ new.snap = record.snap
    BY <2>2, <2>4 DEF LevelUpsert
  <2>6. 1 \in OtherRow' /\ KnownRows(Standing', Coming', record') /\ LateKnown'
    BY <1>3, <1>5, <2>1, <2>5, UpsertedKnown
  <2> QED
    BY <2>4, <2>6
<1>6. CASE Upsert(req) /\ UNCHANGED late
  BY <1>3, <1>4, <1>5, <1>6 DEF Known, RunKnown, Upsert
<1>7. CASE UNCHANGED <<record, late>> /\ run' = Failed
  <2>1. SameRecord /\ Quiet /\ OtherRow' = OtherRow
    BY <1>3, <1>7 DEF SameRecord, Quiet, OtherRow
  <2>2. Standstill
    BY <1>4, <1>7, <2>1, QuietSettles DEF Standstill
  <2> QED
    BY <1>4, <1>7, <2>2, StandstillKnown DEF Known, RunKnown
<1>8. CASE GiveUp(req) /\ run' = Failed /\ UNCHANGED record
  <2>1. /\ \A entry \in late' : entry \in late \/ entry = <<faults, req>>
        /\ UNCHANGED <<content, sheet, others>>
    BY <1>3, <1>8 DEF GiveUp
  <2>2. \A entry \in late' : entry \in late \/ entry[2].type # "append"
    BY <1>2, <2>1
  <2>3. AllSettle /\ OtherRow' = OtherRow
    BY <2>1, <2>2, QuietSettles DEF Quiet, OtherRow
  <2>4. \A rec : KnownRows(Standing, Coming, rec) => KnownRows(Standing', Coming', rec)
    <3>1. PICK s, c, t, d : s = Standing /\ c = Coming /\ t = Standing' /\ d = Coming'
      OBVIOUS
    <3> QED
      BY <2>3, <3>1, SettledRows DEF AllSettle
  <2>5. LateKnown'
    <3>1. ASSUME NEW entry \in late'
          PROVE  /\ entry[2].type = "append" => entry[2].cell \in Entry
                 /\ entry[2].type = "upsert" /\ entry[2].expected = record.version =>
                      /\ entry[2].new.status \in Live =>
                           \/ KnownRows(Standing, Coming, entry[2].new)
                           \/ Forgetful(entry[2].inv, entry[2].new)
                      /\ entry[2].new.status \notin Live =>
                           entry[2].new.place = record.place /\ entry[2].new.snap = record.snap
      <4>1. CASE entry \in late
        BY <4>1 DEF Known, LateKnown
      <4>2. CASE entry = <<faults, req>>
        <5>1. entry[2] = req
          BY <4>2
        <5>2. req.expected = record.version => Level
          BY <1>1, <1>2 DEF Level
        <5> QED
          BY <1>2, <5>1, <5>2
      <4> QED
        BY <2>1, <4>1, <4>2
    <3>2. \A inv, rec : Forgetful(inv, rec) => Forgetful(inv, rec)'
      BY <1>8, <2>1 DEF Forgetful, Absent
    <3> HIDE DEF Standing, Coming
    <3> QED
      BY <1>4, <1>8, <2>1, <2>4, <3>1, <3>2 DEF LateKnown
  <2>6. KnownRows(Standing', Coming', record')
    BY <1>8, <2>4 DEF Known
  <2>7. 1 \in OtherRow'
    BY <2>3 DEF Known
  <2> QED
    BY <1>4, <1>8, <2>5, <2>6, <2>7 DEF Known, RunKnown
<1> QED
  BY <1>3, <1>6, <1>7, <1>8

(* The operation after its upsert, which leaves the sheet.                   *)
LEMMA VersionUp ==
  ASSUME NEW next \in ProcessRun, run' = [next EXCEPT !.version = @ + 1],
         next.op = "process", UNCHANGED <<content, sheet, late, others>>
  PROVE  /\ run'.pc = next.pc /\ run'.team = next.team /\ run'.old = next.old
         /\ run'.place = next.place /\ run'.dups = next.dups /\ run'.undo = next.undo
         /\ run'.registered = next.registered /\ run'.snap = next.snap /\ run'.data = next.data
         /\ run'.inv = next.inv /\ Processes' /\ ~Decides'
         /\ Standing' = Standing /\ Coming' = Coming
<1>1. next.version + 1 \in Int /\ run'.op = "process"
  BY DEF ProcessRun
<1>2. run' \in ProcessRun /\ run' # None
  BY NoneAssumption DEF ProcessRun
<1>3. Standing' = Standing /\ Coming' = Coming
  BY DEF Standing, Coming, TeamAt, OtherRow
<1> QED
  BY <1>1, <1>2, <1>3 DEF ProcessRun, Processes, Decides

LEMMA PersistDecisionKnown ==
  ASSUME ConstantsAssumption, AppendInv, Known, ~Unknowing', PersistDecision
  PROVE  Known'
<1>1. run # None /\ run.op = "decide"
  BY DEF PersistDecision
<1>2. /\ Decides /\ ~Processes /\ run \in DecideRun /\ run.old \in Submission /\ DecideKnown
      /\ Level => record.place = run.old.place
  BY <1>1, RunTyped DEF AppendInv, TypeInv, Decides, Processes, RunKnows, PlacedBy, Known
<1>3. PICK status \in Status, pc \in {"done", "restore"} :
        /\ Persist([run.old EXCEPT !.status = status], To(pc))
        /\ \/ run.pc = "confirm" /\ status = "confirmed" /\ pc = "done"
           \/ status \notin Live
        /\ pc = "restore" => status = "reverting"
  <2>1. Done = To("done")
    BY DEF Done, To
  <2>2. {"confirmed", "rejected", "rollbackFailed", "reverting"} \subseteq Status
    BY DEF Status
  <2>3. {"rejected", "rollbackFailed", "reverting"} \intersect Live = {}
    BY DEF Live, Editable, Actionable
  <2> QED
    BY <2>1, <2>2, <2>3 DEF PersistDecision, PersistStatus
<1> DEFINE new == [run.old EXCEPT !.status = status]
           next == To(pc)
<1>4. /\ new \in Submission /\ new.place = run.old.place /\ new.status = status
      /\ new.snap = run.old.snap
  BY <1>2, <1>3 DEF Submission
<1>5. Persist(new, next)
  BY <1>3
<1>6. next \in DecideRun /\ next.pc = pc /\ next.op = "decide" /\ next.old = run.old
  BY <1>1, <1>2, <1>3, ToDecide DEF DecidePc, EndPc, KeptBut
<1> HIDE DEF new, next
<1>7. ASSUME Level
      PROVE  IF new.status \in Live
             THEN KnownRows(Standing, Coming, new)
             ELSE new.place = record.place /\ new.snap = record.snap
  <2>1. new.place = record.place /\ new.snap = record.snap
    BY <1>2, <1>4, <1>7 DEF DecideKnown
  <2>2. ASSUME new.status \in Live PROVE KnownRows(Standing, Coming, new)
    <3>1. record.status \in Actionable /\ new.status = "confirmed"
      BY <1>2, <1>3, <1>4, <1>7, <2>2 DEF DecideKnown
    <3>2. {record.status, new.status} \subseteq Live \ {"applying"}
      BY <3>1 DEF Live, Editable, Actionable
    <3>3. PICK s, c, rec : s = Standing /\ c = Coming /\ rec = record
      OBVIOUS
    <3>4. KnownRows(s, c, rec)
      BY <3>3 DEF Known
    <3>5. KnownRows(s, c, new)
      BY <2>1, <3>2, <3>3, <3>4, EndedKnown
    <3> QED
      BY <3>3, <3>5
  <2> QED
    BY <2>1, <2>2
<1>8. ASSUME LevelUpsert(new), run' = [next EXCEPT !.version = @ + 1]
      PROVE  RunKnown'
  <2>1. run'.op = "decide" /\ run'.pc = pc /\ run'.old = run.old
    BY <1>6, <1>8 DEF DecideRun
  <2>2. record'.status = status /\ record'.snap = run.old.snap
    BY <1>4, <1>8 DEF LevelUpsert, Submission
  <2>3. ~Processes' /\ run'.pc # "confirm" /\ run'.pc \notin WritePc
    BY <1>3, <2>1 DEF Processes, WritePc
  <2>4. run'.pc = "restore" => record'.status \notin Live
    BY <1>3, <2>1, <2>2 DEF Live, Editable, Actionable
  <2> QED
    BY <2>1, <2>2, <2>3, <2>4 DEF RunKnown, AtWork, DecideKnown
<1> QED
  BY <1>1, <1>4, <1>5, <1>7, <1>8, PersistKnown

LEMMA BeforeAppendKnown ==
  ASSUME ConstantsAssumption, AppendInv, Known, ~Unknowing', NEW k \in Team, BeforeAppend(k)
  PROVE  Known'
<1>1. run # None /\ run.pc = "entry" /\ k = run.team /\ run.old.place[k] = None
  BY DEF BeforeAppend, AtEntry
<1>2. /\ Processes /\ run \in ProcessRun /\ TypeInv /\ AtWork /\ run.pc \in EntryPc
  BY <1>1, RunTyped, AtTeamFacts
     DEF AppendInv, TypeInv, DecidePc, WritePc, EndPc, EntryPc, AtWork
<1>3. PlacesKnown /\ PlacesKeyed
  BY <1>2 DEF Known, ProcessKnown
<1>4. run.place[k] = None
  BY <1>1, <1>2 DEF AppendInv, RunKnows, GoneThrough, Processes, EntryPc, EndPc
<1> DEFINE teams == run.registered \union {k}
           place == [run.place EXCEPT ![k] = Column]
           snap == Without(run.undo, k) \union {BlankRow(k, None)}
           new == Record("applying", teams, place, snap)
           next == To("append")
<1>5. /\ teams \in SUBSET Team /\ place \in [Team -> Place]
      /\ snap \in SUBSET Item
  BY <1>2, BlankRowTyped DEF ProcessRun, Place, Without
<1>6. Persist(new, next)
  BY Zenon DEF BeforeAppend
<1>7. \A j \in Team : place[j] = IF j = k THEN Column ELSE run.place[j]
  BY <1>2 DEF ProcessRun
<1>8. \A item \in run.undo : item.key # k => item \in snap
  BY DEF Without
<1> HIDE DEF teams, place, snap
<1>9. /\ Record("applying", teams, place, snap) \in Submission
      /\ Record("applying", teams, place, snap).status = "applying"
      /\ Record("applying", teams, place, snap).place = place
      /\ Record("applying", teams, place, snap).snap = snap
  BY <1>2, <1>5, ApplyingTyped
<1>10. new \in Submission /\ new.status = "applying" /\ new.place = place /\ new.snap = snap
  BY <1>9
<1> HIDE DEF new
<1>11. next \in ProcessRun /\ next.pc = "append" /\ KeptBut(next) /\ KeptProcess(next)
  BY <1>2, ToProcess DEF ProcessPc, EntryPc
<1> HIDE DEF next
<1>12. Column \notin Row /\ None \notin Row /\ None # Column
  BY ConstantsAssumption DEF ConstantsAssumption, Column, Row
<1>13. ASSUME NEW j \in Team
       PROVE  Accounted(Standing[j], Coming[j], run.place[j]) /\ Keyed(run.undo, j, run.place[j])
  BY <1>1, <1>2, <1>3 DEF PlacesKnown, PlaceNow, PlacesKeyed
<1>14. KnownRows(Standing, Coming, new)
  <2>1. ASSUME NEW j \in Team
        PROVE  Keyed(snap, j, place[j]) /\ Accounted(Standing[j], Coming[j], place[j])
    <3>1. CASE j = k
      <4>1. Standing[j] \subseteq Row
        BY DEF Standing
      <4>2. PICK at, coming : at = Standing[j] /\ coming = Coming[j]
        OBVIOUS
      <4>3. at = {} /\ coming = {}
        BY <1>4, <1>12, <1>13, <3>1, <4>1, <4>2 DEF Accounted
      <4>4. Accounted(at, coming, Column)
        BY <4>3 DEF Accounted
      <4> QED
        BY <1>7, <1>12, <3>1, <4>2, <4>4 DEF Keyed
    <3>2. CASE j # k
      <4>1. place[j] = run.place[j] /\ Keyed(run.undo, j, run.place[j])
        BY <1>7, <1>13, <3>2
      <4>2. Keyed(snap, j, place[j])
        BY <1>8, <3>2, <4>1 DEF Keyed
      <4> QED
        BY <1>13, <4>1, <4>2
    <3> QED
      BY <3>1, <3>2
  <2> QED
    BY <1>10, <2>1 DEF KnownRows, KnownLive, Live, Editable
<1>15. ASSUME LevelUpsert(new), run' = [next EXCEPT !.version = @ + 1],
              UNCHANGED <<content, sheet, late, others>>
       PROVE  RunKnown'
  <2>1. /\ run'.pc = "append" /\ run'.team = k /\ Processes' /\ ~Decides'
        /\ run'.place = run.place /\ run'.dups = run.dups /\ run'.undo = run.undo
        /\ Standing' = Standing /\ Coming' = Coming
    BY <1>1, <1>2, <1>11, <1>15, VersionUp DEF KeptBut, KeptProcess, Processes
  <2>2. record'.status = "applying" /\ record'.place[k] = Column
    BY <1>7, <1>10, <1>15 DEF LevelUpsert, Submission
  <2>3. \A j \in Team : PlaceNow(j)' = run.place[j]
    BY <2>1 DEF PlaceNow
  <2>4. PlacesKnown'
    <3>1. \A j \in Team : run.dups[j] = {}
      BY <1>3 DEF PlacesKnown
    <3> HIDE DEF Standing, Coming
    <3> QED
      BY <1>13, <2>1, <2>3, <3>1 DEF PlacesKnown
  <2>5. PlacesKeyed' /\ WriteKnown'
    BY <1>13, <2>1 DEF PlacesKeyed, WriteKnown, WritePc
  <2> QED
    BY <1>4, <2>1, <2>2, <2>4, <2>5 DEF RunKnown, ProcessKnown
<1> QED
  BY <1>1, <1>6, <1>10, <1>14, <1>15, PersistKnown DEF Live, Editable

LEMMA PersistAppendedKnown ==
  ASSUME ConstantsAssumption, AppendInv, Known, ~Unknowing', PersistAppended
  PROVE  Known'
<1>1. run # None /\ run.pc = "interim"
  BY DEF PersistAppended
<1>2. /\ Processes /\ run \in ProcessRun /\ TypeInv /\ AtWork /\ run.team \in Team
      /\ run.pc \in EntryPc
  BY <1>1, RunTyped, AtTeamFacts
     DEF AppendInv, TypeInv, DecidePc, WritePc, EndPc, EntryPc, AtWork
<1>3. PlacesKnown /\ PlacesKeyed
  BY <1>2 DEF Known, ProcessKnown
<1> DEFINE new == Record("applying", run.registered, run.place, run.undo)
           next == Onward(run)
<1>4. Persist(new, next)
  BY Zenon DEF PersistAppended
<1>5. new \in Submission /\ new.status = "applying" /\ new.place = run.place /\ new.snap = run.undo
  <2>1. /\ run.registered \in SUBSET Team /\ run.place \in [Team -> Place]
        /\ run.undo \in SUBSET Item
    BY <1>2 DEF ProcessRun
  <2>2. /\ Record("applying", run.registered, run.place, run.undo) \in Submission
        /\ Record("applying", run.registered, run.place, run.undo).status = "applying"
        /\ Record("applying", run.registered, run.place, run.undo).place = run.place
        /\ Record("applying", run.registered, run.place, run.undo).snap = run.undo
    BY <1>2, <2>1, ApplyingTyped
  <2> QED
    BY <2>2
<1>6. /\ next \in ProcessRun /\ next.op = run.op /\ next.place = run.place
      /\ next.dups = run.dups /\ next.undo = run.undo /\ next.pc \in {"entry", "data"}
  BY <1>2, OnwardTyped
<1> HIDE DEF new, next
<1>7. ASSUME NEW j \in Team
      PROVE  Accounted(Standing[j], Coming[j], run.place[j]) /\ Keyed(run.undo, j, run.place[j])
  BY <1>1, <1>2, <1>3 DEF PlacesKnown, PlaceNow, PlacesKeyed
<1>8. KnownRows(Standing, Coming, new)
  BY <1>5, <1>7 DEF KnownRows, KnownLive, Live, Editable
<1>9. ASSUME LevelUpsert(new), run' = [next EXCEPT !.version = @ + 1],
             UNCHANGED <<content, sheet, late, others>>
      PROVE  RunKnown'
  <2>1. /\ run'.pc \in {"entry", "data"} /\ Processes' /\ ~Decides'
        /\ run'.place = run.place /\ run'.dups = run.dups /\ run'.undo = run.undo
        /\ Standing' = Standing /\ Coming' = Coming
    BY <1>2, <1>6, <1>9, VersionUp DEF Processes
  <2>2. \A j \in Team : PlaceNow(j)' = run.place[j]
    BY <2>1 DEF PlaceNow
  <2>3. PlacesKnown'
    <3>1. \A j \in Team : run.dups[j] = {}
      BY <1>3 DEF PlacesKnown
    <3> HIDE DEF Standing, Coming
    <3> QED
      BY <1>7, <2>1, <2>2, <3>1 DEF PlacesKnown
  <2>4. PlacesKeyed' /\ WriteKnown' /\ run'.pc \notin Unplacing \union {"append"}
    BY <1>7, <2>1 DEF PlacesKeyed, WriteKnown, WritePc, Unplacing
  <2> QED
    BY <2>1, <2>3, <2>4 DEF RunKnown, ProcessKnown
<1> QED
  BY <1>1, <1>4, <1>5, <1>8, <1>9, PersistKnown DEF Live, Editable

LEMMA PersistApplyingKnown ==
  ASSUME ConstantsAssumption, AppendInv, Told, Known, ~Unknowing', PersistApplying
  PROVE  Known'
<1>1. run # None /\ run.pc = "applying"
  BY DEF PersistApplying
<1>2. /\ Processes /\ run \in ProcessRun /\ TypeInv /\ AtWork /\ run.pc \notin EndPc
      /\ run.old.place \in [Team -> Place]
  BY <1>1, RunTyped
     DEF AppendInv, TypeInv, DecidePc, WritePc, EndPc, AtWork, Submission
<1>3. PlacesKnown /\ PlacesKeyed /\ WriteKnown
  BY <1>2 DEF Known, ProcessKnown
<1>4. ProcessTells /\ run.pc \in Opening
  BY <1>1, <1>2 DEF Told, RunTells, Opening
<1> DEFINE place == Places(run.registered)
           new == Record("applying", run.registered, place, run.snap)
           next == To("write")
<1>5. Persist(new, next)
  BY Zenon DEF PersistApplying
<1>6. place \in [Team -> Place] /\ run.registered \in SUBSET Team /\ run.snap \in SUBSET Item
  BY <1>2, PlacesTyped DEF ProcessRun
<1>7. place = Places(run.registered)
  OBVIOUS
<1> HIDE DEF place
<1>8. /\ Record("applying", run.registered, place, run.snap) \in Submission
      /\ Record("applying", run.registered, place, run.snap).status = "applying"
      /\ Record("applying", run.registered, place, run.snap).place = place
      /\ Record("applying", run.registered, place, run.snap).snap = run.snap
  BY <1>2, <1>6, ApplyingTyped
<1>9. /\ new \in Submission /\ new.status = "applying" /\ new.place = Places(run.registered)
      /\ new.snap = run.snap
  BY <1>7, <1>8
<1> HIDE DEF new
<1>10. next \in ProcessRun /\ next.pc = "write" /\ KeptBut(next) /\ KeptProcess(next)
  BY <1>2, ToProcess DEF ProcessPc, WritePc
<1> HIDE DEF next
<1>11. /\ \A k \in Team : new.place[k] = IF k \in run.registered THEN run.place[k] ELSE None
       /\ None \notin Row /\ Column # None
  BY <1>2, <1>9, PlacesHold
<1>12. ASSUME NEW k \in Team
       PROVE  /\ Accounted(Standing[k], Coming[k], run.place[k]) /\ run.dups[k] = {}
              /\ k \in run.registered => Keyed(run.snap, k, run.place[k])
  BY <1>1, <1>3 DEF PlacesKnown, PlaceNow, PlacesKeyed
<1>13. ASSUME NEW k \in Team \ run.registered
       PROVE  /\ Absent(run.inv, k) /\ run.place[k] = run.old.place[k]
              /\ run.place[k] \in Row => run.place[k] \in RowsIn(run.snap)
  <2>1. Absent(run.inv, k)
    BY <1>1, <1>2 DEF AppendInv, RunKnows, GoneThrough, Processes, EntryPc, Absent
  <2>2. run.place[k] = run.old.place[k]
    BY <1>4, <2>1 DEF ProcessTells
  <2>3. run.old.place[k] \in Row => k \in Removed
    BY <1>11 DEF Removed
  <2> QED
    BY <1>1, <1>3, <2>1, <2>2, <2>3 DEF WriteKnown
<1>14. ASSUME Level
       PROVE  KnownRows(Standing, Coming, new) \/ Forgetful(run.inv, new)
  <2>1. CASE \E k \in Team \ run.registered : run.place[k] = Column
    <3>1. PICK k \in Team \ run.registered : run.place[k] = Column
      BY <2>1
    <3>2. record.place[k] = Column
      BY <1>4, <1>13, <1>14, <3>1 DEF ProcessTells
    <3> QED
      BY <1>11, <1>13, <3>1, <3>2 DEF Forgetful
  <2>2. CASE \A k \in Team \ run.registered : run.place[k] # Column
    <3>1. ASSUME NEW k \in Team
          PROVE  KnownLive(Standing[k], Coming[k], new, k)
      <4>1. PICK at, coming, p : at = Standing[k] /\ coming = Coming[k] /\ p = run.place[k]
        OBVIOUS
      <4>2. Accounted(at, coming, p)
        BY <1>12, <4>1
      <4>3. CASE k \in run.registered
        BY <1>9, <1>11, <1>12, <4>3 DEF KnownLive
      <4>4. CASE k \notin run.registered
        <5>1. coming = {} /\ at \subseteq {p} /\ at \subseteq Row
          BY <2>2, <4>1, <4>2, <4>4 DEF Accounted, Standing
        <5>2. at \subseteq RowsIn(run.snap)
          BY <1>13, <4>1, <4>4, <5>1
        <5> QED
          BY <1>9, <1>11, <4>1, <4>4, <5>1, <5>2 DEF KnownLive, Keyed, Remains
      <4> QED
        BY <4>3, <4>4
    <3> QED
      BY <1>9, <3>1 DEF KnownRows, Live, Editable
  <2> QED
    BY <2>1, <2>2
<1>15. ASSUME LevelUpsert(new), run' = [next EXCEPT !.version = @ + 1],
              UNCHANGED <<content, sheet, late, others>>
       PROVE  RunKnown'
  <2>1. /\ run'.pc = "write" /\ Processes' /\ ~Decides' /\ run'.old = run.old /\ run'.inv = run.inv
        /\ run'.place = run.place /\ run'.dups = run.dups /\ run'.registered = run.registered
        /\ run'.snap = run.snap /\ run'.data = run.data
        /\ Standing' = Standing /\ Coming' = Coming
    BY <1>2, <1>10, <1>15, VersionUp DEF KeptBut, KeptProcess, Processes
  <2>2. /\ record'.status = "applying" /\ record'.place = Places(run.registered)
        /\ record'.snap = run.snap
    BY <1>9, <1>15 DEF LevelUpsert, Submission
  <2>3. ASSUME NEW k \in Team \ run.registered
        PROVE  run.place[k] # Column
    <3>1. record.place[k] = run.place[k]
      BY <1>4, <1>13, <1>15 DEF ProcessTells, LevelUpsert
    <3> QED
      BY <1>11, <1>13, <1>15, <3>1 DEF LevelUpsert, Forgetful
  <2>4. PlacesKnown'
    <3>1. \A j \in Team : PlaceNow(j)' = run.place[j]
      BY <2>1 DEF PlaceNow
    <3> HIDE DEF Standing, Coming
    <3> QED
      BY <1>12, <2>1, <3>1 DEF PlacesKnown
  <2>5. PlacesKeyed'
    BY <1>6, <1>12, <2>1 DEF PlacesKeyed, EntryPc
  <2>6. Updates' = Updates /\ Removed' = Removed /\ Places(run.registered)' = Places(run.registered)
    BY <1>15, <2>1 DEF Updates, Removed, Places, Clean
  <2>7. WriteKnown'
    BY <1>1, <1>3, <2>1, <2>2, <2>3, <2>6 DEF WriteKnown
  <2> QED
    BY <2>1, <2>4, <2>5, <2>7 DEF RunKnown, ProcessKnown, Unplacing
<1> QED
  BY <1>1, <1>5, <1>9, <1>14, <1>15, PersistKnown DEF Live, Editable

LEMMA PersistTerminalKnown ==
  ASSUME ConstantsAssumption, AppendInv, Known, ~Unknowing', PersistTerminal
  PROVE  Known'
<1>1. run # None /\ run.pc = "terminal"
  BY DEF PersistTerminal
<1>2. /\ Processes /\ run \in ProcessRun /\ TypeInv /\ AtWork
  BY <1>1, RunTyped DEF AppendInv, TypeInv, DecidePc, WritePc, EndPc, AtWork
<1>3. PlacesKnown /\ PlacesKeyed /\ WriteKnown
  BY <1>2 DEF Known, ProcessKnown
<1> DEFINE status == IF run.registered = {} THEN "empty"
                     ELSE IF run.old = Missing THEN "registered" ELSE "updated"
           place == Places(run.registered)
           new == Record(status, run.registered, place, run.snap)
           next == To("bind")
<1>4. Persist(new, next)
  BY Zenon DEF PersistTerminal
<1>5. /\ status \in Status /\ place \in [Team -> Place] /\ run.registered \in SUBSET Team
      /\ run.snap \in SUBSET Item /\ status \in Live
  BY <1>2, PlacesTyped DEF ProcessRun, Status, Live, Editable, Actionable
<1>6. place = Places(run.registered)
  OBVIOUS
<1> HIDE DEF status, place
<1>7. /\ Record(status, run.registered, place, run.snap) \in Submission
      /\ Record(status, run.registered, place, run.snap).status = status
      /\ Record(status, run.registered, place, run.snap).place = place
      /\ Record(status, run.registered, place, run.snap).snap = run.snap
  <2>1. PICK teams, snap : teams = run.registered /\ snap = run.snap
    OBVIOUS
  <2>2. TypeInv /\ Processes /\ teams \in SUBSET Team /\ snap \in SUBSET Item
    BY <1>2, <1>5, <2>1
  <2>3. /\ Record(status, teams, place, snap) \in Submission
        /\ Record(status, teams, place, snap).status = status
        /\ Record(status, teams, place, snap).place = place
        /\ Record(status, teams, place, snap).snap = snap
    BY <1>5, <2>2, RecordTyped
  <2> QED
    BY <2>1, <2>3
<1>8. /\ new \in Submission /\ new.status = status /\ new.place = Places(run.registered)
      /\ new.snap = run.snap
  BY <1>6, <1>7
<1> HIDE DEF new
<1>9. next \in ProcessRun /\ next.pc = "bind" /\ KeptBut(next) /\ KeptProcess(next)
  BY <1>2, ToProcess DEF ProcessPc
<1> HIDE DEF next
<1>10. /\ \A k \in Team : new.place[k] = IF k \in run.registered THEN run.place[k] ELSE None
       /\ None \notin Row /\ Column # None
  BY <1>2, <1>8, PlacesHold
<1>11. KnownRows(Standing, Coming, new)
  <2>1. ASSUME NEW k \in Team
        PROVE  KnownLive(Standing[k], Coming[k], new, k)
    <3>1. PICK at, coming, p : at = Standing[k] /\ coming = Coming[k] /\ p = run.place[k]
      OBVIOUS
    <3>2. Accounted(at, coming, p)
      BY <1>1, <1>3, <3>1 DEF PlacesKnown, PlaceNow
    <3>3. CASE k \in run.registered
      BY <1>1, <1>3, <1>8, <1>10, <3>1, <3>2, <3>3 DEF KnownLive, PlacesKeyed
    <3>4. CASE k \notin run.registered
      <4>1. at = {} /\ p # Column
        BY <1>1, <1>3, <3>1, <3>4 DEF WriteKnown
      <4>2. Accounted(at, coming, None)
        BY <1>10, <3>2, <4>1 DEF Accounted
      <4> QED
        BY <1>10, <3>1, <3>4, <4>2 DEF KnownLive, Keyed
    <3> QED
      BY <3>3, <3>4
  <2> QED
    BY <1>5, <1>8, <2>1 DEF KnownRows
<1>12. ASSUME run' = [next EXCEPT !.version = @ + 1], UNCHANGED <<content, sheet, late, others>>
       PROVE  RunKnown'
  <2>1. run'.pc = "bind" /\ ~Decides'
    BY <1>2, <1>9, <1>12, VersionUp DEF KeptBut, Processes
  <2> QED
    BY <2>1 DEF RunKnown, AtWork
<1> QED
  BY <1>1, <1>4, <1>5, <1>8, <1>11, <1>12, PersistKnown

(* The snapshot names the rows registered and the rows removed.              *)
LEMMA SnapshotKnown ==
  ASSUME ConstantsAssumption, AppendInv, Told, Processes, run.pc = "data", PlacesKeyed
  PROVE  /\ \A k \in run.registered : Keyed(Snapshot, k, run.place[k])
         /\ \A k \in Removed : run.old.place[k] \in Row => run.old.place[k] \in RowsIn(Snapshot)
         /\ \A k \in Team \ run.registered : run.place[k] = run.old.place[k]
<1>1. /\ run \in ProcessRun /\ TypeInv /\ run.registered \subseteq Team /\ run.appended \subseteq Team
      /\ None \notin Team /\ ProcessTells
  BY RunTyped, ConstantsAssumption
     DEF AppendInv, TypeInv, Processes, ProcessRun, ConstantsAssumption, Team, Told, RunTells, EndPc
<1>2. \A k \in Team \ run.registered : run.place[k] = run.old.place[k]
  <2>1. \A k \in Team \ run.registered : Absent(run.inv, k)
    BY DEF AppendInv, RunKnows, GoneThrough, Processes, EntryPc, EndPc, Absent
  <2> QED
    BY <1>1, <2>1 DEF ProcessTells
<1>3. \A k \in Team : Keyed(run.undo, k, run.place[k])
  BY DEF PlacesKeyed
<1>4. CASE run.old.status = "applying"
  <2>1. Snapshot = run.undo
    BY <1>4 DEF Snapshot
  <2> QED
    BY <1>1, <1>2, <1>3, <2>1 DEF Keyed, RowsIn, Removed
<1>5. CASE run.old.status # "applying"
  <2> DEFINE read == AsRead({item \in Updates : item.key \notin run.appended})
             blank == UNION {BlankRows(k, {run.place[k]} \union run.dups[k]) : k \in run.appended}
  <2>1. Snapshot = read \union blank
    BY <1>5 DEF Snapshot
  <2>2. ASSUME NEW item \in Updates, item.key \notin run.appended
        PROVE  \E one \in Snapshot : one.key = item.key /\ one.row = item.row
    <3>1. item \in Item
      BY <1>1, UpdatesTyped
    <3>2. [item EXCEPT !.cell = sheet[RowOf(item)]] \in read
      BY <2>2 DEF AsRead
    <3>3. /\ [item EXCEPT !.cell = sheet[RowOf(item)]].key = item.key
          /\ [item EXCEPT !.cell = sheet[RowOf(item)]].row = item.row
      BY <3>1 DEF Item
    <3> HIDE DEF read, blank
    <3> QED
      BY <2>1, <3>2, <3>3
  <2>3. ASSUME NEW k \in run.registered
        PROVE  Keyed(Snapshot, k, run.place[k])
    <3>1. CASE k \in run.appended
      <4>1. BlankRow(k, run.place[k]) \in BlankRows(k, {run.place[k]} \union run.dups[k])
        BY DEF BlankRows
      <4>2. BlankRow(k, run.place[k]) \in blank
        BY <3>1, <4>1
      <4>3. BlankRow(k, run.place[k]).key = k /\ BlankRow(k, run.place[k]).row = run.place[k]
        BY DEF BlankRow
      <4> HIDE DEF read, blank
      <4> QED
        BY <2>1, <4>2, <4>3 DEF Keyed
    <3>2. CASE k \notin run.appended
      <4> DEFINE item == [key |-> k, row |-> run.place[k], cell |-> Clean(k)]
      <4>1. item \in Updates
        BY DEF Updates
      <4>2. item.key = k /\ item.row = run.place[k]
        OBVIOUS
      <4> HIDE DEF item, read, blank
      <4> QED
        BY <2>2, <3>2, <4>1, <4>2 DEF Keyed
    <3> QED
      BY <3>1, <3>2
  <2>4. ASSUME NEW k \in Removed
        PROVE  run.old.place[k] \in RowsIn(Snapshot)
    <3>1. BlankRow(None, run.old.place[k]) \in Updates
      BY DEF Updates
    <3>2. /\ BlankRow(None, run.old.place[k]).key \notin run.appended
          /\ BlankRow(None, run.old.place[k]).row = run.old.place[k]
      BY <1>1 DEF BlankRow
    <3> HIDE DEF read, blank
    <3> QED
      BY <2>2, <3>1, <3>2 DEF RowsIn
  <2> HIDE DEF read, blank
  <2> QED
    BY <1>2, <2>3, <2>4
<1> QED
  BY <1>4, <1>5

LEMMA ReadSnapshotKnown ==
  ASSUME ConstantsAssumption, AppendInv, Told, Known, ReadSnapshot
  PROVE  Known'
<1>1. run # None /\ run.pc = "data"
  BY DEF ReadSnapshot
<1>2. /\ Processes /\ run \in ProcessRun /\ TypeInv /\ AtWork /\ run.registered \subseteq Team
      /\ run.dups \in [Team -> SUBSET Row] /\ None \notin Row /\ None # Column
  BY <1>1, RunTyped, ConstantsAssumption
     DEF AppendInv, TypeInv, DecidePc, WritePc, EndPc, AtWork, ProcessRun, ConstantsAssumption,
         Row, Column
<1>3. PlacesKnown /\ PlacesKeyed
  BY <1>2 DEF Known, ProcessKnown
<1>4. CASE ReadFails
  BY <1>1, <1>4, ReadFailsKnown
<1>5. CASE ~ReadFails
  <2> DEFINE pc == IF Updates = {} THEN "terminal" ELSE "applying"
  <2>1. /\ SameRecord /\ UNCHANGED <<content, sheet, late, others>>
        /\ run' = [run EXCEPT !.data = Updates, !.snap = Snapshot, !.pc = pc]
    BY <1>5 DEF ReadSnapshot, Continue, world, SameRecord
  <2>2. /\ pc \in {"terminal", "applying"} /\ pc \in ProcessPc
        /\ pc = "terminal" => Updates = {}
    BY DEF ProcessPc
  <2> HIDE DEF pc
  <2>3. /\ run'.pc = pc /\ run'.op = run.op /\ run'.inv = run.inv /\ run'.old = run.old
        /\ run'.data = Updates /\ run'.snap = Snapshot /\ run'.place = run.place
        /\ run'.dups = run.dups /\ run'.registered = run.registered
    BY <1>2, <2>1 DEF ProcessRun
  <2>4. ~Decides' /\ ~Changing' /\ pc \notin Unplacing \union WritePc \union EntryPc \union {"data"}
    BY <1>2, <2>2, <2>3 DEF Decides, Processes, Changing, Unplacing, WritePc, EntryPc
  <2>5. Standing' = Standing /\ Coming' = Coming
    BY <2>1 DEF Standing, Coming, TeamAt, OtherRow
  <2>6. PlacesKnown'
    <3>1. \A j \in Team : Accounted(Standing[j], Coming[j], run.place[j]) /\ run.dups[j] = {}
      BY <1>1, <1>3 DEF PlacesKnown, PlaceNow
    <3>2. \A j \in Team : PlaceNow(j)' = run.place[j]
      BY <2>3, <2>4 DEF PlaceNow, Unplacing
    <3> HIDE DEF Standing, Coming
    <3> QED
      BY <2>3, <2>5, <3>1, <3>2 DEF PlacesKnown
  <2>7. /\ \A k \in run.registered : Keyed(Snapshot, k, run.place[k])
        /\ \A k \in Removed : run.old.place[k] \in Row => run.old.place[k] \in RowsIn(Snapshot)
        /\ \A k \in Team \ run.registered : run.place[k] = run.old.place[k]
    BY <1>1, <1>2, <1>3, SnapshotKnown
  <2>8. Updates' = Updates /\ Removed' = Removed
    BY <2>1, <2>3 DEF Updates, Removed, Clean
  <2>9. ASSUME pc = "terminal", NEW k \in Team \ run.registered
        PROVE  run.place[k] # Column /\ Standing[k] = {}
    <3>1. run.old.place[k] = None
      <4>1. k \in Removed => BlankRow(None, run.old.place[k]) \in Updates
        BY DEF Updates
      <4> QED
        BY <2>2, <2>9, <4>1 DEF Removed
    <3>2. run.place[k] = None
      BY <2>7, <2>9, <3>1
    <3>3. Accounted(Standing[k], Coming[k], None) /\ Standing[k] \subseteq Row
      BY <1>1, <1>3, <2>9, <3>2 DEF PlacesKnown, PlaceNow, Standing
    <3> HIDE DEF Standing, Coming
    <3> QED
      BY <1>2, <3>2, <3>3 DEF Accounted
  <2>10. PlacesKeyed' /\ WriteKnown'
    <3>1. PlacesKeyed'
      BY <2>3, <2>4, <2>7 DEF PlacesKeyed
    <3> HIDE DEF Standing
    <3>2. WriteKnown'
      BY <2>3, <2>4, <2>5, <2>7, <2>8, <2>9 DEF WriteKnown
    <3> QED
      BY <3>1, <3>2
  <2>11. RunKnown'
    BY <2>3, <2>4, <2>6, <2>10 DEF RunKnown, ProcessKnown, Unplacing
  <2>12. Standstill
    BY <2>1, <2>4, QuietSettles DEF Standstill, Quiet, OtherRow
  <2> QED
    BY <2>11, <2>12, StandstillKnown DEF Known, RunKnown
<1> QED
  BY <1>4, <1>5

-----------------------------------------------------------------------------
(* What a write leaves in a row that is not the column's first.              *)
LEMMA WrittenRow ==
  ASSUME ConstantsAssumption, NEW s, NEW items \in SUBSET Item, NEW r \in Row, r # 1
  PROVE  /\ \/ Written(s, items)[r] = s[r]
            \/ \E item \in items : item.row = r /\ Written(s, items)[r] = item.cell
         /\ (\E item \in items : item.row = r /\ item.cell = Blank) => Written(s, items)[r] = Blank
<1> DEFINE hits == Hitting(items, r)
           winner == CHOOSE item \in hits : Wins(item, hits)
<1>1. \A item : RowOf(item) = r <=> item.row = r
  BY DEF RowOf, Row, Column
<1>2. hits \subseteq items /\ hits \subseteq Item /\ hits = {item \in items : item.row = r}
  BY <1>1 DEF Hitting
<1>3. Written(s, items)[r] = IF hits = {} THEN s[r] ELSE winner.cell
  BY DEF Written
<1>4. hits # {} => \E item \in hits : Wins(item, hits)
  BY <1>2, WinnerExists
<1> HIDE DEF hits
<1>5. hits # {} => winner \in hits /\ Wins(winner, hits)
  BY <1>4
<1> HIDE DEF winner
<1> QED
  BY <1>2, <1>3, <1>5 DEF Wins

LEMMA WrittenStanding ==
  ASSUME ConstantsAssumption, TypeOK, TypeOK', 1 \in OtherRow, OtherRow' = OtherRow,
         NEW items \in SUBSET Item, sheet' = Written(sheet, items), NEW k \in Team
  PROVE  /\ \A r \in Standing'[k] :
              r \in Standing[k] \/ \E item \in items : item.row = r /\ item.cell \in Entry /\ item.cell.team = k
         /\ \A r \in Row : (\E item \in items : item.row = r /\ item.cell = Blank) => r \notin Standing'[k]
<1>1. Standing[k] = {r \in Row : r \notin OtherRow /\ HoldsTeam(sheet, r, k)}
  BY StandingIs
<1>2. Standing'[k] = {r \in Row : r \notin OtherRow /\ HoldsTeam(sheet', r, k)}
  <2>1. None \notin Team /\ {Blank, Other} \intersect Entry = {}
    BY CellAssumption DEF ConstantsAssumption, Team, CellAssumption
  <2>2. \A r \in Row : sheet'[r] \in {Blank, Other} \union Entry
    BY DEF TypeOK, Cell
  <2> QED
    BY <2>1, <2>2 DEF Standing, TeamAt, HoldsTeam
<1>3. ASSUME NEW r \in Row, r \notin OtherRow
      PROVE  /\ \/ sheet'[r] = sheet[r]
                \/ \E item \in items : item.row = r /\ sheet'[r] = item.cell
             /\ (\E item \in items : item.row = r /\ item.cell = Blank) => sheet'[r] = Blank
  <2>1. r # 1
    BY <1>3
  <2>2. PICK s : s = sheet
    OBVIOUS
  <2>3. /\ \/ Written(s, items)[r] = s[r]
           \/ \E item \in items : item.row = r /\ Written(s, items)[r] = item.cell
        /\ (\E item \in items : item.row = r /\ item.cell = Blank) => Written(s, items)[r] = Blank
    BY <1>3, <2>1, WrittenRow
  <2> QED
    BY <2>2, <2>3
<1>4. Blank \notin Entry
  BY CellAssumption DEF CellAssumption
<1> HIDE DEF Standing
<1> QED
  BY <1>1, <1>2, <1>3, <1>4 DEF HoldsTeam

(* The write of a process, made, repeated or read back.                      *)
LEMMA ProcessWriteKnown ==
  ASSUME ConstantsAssumption, AppendInv, Told, Known, Processes, run.pc \in WritePc,
         SameRecord, OtherRow' = OtherRow,
         NEW pc \in WritePc \union {"terminal", "failed"}, run' = To(pc),
         \A k \in Team : Coming'[k] = Coming[k],
         \A k \in Team : \A r \in Standing'[k] :
           r \in Standing[k] \/ (k \in run.registered /\ r = run.place[k]),
         pc = "terminal" => \A k \in Team : \A r \in Row :
           BlankRow(None, r) \in run.data => r \notin Standing'[k],
         \A entry \in late' : entry \in late \/ entry[2].type \notin {"upsert", "append"}
  PROVE  Known'
<1>1. /\ run \in ProcessRun /\ TypeInv /\ AtWork /\ run.pc \notin EndPc /\ run.registered \subseteq Team
      /\ Changing
  BY RunTyped DEF AppendInv, TypeInv, WritePc, EndPc, AtWork, ProcessRun, Changing
<1>2. ProcessKnown /\ PlacesKnown /\ PlacesKeyed /\ WriteKnown
  BY <1>1 DEF Known, ProcessKnown
<1>3. /\ run' # None /\ run' \in ProcessRun /\ run'.pc = pc /\ KeptBut(run') /\ KeptProcess(run')
      /\ Processes' /\ ~Decides'
  <2>1. pc \in ProcessPc
    BY DEF ProcessPc, EndPc, WritePc
  <2>2. run' \in ProcessRun /\ run'.pc = pc /\ KeptBut(run') /\ KeptProcess(run')
    BY <1>1, <2>1, ToProcess
  <2> QED
    BY <2>2, NoneAssumption DEF KeptBut, Processes, Decides
<1>4. pc \notin EntryPc \union Unplacing \union {"data", "applying"}
      /\ (pc \notin {"failed", "terminal"} => pc \in WritePc)
  BY DEF EntryPc, Unplacing, WritePc
<1>5. ASSUME NEW k \in Team
      PROVE  Accounted(Standing'[k], Coming'[k], run.place[k]) /\ run.dups[k] = {}
  <2>1. PICK at, coming, p, at2 : at = Standing[k] /\ coming = Coming[k] /\ p = run.place[k] /\ at2 = Standing'[k]
    OBVIOUS
  <2>2. Accounted(at, coming, p) /\ run.dups[k] = {} /\ Coming'[k] = coming
    BY <1>2, <2>1 DEF PlacesKnown, PlaceNow, WritePc
  <2>3. CASE k \in run.registered
    <3>1. p # Column
      BY <1>1, <2>1, <2>3, PlacesHold DEF Row, Column
    <3>2. at2 \subseteq at \union {p}
      BY <2>1
    <3>3. Accounted(at2, coming, p)
      BY <2>2, <3>1, <3>2 DEF Accounted
    <3> QED
      BY <2>1, <2>2, <3>3
  <2>4. CASE k \notin run.registered
    <3>1. at2 \subseteq at
      BY <2>1, <2>4
    <3>2. Accounted(at2, coming, p)
      BY <2>2, <3>1 DEF Accounted
    <3> QED
      BY <2>1, <2>2, <3>2
  <2> QED
    BY <2>3, <2>4
<1>6. ASSUME NEW k \in Team \ run.registered
      PROVE  /\ run.place[k] # Column /\ Standing'[k] \subseteq Standing[k]
             /\ pc = "terminal" => Standing'[k] = {}
  <2>1. run.place[k] # Column /\ run.data = Updates
    BY <1>2 DEF WriteKnown
  <2>2. run.place[k] = run.old.place[k]
    <3>1. Absent(run.inv, k)
      BY <1>1 DEF AppendInv, RunKnows, GoneThrough, Processes, EntryPc, WritePc, Absent
    <3>2. ProcessTells
      BY <1>1 DEF Told, RunTells
    <3> QED
      BY <3>1, <3>2 DEF ProcessTells
  <2>3. \A r \in Row : r = run.place[k] => BlankRow(None, r) \in run.data
    <3>1. None \notin Row
      BY ConstantsAssumption DEF ConstantsAssumption, Row
    <3>2. run.place[k] \in Row => k \in Removed
      BY <2>2, <3>1 DEF Removed
    <3> QED
      BY <2>1, <2>2, <3>2 DEF Updates
  <2>4. Standing'[k] \subseteq {run.place[k]} \intersect Row
    <3>1. Standing'[k] \subseteq Row
      BY DEF Standing
    <3> HIDE DEF Standing
    <3> QED
      BY <1>5, <2>1, <3>1 DEF Accounted
  <2>5. Standing'[k] \subseteq Standing[k]
    BY DEF WritePc
  <2>6. pc = "terminal" => \A r \in Row : r = run.place[k] => r \notin Standing'[k]
    BY <2>3
  <2> HIDE DEF Standing
  <2> QED
    BY <2>1, <2>4, <2>5, <2>6
<1>7. RunKnown' /\ (Changing' => Changing)
  <2>1. ASSUME pc # "failed" PROVE ProcessKnown'
    <3>1. PlacesKnown'
      <4>1. \A j \in Team : PlaceNow(j)' = run.place[j]
        BY <1>3, <1>4 DEF PlaceNow, Unplacing, KeptProcess
      <4> HIDE DEF Standing, Coming
      <4> QED
        BY <1>3, <1>5, <4>1 DEF PlacesKnown, KeptProcess
    <3>2. PlacesKeyed'
      BY <1>2, <1>3, <1>4 DEF PlacesKeyed, KeptProcess
    <3>3. /\ Updates' = Updates /\ Removed' = Removed
          /\ Places(run.registered)' = Places(run.registered)
      BY <1>3 DEF Updates, Removed, Places, Clean, KeptBut, KeptProcess, SameRecord
    <3>4. WriteKnown'
      <4>1. PICK at : at = Standing'
        OBVIOUS
      <4>2. pc = "terminal" => \A k \in Team \ run.registered : at[k] = {}
        BY <1>6, <4>1
      <4>3. \A k \in Team \ run.registered : run.place[k] # Column
        BY <1>6
      <4> QED
        BY <1>2, <1>3, <1>4, <2>1, <3>3, <4>1, <4>2, <4>3
           DEF WriteKnown, KeptBut, KeptProcess, SameRecord
    <3> QED
      BY <1>3, <1>4, <3>1, <3>2, <3>4 DEF ProcessKnown, Unplacing
  <2> QED
    BY <1>1, <1>3, <2>1 DEF RunKnown, AtWork, EndPc
<1>8. KnownRows(Standing', Coming', record')
  <2>1. record.status = "applying" /\ record.place = Places(run.registered)
    BY <1>2 DEF WriteKnown
  <2>2. ASSUME NEW k \in Team
        PROVE  KnownLive(Standing'[k], Coming'[k], record, k)
    <3>1. PICK at, coming, rec, at2 : at = Standing[k] /\ coming = Coming[k] /\ rec = record /\ at2 = Standing'[k]
      OBVIOUS
    <3>2. KnownLive(at, coming, rec, k) /\ Coming'[k] = coming
      BY <2>1, <3>1 DEF Known, KnownRows, Live, Editable
    <3>3. CASE k \in run.registered
      <4>1. rec.place[k] = run.place[k]
        BY <1>1, <2>1, <3>1, <3>3, PlacesHold
      <4> QED
        BY <1>5, <3>1, <3>2, <4>1 DEF KnownLive
    <3>4. CASE k \notin run.registered
      <4>1. at2 \subseteq at
        BY <1>6, <3>1, <3>4
      <4>2. Settles(at, coming, at2, coming)
        BY <4>1 DEF Settles
      <4>3. KnownLive(at2, coming, rec, k)
        BY <3>2, <4>2, SettledIs
      <4> QED
        BY <3>1, <3>2, <4>3
    <3> QED
      BY <3>3, <3>4
  <2>3. PICK t, d : t = Standing' /\ d = Coming'
    OBVIOUS
  <2>4. \A k \in Team : KnownLive(t[k], d[k], record, k)
    BY <2>2, <2>3
  <2>5. KnownRows(t, d, record')
    BY <2>1, <2>4 DEF KnownRows, KnownLive, Keyed, Remains, SameRecord, Live, Editable
  <2> QED
    BY <2>3, <2>5
<1>9. LateKnown'
  <2>1. ASSUME NEW entry \in late'
        PROVE  /\ entry[2].type = "append" => entry[2].cell \in Entry
               /\ ~(entry[2].type = "upsert" /\ entry[2].expected = record'.version)
    BY <1>1, <2>1 DEF Known, LateKnown, SameRecord
  <2> QED
    BY <2>1 DEF LateKnown
<1> QED
  BY <1>7, <1>8, <1>9 DEF Known, RunKnown

(* The write of a rollback.                                                  *)
LEMMA DecideWriteKnown ==
  ASSUME ConstantsAssumption, AppendInv, Told, Known, Decides, run.pc \in WritePc,
         SameRecord, OtherRow' = OtherRow,
         NEW pc \in DecidePc \ {"confirm", "restore"}, run' = To(pc),
         \A k \in Team : Coming'[k] = Coming[k],
         \A k \in Team : \A r \in Standing'[k] : r \in Standing[k] \/ r \in RowsIn(run.data),
         \A entry \in late' : entry \in late \/ entry[2].type \notin {"upsert", "append"}
  PROVE  Known'
<1>1. run \in DecideRun /\ DecideKnown /\ Writing
  BY RunTyped DEF AppendInv, TypeInv, Known, Decides, Writing
<1>2. run' \in DecideRun /\ run'.pc = pc /\ KeptBut(run') /\ run' # None
  BY <1>1, ToDecide, NoneAssumption
<1>3. /\ record.status \notin Live /\ record.snap = run.old.snap
      /\ RowsIn(run.data) \subseteq RowsIn(record.snap)
  BY <1>1 DEF DecideKnown, RowsIn
<1>4. RunKnown' /\ ~Changing'
  BY <1>1, <1>2, <1>3, DecideMovesKnown DEF KeptBut, Decides, DecideKnown
<1>5. KnownRows(Standing', Coming', record')
  <2>1. ASSUME NEW k \in Team
        PROVE  KnownEnded(Standing'[k], Coming'[k], record', k)
    <3>1. KnownEnded(Standing[k], Coming[k], record, k) /\ Coming'[k] = Coming[k]
      BY <1>3 DEF Known, KnownRows
    <3>2. Standing'[k] \subseteq Standing[k] \union RowsIn(record.snap)
      BY <1>3
    <3>3. record'.place = record.place /\ record'.snap = record.snap
      BY DEF SameRecord
    <3> HIDE DEF Standing, Coming
    <3> QED
      BY <3>1, <3>2, <3>3 DEF KnownEnded
  <2> QED
    BY <1>3, <2>1 DEF KnownRows, SameRecord
<1>6. LateKnown'
  <2>1. ASSUME NEW entry \in late'
        PROVE  /\ entry[2].type = "append" => entry[2].cell \in Entry
               /\ entry[2].type = "upsert" /\ entry[2].expected = record.version =>
                    /\ entry[2].new.status \notin Live
                    /\ entry[2].new.place = record.place /\ entry[2].new.snap = record.snap
    <3>1. CASE entry \in late
      <4>1. /\ entry[2].type = "append" => entry[2].cell \in Entry
            /\ entry[2].type = "upsert" /\ entry[2].expected = record.version
                 /\ entry[2].new.status \notin Live =>
                   entry[2].new.place = record.place /\ entry[2].new.snap = record.snap
        BY <3>1 DEF Known, LateKnown
      <4>2. entry[2].type = "upsert" /\ entry[2].expected = record.version =>
              entry[2].new.status \notin Live
        BY <1>1, <3>1 DEF Told, LateTells
      <4> QED
        BY <4>1, <4>2
    <3>2. CASE entry \notin late
      BY <2>1, <3>2
    <3> QED
      BY <3>1, <3>2
  <2> QED
    BY <1>4, <2>1 DEF LateKnown, SameRecord
<1> QED
  BY <1>4, <1>5, <1>6 DEF Known, RunKnown

LEMMA WriteRows ==
  ASSUME ConstantsAssumption, AppendInv, Processes, NEW k \in Team, NEW item \in Updates,
         item.cell \in Entry, item.cell.team = k
  PROVE  k \in run.registered /\ item.row = run.place[k]
<1>1. run.registered \subseteq Team /\ Blank \notin Entry
  BY RunTyped, CellAssumption DEF AppendInv, TypeInv, ProcessRun, CellAssumption
<1>2. item.cell # Blank
  BY <1>1
<1>3. PICK j \in run.registered : item = [key |-> j, row |-> run.place[j], cell |-> Clean(j)]
  BY <1>2 DEF Updates, BlankRows, BlankRow
<1>4. item.cell = Clean(j) /\ item.row = run.place[j]
  BY <1>3
<1>5. Clean(j).team = j
  BY DEF Clean
<1> QED
  BY <1>3, <1>4, <1>5

LEMMA WriteStepKnown ==
  ASSUME ConstantsAssumption, AppendInv, AppendInv', Told, Known, Write
  PROVE  Known'
<1> DEFINE req == [type |-> "write", data |-> run.data]
<1>1. /\ run # None /\ run.pc \in WritePc
      /\ UNCHANGED <<content, record, others>> /\ SameRecord
      /\ UNCHANGED late \/ GiveUp(req)
  BY DEF Write, WritePc, SameRecord
<1>2. \A entry \in late' : entry \in late \/ entry = <<faults, req>>
  BY <1>1 DEF GiveUp
<1>3. req.type \notin {"upsert", "append"} /\ late \subseteq late'
  BY <1>1 DEF GiveUp
<1> HIDE DEF req
<1>4. \A entry \in late' : entry \in late \/ entry[2].type \notin {"upsert", "append"}
  BY <1>2, <1>3
<1> DEFINE After == {AfterWrite, "readback write", IF run.op = "process" THEN "failed" ELSE "check"}
<1> HIDE DEF After
<1>5. PICK pc \in After : /\ run' = To(pc)
                        /\ \/ sheet' = Written(sheet, run.data)
                           \/ sheet' = sheet /\ pc # AfterWrite
  <2>1. AfterWrite \notin {"readback write", IF run.op = "process" THEN "failed" ELSE "check"}
    BY DEF AfterWrite
  <2> QED
    BY <2>1 DEF After, Write, WriteFailed
<1>6. /\ TypeOK /\ TypeOK' /\ OtherRow' = OtherRow /\ 1 \in OtherRow /\ run.data \in SUBSET Item
  BY <1>1, RunTyped DEF AppendInv, TypeInv, OtherRow, Known
<1>7. \A k \in Team : Coming'[k] = Coming[k]
  <2>1. \A k \in Team : Coming'[k] \subseteq Coming[k] /\ Coming[k] \subseteq Coming'[k]
    BY <1>3, <1>4 DEF Coming
  <2> HIDE DEF Coming
  <2> QED
    BY <2>1
<1>8. ASSUME NEW k \in Team, NEW r \in Standing'[k]
      PROVE  \/ r \in Standing[k]
             \/ \E item \in run.data : item.row = r /\ item.cell \in Entry /\ item.cell.team = k
  <2>1. CASE sheet' = Written(sheet, run.data)
    <3>1. PICK items \in SUBSET Item : items = run.data
      BY <1>6
    <3>2. sheet' = Written(sheet, items)
      BY <2>1, <3>1
    <3>3. \A q \in Standing'[k] :
            q \in Standing[k] \/ \E item \in items : item.row = q /\ item.cell \in Entry /\ item.cell.team = k
      BY <1>6, <3>2, WrittenStanding
    <3> QED
      BY <1>8, <3>1, <3>3
  <2>2. CASE sheet' = sheet
    BY <1>6, <1>8, <2>2 DEF Standing, TeamAt
  <2> QED
    BY <1>5, <2>1, <2>2
<1>9. ASSUME pc = AfterWrite, NEW k \in Team, NEW r \in Row, BlankRow(None, r) \in run.data
      PROVE  r \notin Standing'[k]
  <2>1. BlankRow(None, r).row = r /\ BlankRow(None, r).cell = Blank
    BY DEF BlankRow
  <2>2. sheet' = Written(sheet, run.data)
    BY <1>5, <1>9
  <2> QED
    BY <1>6, <1>9, <2>1, <2>2, WrittenStanding
<1>10. CASE Processes
  <2>1. pc \in WritePc \union {"terminal", "failed"} /\ (pc = "terminal" => pc = AfterWrite)
    BY <1>5, <1>10 DEF After, AfterWrite, WritePc, Processes
  <2>2. run.data = Updates
    BY <1>1, <1>10 DEF Known, AtWork, ProcessKnown, WriteKnown, WritePc, EndPc
  <2> HIDE DEF Standing, Coming
  <2>3. ASSUME NEW k \in Team, NEW r \in Standing'[k]
        PROVE  r \in Standing[k] \/ (k \in run.registered /\ r = run.place[k])
    <3>1. CASE \E item \in run.data : item.row = r /\ item.cell \in Entry /\ item.cell.team = k
      BY <1>10, <2>2, <3>1, WriteRows
    <3> QED
      BY <1>8, <2>3, <3>1
  <2> QED
    BY <1>1, <1>4, <1>5, <1>6, <1>7, <1>9, <1>10, <2>1, <2>3, ProcessWriteKnown
<1>11. CASE Decides
  <2>1. pc \in DecidePc \ {"confirm", "restore"}
    BY <1>5, <1>11 DEF After, AfterWrite, DecidePc, WritePc, Decides
  <2> HIDE DEF Standing, Coming
  <2>2. ASSUME NEW k \in Team, NEW r \in Standing'[k]
        PROVE  r \in Standing[k] \/ r \in RowsIn(run.data)
    <3>1. CASE \E item \in run.data : item.row = r /\ item.cell \in Entry /\ item.cell.team = k
      BY <3>1 DEF RowsIn
    <3> QED
      BY <1>8, <2>2, <3>1
  <2> QED
    BY <1>1, <1>4, <1>5, <1>6, <1>7, <1>11, <2>1, <2>2, DecideWriteKnown
<1> QED
  BY <1>1, <1>6, <1>10, <1>11, RunTyped

LEMMA ReadBackWriteKnown ==
  ASSUME ConstantsAssumption, AppendInv, Told, Known, ReadBackWrite
  PROVE  Known'
<1>1. /\ run # None /\ UNCHANGED <<content, sheet, record, late, others>> /\ SameRecord
      /\ run.pc \in WritePc
  BY DEF ReadBackWrite, Continue, world, SameRecord, WritePc
<1>2. PICK pc \in {AfterWrite, "rewrite"} :
        run' = To(pc) /\ (pc = AfterWrite => Matches(sheet, run.data))
  <2>1. AfterWrite # "rewrite"
    BY DEF AfterWrite
  <2> QED
    BY <2>1 DEF ReadBackWrite, Continue
<1>3. Standing' = Standing /\ Coming' = Coming /\ OtherRow' = OtherRow /\ TypeOK
  BY <1>1 DEF Standing, Coming, TeamAt, OtherRow, AppendInv, TypeInv
<1>4. ASSUME pc = AfterWrite, NEW k \in Team, NEW r \in Row, BlankRow(None, r) \in run.data
      PROVE  r \notin Standing'[k]
  <2>1. BlankRow(None, r).row = r /\ BlankRow(None, r).cell = Blank /\ r # Column
    BY DEF BlankRow, Row, Column
  <2>2. sheet[r] = Blank
    BY <1>2, <1>4, <2>1 DEF Matches
  <2>3. Standing[k] = {q \in Row : q \notin OtherRow /\ HoldsTeam(sheet, q, k)} /\ Blank \notin Entry
    BY <1>3, StandingIs, CellAssumption DEF CellAssumption
  <2> HIDE DEF Standing
  <2> QED
    BY <1>3, <2>2, <2>3 DEF HoldsTeam
<1> HIDE DEF Standing, Coming
<1>5. CASE Processes
  <2>1. pc \in WritePc \union {"terminal", "failed"} /\ (pc = "terminal" => pc = AfterWrite)
    BY <1>2, <1>5 DEF AfterWrite, WritePc, Processes
  <2> QED
    BY <1>1, <1>2, <1>3, <1>4, <1>5, <2>1, ProcessWriteKnown
<1>6. CASE Decides
  <2>1. pc \in DecidePc \ {"confirm", "restore"}
    BY <1>2, <1>6 DEF AfterWrite, DecidePc, WritePc, Decides
  <2> QED
    BY <1>1, <1>2, <1>3, <1>6, <2>1, DecideWriteKnown
<1> QED
  BY <1>1, <1>3, <1>5, <1>6, RunTyped

-----------------------------------------------------------------------------
(* The requests that were given up.                                          *)

(* A first record knows of no row when there is none.                        *)
LEMMA FirstKnown ==
  ASSUME ConstantsAssumption, NEW s, NEW c, NEW new, KnownRows(s, c, Missing), Rowless(new),
         \A k \in Team : s[k] \subseteq Row
  PROVE  KnownRows(s, c, new)
<1>1. None \notin Row /\ Column # None
  BY ConstantsAssumption DEF ConstantsAssumption, Row, Column
<1>2. Missing.status = "missing" /\ \A k \in Team : Missing.place[k] = None
  BY DEF Missing
<1>3. "missing" \in Live /\ {"applying", "empty"} \subseteq Live
  BY DEF Live, Editable
<1>4. ASSUME NEW k \in Team
      PROVE  KnownLive(s[k], c[k], new, k)
  <2>1. KnownLive(s[k], c[k], Missing, k)
    BY <1>2, <1>3 DEF KnownRows
  <2>2. c[k] = {} /\ s[k] \subseteq {None}
    BY <1>1, <1>2, <2>1 DEF KnownLive, Accounted, Remains
  <2>3. s[k] = {}
    BY <1>1, <2>2
  <2> QED
    BY <2>2, <2>3 DEF KnownLive, Keyed, Accounted, Rowless
<1> QED
  BY <1>3, <1>4 DEF KnownRows, Rowless

LEMMA LateUpsertKnown ==
  ASSUME ConstantsAssumption, AppendInv, Told, Known, ~Unknowing',
         NEW entry \in late, entry[2].type = "upsert", Upsert(entry[2]),
         late' = late \ {entry}, UNCHANGED <<content, sheet, run, others>>
  PROVE  Known'
<1> DEFINE req == entry[2]
<1>1. req \in Upserts /\ req.inv \in Invocation /\ req.new \in Submission
  BY DEF AppendInv, TypeInv, TypeOK, Request, Upserts
<1>2. /\ record' = [req.new EXCEPT !.version = record.version + 1]
      /\ req.expected = None => record = Missing
      /\ req.expected = None \/ req.expected = record.version
  BY DEF Upsert, Upserted, Accepts, Note, Unknowing, Had
<1>3. ASSUME NEW k \in Forgets(req) PROVE record.place[k] # Column
  BY <1>3 DEF Upsert, Note, Unknowing, Had
<1>4. /\ req.expected = None => Rowless(req.new)
      /\ req.expected = record.version /\ req.new.status \in Live => ~Writing
  BY DEF Told, LateTells
<1>5. req.expected = record.version =>
        /\ ~Changing
        /\ req.new.status \in Live =>
             KnownRows(Standing, Coming, req.new) \/ Forgetful(req.inv, req.new)
        /\ req.new.status \notin Live =>
             req.new.place = record.place /\ req.new.snap = record.snap
  BY DEF Known, LateKnown
<1> HIDE DEF req
<1>6. ~Forgetful(req.inv, req.new)
  <2>1. SUFFICES ASSUME NEW k \in Team, Absent(req.inv, k), record.place[k] = Column,
                        req.new.place[k] = None
                 PROVE  FALSE
    BY DEF Forgetful
  <2>2. Column # None
    BY ConstantsAssumption DEF ConstantsAssumption, Column
  <2>3. k \in Forgets(req)
    BY <2>1, <2>2 DEF Forgets, Absent
  <2> QED
    BY <1>3, <2>1, <2>3
<1>7. IF req.new.status \in Live THEN KnownRows(Standing, Coming, req.new)
      ELSE req.new.place = record.place /\ req.new.snap = record.snap
  <2>1. CASE req.expected = record.version
    BY <1>5, <1>6, <2>1
  <2>2. CASE req.expected = None
    <3>1. PICK s, c, new : s = Standing /\ c = Coming /\ new = req.new
      OBVIOUS
    <3>2. KnownRows(s, c, Missing) /\ Rowless(new)
      BY <1>2, <1>4, <2>2, <3>1 DEF Known
    <3>3. \A k \in Team : s[k] \subseteq Row
      BY <3>1 DEF Standing
    <3>4. KnownRows(s, c, new) /\ new.status \in Live
      BY <3>2, <3>3, FirstKnown DEF Rowless, Live, Editable
    <3> QED
      BY <3>1, <3>4
  <2> QED
    BY <1>2, <2>1, <2>2
<1>8. 1 \in OtherRow' /\ KnownRows(Standing', Coming', record') /\ LateKnown'
  BY <1>1, <1>2, <1>7, UpsertedKnown
<1>9. /\ record'.version = record.version + 1 /\ record.version \in Nat
      /\ record'.status = req.new.status /\ record'.snap = req.new.snap
  BY <1>1, <1>2 DEF Submission, AppendInv, TypeInv, TypeOK
<1>10. ASSUME record.status # "missing" PROVE req.expected = record.version
  BY <1>2, <1>10 DEF Missing
<1>11. AtWork => ProcessKnown'
  <2>1. SUFFICES ASSUME AtWork, ProcessKnown PROVE ProcessKnown'
    BY DEF Known
  <2>2. ~Changing
    <3>1. Changing => record.status = "applying"
      BY <2>1 DEF Changing, ProcessKnown, WriteKnown
    <3> QED
      BY <1>5, <1>10, <3>1
  <2>3. Processes /\ run.pc \notin Unplacing \union WritePc
    BY <2>1, <2>2 DEF AtWork, Changing
  <2>4. Standing' = Standing
    BY DEF Standing, TeamAt, OtherRow
  <2>5. AllSettle
    BY QuietSettles DEF Quiet, OtherRow
  <2>6. PlacesKnown'
    <3>1. ASSUME NEW j \in Team
          PROVE  \A p : Accounted(Standing[j], Coming[j], p) => Accounted(Standing'[j], Coming'[j], p)
      BY <2>5, SettledIs DEF AllSettle
    <3> QED
      BY <2>1, <3>1 DEF ProcessKnown, PlacesKnown, PlaceNow
  <2>7. PlacesKeyed'
    BY <2>1 DEF ProcessKnown, PlacesKeyed, Keyed
  <2>8. WriteKnown'
    <3>1. WriteKnown
      BY <2>1 DEF ProcessKnown
    <3>2. Updates' = Updates /\ Removed' = Removed
      BY DEF Updates, Removed, Clean
    <3> QED
      BY <2>3, <2>4, <3>1, <3>2 DEF WriteKnown
  <2> QED
    BY <2>1, <2>3, <2>6, <2>7, <2>8 DEF ProcessKnown
<1>12. Decides => DecideKnown'
  <2>1. SUFFICES ASSUME Decides, DecideKnown PROVE DecideKnown'
    BY DEF Known
  <2>2. ~Level'
    BY <1>9, <2>1, RunTyped DEF Level, AppendInv, TypeInv, RunKnows, Decides
  <2>3. ASSUME run.pc \in WritePc \union {"restore"}
        PROVE  record'.status \notin Live /\ record'.snap = run.old.snap
    <3>1. record.status \notin Live /\ record.snap = run.old.snap
      BY <2>1, <2>3 DEF DecideKnown
    <3>2. req.expected = record.version
      BY <1>10, <3>1 DEF Live, Editable
    <3>3. req.new.status \notin Live
      BY <1>4, <2>1, <2>3, <3>2 DEF Writing, Decides
    <3> QED
      BY <1>5, <1>9, <3>1, <3>2, <3>3
  <2> QED
    BY <2>1, <2>2, <2>3 DEF DecideKnown
<1>13. (AtWork' <=> AtWork) /\ (Decides' <=> Decides)
  BY DEF AtWork, Processes, Decides
<1> QED
  BY <1>8, <1>11, <1>12, <1>13 DEF Known

LEMMA LateAppendKnown ==
  ASSUME ConstantsAssumption, AppendInv, AppendInv', Known,
         NEW entry \in late, entry[2].type = "append", LastRow(sheet) < MaxRow,
         sheet' = Appended(sheet, entry[2].cell), late' = late \ {entry},
         UNCHANGED <<content, record, run, others>>
  PROVE  Known'
<1> DEFINE cell == entry[2].cell
<1>1. TypeOK /\ TypeOK' /\ OtherRow' = OtherRow /\ cell \in Entry
  BY DEF Known, LateKnown, AppendInv, TypeInv, OtherRow
<1>2. cell \in Cell /\ cell.team \in Team
  BY <1>1 DEF Cell, Entry
<1> HIDE DEF cell
<1>3. AllSettle
  <2>1. ASSUME NEW k \in Team
        PROVE  Settles(Standing[k], Coming[k], Standing'[k], Coming'[k])
    <3>1. Coming'[k] \subseteq Coming[k]
      BY DEF Coming
    <3>2. /\ Standing'[k] \subseteq Standing[k] \union {LastRow(sheet) + 1}
          /\ cell \in Entry /\ cell.team # k => Standing'[k] \subseteq Standing[k]
      <4>1. sheet' = Appended(sheet, cell)
        BY DEF cell
      <4> QED
        BY <1>1, <1>2, <4>1, AppendedRows
    <3>3. cell.team = k => entry \in Coming[k] \ Coming'[k]
      BY DEF Coming, cell
    <3> QED
      BY <1>1, <3>1, <3>2, <3>3 DEF Settles
  <2> QED
    BY <2>1 DEF AllSettle
<1>4. SameRecord
  BY DEF SameRecord
<1>5. RunKnown' /\ (Changing' => Changing)
  BY <1>3, <1>4, AroundKnown
<1>6. Standstill
  BY <1>1, <1>3, <1>4, <1>5 DEF Standstill
<1> QED
  BY <1>5, <1>6, StandstillKnown DEF Known, RunKnown

LEMMA ApplyLateKnown ==
  ASSUME ConstantsAssumption, AppendInv, AppendInv', Told, Known, ~Unknowing', ApplyLate
  PROVE  Known'
<1>1. UNCHANGED <<content, run, over, shown, others, appends, faults, clicks>>
  BY DEF ApplyLate
<1>2. PICK entry \in late :
        /\ late' = late \ {entry}
        /\ \/ entry[2].type = "upsert" /\ Upsert(entry[2]) /\ UNCHANGED sheet
           \/ /\ entry[2].type = "append" /\ LastRow(sheet) < MaxRow
              /\ sheet' = Appended(sheet, entry[2].cell) /\ UNCHANGED record
           \/ /\ entry[2].type = "write" /\ UNCHANGED record
              /\ Note(IF sheet' = sheet THEN {} ELSE {"late write"})
           \/ entry[2].type = "bind" /\ record' = Bind(entry[2].inv) /\ UNCHANGED sheet
  BY Zenon DEF ApplyLate
<1>3. entry[2] \in Request /\ RecordOK /\ TypeInv /\ \A e \in late' : e \in late
  BY <1>2, Parts DEF AppendInv, LateOK
<1>4. ASSUME UNCHANGED sheet, SameRecord
      PROVE  Known'
  <2>1. AllSettle /\ OtherRow' = OtherRow
    BY <1>1, <1>3, <1>4, QuietSettles DEF Quiet, OtherRow
  <2>2. RunKnown' /\ (Changing' => Changing)
    BY <1>1, <1>4, <2>1, AroundKnown
  <2>3. Standstill
    BY <1>3, <1>4, <2>1, <2>2 DEF Standstill
  <2> QED
    BY <2>2, <2>3, StandstillKnown DEF Known, RunKnown
<1>5. CASE entry[2].type = "upsert" /\ Upsert(entry[2]) /\ UNCHANGED sheet
  BY <1>1, <1>2, <1>5, LateUpsertKnown
<1>6. CASE /\ entry[2].type = "append" /\ LastRow(sheet) < MaxRow
           /\ sheet' = Appended(sheet, entry[2].cell) /\ UNCHANGED record
  BY <1>1, <1>2, <1>6, LateAppendKnown
<1>7. CASE UNCHANGED record /\ Note(IF sheet' = sheet THEN {} ELSE {"late write"})
  BY <1>1, <1>4, <1>7 DEF Note, Unknowing, Had, SameRecord
<1>8. CASE entry[2].type = "bind" /\ record' = Bind(entry[2].inv) /\ UNCHANGED sheet
  <2>1. entry[2].inv \in Invocation
    BY <1>3, <1>8 DEF Request, Upserts
  <2> QED
    BY <1>1, <1>3, <1>4, <1>8, <2>1, BindTyped DEF SameRecord
<1> QED
  BY <1>2, <1>5, <1>6, <1>7, <1>8

-----------------------------------------------------------------------------
(* The rows are known from the first state on, and after every step.         *)
LEMMA InitKnown ==
  ASSUME ConstantsAssumption, Init
  PROVE  KnownInv
<1>1. /\ ToldInv /\ TypeOK
      /\ record = Missing /\ run = None /\ late = {}
  BY InitTold DEF Init, ToldInv, AppendInv, TypeInv
<1>2. OtherRow = {1} /\ \A r \in Row : r = 1 \/ sheet[r] = Blank
  <2>1. PICK top : /\ sheet = [r \in Row |-> IF r = 1 THEN top ELSE Blank]
                   /\ others = {<<1, top>>}
    BY DEF Init
  <2> QED
    BY <2>1 DEF OtherRow
<1>3. None \notin Row /\ None \notin Team /\ Column # None
  BY ConstantsAssumption DEF ConstantsAssumption, Row, Team, Column
<1>4. \A k \in Team : Standing[k] = {} /\ Coming[k] = {}
  BY <1>1, <1>2, <1>3 DEF Standing, Coming, TeamAt
<1>5. KnownRows(Standing, Coming, record)
  <2>1. \A k \in Team : record.place[k] = None
    BY <1>1 DEF Missing
  <2>2. record.status \in Live
    BY <1>1 DEF Missing, Live, Editable
  <2>3. \A k \in Team : KnownLive(Standing[k], Coming[k], record, k)
    BY <1>3, <1>4, <2>1 DEF KnownLive, Keyed, Accounted
  <2> QED
    BY <2>2, <2>3 DEF KnownRows
<1>6. RunKnown /\ LateKnown
  BY <1>1, NobodyKnown DEF LateKnown
<1> QED
  BY <1>1, <1>2, <1>5, <1>6 DEF KnownInv, Known, RunKnown

LEMMA NextKnown ==
  ASSUME ConstantsAssumption, KnownInv, [Next]_vars
  PROVE  KnownInv'
<1>1. /\ ToldInv' /\ AppendInv /\ AppendInv' /\ TypeOK /\ TypeOK'
      /\ (Unknowing => Unknowing') /\ (~Unknowing => Told)
  BY NextTells, PastGrows DEF KnownInv, ToldInv, AppendInv, TypeInv, Unknowing, Misled, Had
<1>2. CASE Unknowing'
  BY <1>1, <1>2 DEF KnownInv
<1>3. CASE Known /\ Told /\ ~Unknowing'
  <2> SUFFICES Known'
    BY <1>1 DEF KnownInv
  <2>1. CASE ProcessStep
    <3>1. CASE \E i \in Invocation : Start(i)
      BY <1>1, <1>3, <3>1, StartKnown
    <3>2. ASSUME NEW k \in Team, ProcessEntry(k) PROVE Known'
      <4>1. CASE run # None /\ run.pc \in {"entry", "reconcile", "readback"} /\ ReadFails
        BY <1>1, <1>3, <4>1, ReadFailsKnown
      <4> QED
        BY <1>1, <1>3, <3>2, <4>1, FindKnown, BeforeAppendKnown, RequestKnown DEF ProcessEntry
    <3>3. CASE PersistAppended \/ PersistApplying \/ PersistTerminal
      BY <1>1, <1>3, <3>3, PersistAppendedKnown, PersistApplyingKnown, PersistTerminalKnown
    <3>4. CASE ReadSnapshot \/ SetConfirmation \/ EnableButtons
      BY <1>1, <1>3, <3>4, ReadSnapshotKnown, ConfirmationKnown
    <3> QED
      BY <2>1, <3>1, <3>2, <3>3, <3>4 DEF ProcessStep
  <2>2. CASE DecideStep
    BY <1>1, <1>3, <2>2, DecisionKnown, PersistDecisionKnown, RestoreKnown DEF DecideStep
  <2>3. CASE Write \/ ReadBackWrite \/ End \/ Interrupt
    BY <1>1, <1>3, <2>3, WriteStepKnown, ReadBackWriteKnown, StopKnown
  <2>4. CASE ApplyLate \/ OtherAppends \/ UNCHANGED vars
    BY <1>1, <1>3, <2>4, ApplyLateKnown, OtherAppendsKnown
  <2> QED
    BY <2>1, <2>2, <2>3, <2>4 DEF Next
<1> QED
  BY <1>1, <1>2, <1>3 DEF KnownInv

(* No row of the message is orphaned: one that shows a team is the team's place
   in the record, or what a pending append may have left, or in the snapshot
   that a rejection writes back.  A team is never in two rows, and an append
   that was given up is the only one on its way for its team, so the place that
   the record keeps as pending stands for one row at most; a removed team's row
   stays in the snapshot until it is blank.  It holds until the row of another
   message was adopted, a pending place was forgotten, a stored record was
   overwritten by a late first upsert, a write that was given up changed the
   sheet, or a change began over a removed row that was not blank yet.        *)
THEOREM KnowsItsRows == Spec => []RowsAreKnown
<1>1. Init => KnownInv
  BY InitKnown, ConstantsAssumption
<1>2. KnownInv /\ [Next]_vars => KnownInv'
  BY NextKnown, ConstantsAssumption
<1>3. KnownInv => RowsAreKnown
  <2>1. KnownInv => TypeOK /\ (Unknowing \/ KnownRows(Standing, Coming, record))
    BY DEF KnownInv, Known, ToldInv, AppendInv, TypeInv
  <2> QED
    BY <2>1, KnownAreKnown, ConstantsAssumption DEF RowsAreKnown, Unknowing
<1> QED
  BY <1>1, <1>2, <1>3, PTL DEF Spec

===============================================================================
