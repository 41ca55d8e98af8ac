---------------------------- MODULE TeamSubmissions ----------------------------
(***************************************************************************)
(* One Discord message that submits teams to a sheet.  Every post or edit  *)
(* of the message is an invocation of teamSubmissions.process, which adds, *)
(* rewrites and removes the rows of the message's teams; the author then   *)
(* confirms or rejects (teamSubmissions.decide), and a rejection writes    *)
(* the rollback snapshot back.  The record in the database is written      *)
(* before and after every change of the sheet.  An entity runs one         *)
(* operation of the message at a time, with neither durable actions nor a  *)
(* timer of its own: an operation that is interrupted is run from its      *)
(* beginning.  A request to the sheet or the database that was given up    *)
(* may still be applied later.                                             *)
(***************************************************************************)
EXTENDS Integers, FiniteSets, FiniteSetsExt

CONSTANTS
  Teams,        \* number of teams; team 1 is the first line of the message
  Value,        \* what an entry can say of its team
  Invocation,   \* invocations of teamSubmissions.process
  None, Blank, Other,
  MaxRow,       \* bound: rows of the sheet, row 1 being the top of the range
  MaxFaults,    \* bound: interrupts, failed calls, lost and late answers, and
                \*   rows that other messages append meanwhile
  MaxClicks     \* bound: presses of the buttons that reach a decision

ASSUME ConstantsAssumption ==
  /\ {Teams, MaxRow} \subseteq Nat \ {0} /\ {MaxFaults, MaxClicks} \subseteq Nat
  /\ None \notin Invocation \union Value \union Nat

Team == 1..Teams
Row == 1..MaxRow
Column == 0     \* the row of a place that is pending, and of its configured range

Entry == [team: Team, value: Value, marked: BOOLEAN]
Cell == {Blank, Other} \union Entry

ASSUME CellAssumption == Blank # Other /\ {Blank, Other} \intersect Entry = {}
Place == {None, Column} \union Row
Item == [key: Team \union {None}, row: Place, cell: Cell]

Status == {"missing", "applying", "registered", "updated", "empty", "confirmed",
           "reverting", "rollbackFailed", "rejected"}
Actionable == {"registered", "updated"}
Editable == Actionable \union {"missing", "empty", "applying"}
Final == {"confirmed", "rejected"}

VARIABLES
  content,    \* what each invocation's message says of each team
  sheet,      \* the rows of the configured range
  record,     \* the MessageTeamSubmission, "missing" before the first upsert
  run,        \* the operation the entity runs, or None
  over,       \* invocations that have ended
  shown,      \* invocations whose confirmation has its buttons enabled
  late,       \* requests given up that may still be applied
  others,     \* the rows of other messages, by what they said
  \* History:
  appends,    \* append requests made for each team
  removals,   \* how often a message without a team replaced one with it
  before,     \* the sheet when the last two changes of the message began
  past,       \* kinds of things that have happened and weaken the promises
  faults, clicks

world == <<sheet, record, late>>
history == <<appends, removals, before, past>>
vars == <<content, world, run, over, shown, others, history, faults, clicks>>

Missing ==
  [status |-> "missing", version |-> 0, place |-> [k \in Team |-> None],
   entries |-> [k \in Team |-> None], snap |-> {}, conf |-> None]

Kind == {"overwritten", "forgotten", "adopted", "unblanked", "replayed", "unbound",
         "reused", "late write", "restated"}

Submission ==
  [status: Status, version: Nat, place: [Team -> Place],
   entries: [Team -> Value \union {None}], snap: SUBSET Item, conf: Invocation \union {None}]

WritePc == {"write", "readback write", "rewrite"}
EndPc == {"failed", "done"}
EntryPc == {"entry", "append", "reconcile", "readback", "interim"}
ProcessPc == EntryPc \union WritePc \union EndPc
               \union {"data", "applying", "terminal", "bind", "enable"}
DecidePc == WritePc \union EndPc
              \union {"confirm", "reject", "reverting", "restore", "check", "fail"}

ProcessRun ==
  [op: {"process"}, inv: Invocation, pc: ProcessPc, team: 1..(Teams + 1),
   old: Submission, version: Nat, place: [Team -> Place], undo: SUBSET Item,
   dups: [Team -> SUBSET Row], registered: SUBSET Team, appended: SUBSET Team,
   snap: SUBSET Item, data: SUBSET Item]
DecideRun ==
  [op: {"decide"}, inv: Invocation, pc: DecidePc, old: Submission, version: Nat,
   data: SUBSET Item]

ASSUME NoneAssumption == None \notin ProcessRun \union DecideRun

Upserts == [type: {"upsert"}, inv: Invocation, new: Submission, expected: Nat \union {None}]
Request == Upserts \union [type: {"append"}, cell: Cell]
             \union [type: {"write"}, data: SUBSET Item]
             \union [type: {"bind"}, inv: Invocation]

(* Every variable has its type; the record has a version once it is stored and
   a snapshot when it places a team, and an operation stands at a team of the
   message while it goes through them.                                        *)
TypeOK ==
  /\ content \in [Invocation -> [Team -> Value \union {None}]]
  /\ sheet \in [Row -> Cell]
  /\ record \in Submission
  /\ (record.status = "missing" <=> record.version = 0) /\ (record.version = 0 => record = Missing)
  /\ (\E k \in Team : record.place[k] # None) => record.snap # {}
  /\ run \in ProcessRun \union DecideRun \union {None}
  /\ run # None /\ run.op = "process" =>
       /\ run.inv \notin over
       /\ run.pc \in EntryPc => run.team \in Team /\ content[run.inv][run.team] # None
  /\ over \subseteq Invocation /\ shown \subseteq Invocation
  /\ late \subseteq (0..MaxFaults) \X Request
  /\ others \subseteq Row \X Cell
  /\ {appends, removals} \subseteq [Team -> Nat] /\ past \subseteq Kind
  /\ before \in (SUBSET [Row -> Cell]) \X [Row -> Cell]
  /\ faults \in 0..MaxFaults /\ clicks \in 0..MaxClicks

Init ==
  /\ content \in [Invocation -> [Team -> Value \union {None}]]
  /\ \E top \in {Other} \union [team: {1}, value: Value, marked: {FALSE}] :
       /\ sheet = [r \in Row |-> IF r = 1 THEN top ELSE Blank]
       /\ others = {<<1, top>>}
  /\ record = Missing /\ run = None
  /\ over = {} /\ shown = {} /\ late = {}
  /\ appends = [k \in Team |-> 0] /\ removals = [k \in Team |-> 0]
  /\ before = <<{}, sheet>> /\ past = {} /\ faults = 0 /\ clicks = 0

Fault == faults < MaxFaults /\ faults' = faults + 1
Note(what) == past' = past \union what

-----------------------------------------------------------------------------
(* The sheet.                                                              *)

LastRow(s) == Max({0} \union {r \in Row : s[r] # Blank})
Appended(s, cell) == [s EXCEPT ![LastRow(s) + 1] = cell]

(* A pending place names the column it was configured with; a value written
   there goes into the column's first row.                                   *)
RowOf(item) == IF item.row = Column THEN 1 ELSE item.row
Hitting(items, r) == {item \in items : RowOf(item) = r}

(* The values are written in order: what the teams say, by team, and then the
   blanks.                                                                   *)
Wins(item, hits) ==
  \/ item.cell = Blank
  \/ \A other \in hits :
       other.cell # Blank /\ (other.key = None \/ (item.key # None /\ other.key <= item.key))
Written(s, items) ==
  [r \in Row |->
     LET hits == Hitting(items, r)
     IN IF hits = {} THEN s[r] ELSE (CHOOSE item \in hits : Wins(item, hits)).cell]

(* A whole column matches one blank cell only when all of it is blank.       *)
Matches(s, items) ==
  \A item \in items :
    IF item.row = Column
    THEN \A r \in Row : s[r] = Blank
    ELSE s[item.row] = item.cell

Marked(k) == [team |-> k, value |-> content[run.inv][k], marked |-> TRUE]
Clean(k) == [team |-> k, value |-> content[run.inv][k], marked |-> FALSE]
RowsWith(cell) == {r \in Row : sheet[r] = cell}

(* The rows an entry is found in: all that carry its mark, or else the first
   that reads the same.                                                      *)
Found(k) ==
  IF RowsWith(Marked(k)) # {} THEN RowsWith(Marked(k))
  ELSE {r \in RowsWith(Clean(k)) : \A other \in RowsWith(Clean(k)) : r <= other}

-----------------------------------------------------------------------------
(* The record.                                                             *)

(* upsertMessageTeamSubmission: the version is compared only when one is
   expected, and the new one follows the stored one.                         *)
\* Mutant: the version is not compared.
AcceptsAny(req) == TRUE
Accepts(req) == req.expected = None \/ req.expected = record.version
\* Mutant: the version is the one of the request.
UpsertedAsGiven(req) == req.new
Upserted(req) == [req.new EXCEPT !.version = record.version + 1]
Forgets(req) == {k \in Team : record.place[k] # None /\ req.new.place[k] = None
                                /\ content[req.inv][k] = None}

(* A change begins when the record becomes "applying"; until its own snapshot
   is recorded it keeps the one before, and one that takes over an unfinished
   change keeps that one's, so a rejection may go back further than the change. *)
Fresh == late' = late /\ run # None /\ run.op = "process" /\ run.old.status # "applying"
Began(req) ==
  IF req.new.status # "applying" THEN IF Fresh THEN <<{}, before[2]>> ELSE before
  ELSE IF record.status = "applying" THEN before
  ELSE <<before[1] \union {before[2]}, sheet>>

RowsIn(items) == {item.row : item \in items}
Restates(req) ==
  /\ record.status = "applying" /\ ~Fresh
  /\ \E item \in record.snap :
       /\ item.row \in Row
       /\ \/ item.row \notin RowsIn(req.new.snap)
          \/ \E other \in req.new.snap : other.row = item.row /\ other.cell # item.cell

Upsert(req) ==
  /\ Accepts(req)
  /\ record' = Upserted(req)
  /\ removals' = [k \in Team |-> removals[k] + IF k \in Forgets(req) THEN 1 ELSE 0]
  /\ before' = Began(req)
  /\ Note((IF req.expected = None /\ record # Missing THEN {"overwritten"} ELSE {})
            \union (IF \E k \in Forgets(req) : record.place[k] = Column
                    THEN {"forgotten"} ELSE {})
            \union (IF req.new.status \in Actionable /\ late' # late
                    THEN {"unbound"} ELSE {})
            \union (IF Restates(req) THEN {"restated"} ELSE {}))

Failed == [run EXCEPT !.pc = "failed"]
Done == [run EXCEPT !.pc = "done"]
GiveUp(req) == late' = late \union {<<faults, req>>}

(* An upsert is answered, refused, or fails: then it may have been applied,
   and may still be.  `next` is where the operation goes on.                 *)
Persist(new, next) ==
  LET req == [type |-> "upsert", inv |-> run.inv, new |-> new,
              expected |-> IF run.version = 0 THEN None ELSE run.version]
  IN /\ \/ /\ UNCHANGED <<late, faults>> /\ Upsert(req)
           /\ run' = [next EXCEPT !.version = @ + 1]
        \/ /\ ~Accepts(req) /\ run' = Failed
           /\ UNCHANGED <<record, removals, before, past, late, faults>>
        \/ /\ Fault /\ UNCHANGED late /\ Upsert(req) /\ run' = Failed
        \/ /\ Fault /\ GiveUp(req) /\ run' = Failed /\ UNCHANGED <<record, removals, before, past>>
     /\ UNCHANGED <<content, sheet, over, shown, others, appends, clicks>>

(* A read that fails ends the operation.                                     *)
ReadFails ==
  /\ Fault /\ run' = Failed
  /\ UNCHANGED <<content, world, over, shown, others, history, clicks>>

To(pc) == [run EXCEPT !.pc = pc]
Continue(next) ==
  /\ run' = next
  /\ UNCHANGED <<content, world, over, shown, others, history, faults, clicks>>

(* The operation goes on with the rows an entry was found in.                *)
OtherRow == {other[1] : other \in others}
Adopt(rows, next) ==
  /\ run' = next
  /\ Note(IF rows \intersect OtherRow # {} THEN {"adopted"} ELSE {})
  /\ UNCHANGED <<content, world, over, shown, others, appends, removals, before, faults, clicks>>

-----------------------------------------------------------------------------
(* Process: the entries, one after the other.                              *)

(* The next team the message has, after the first k - 1.                     *)
NextTeam(inv, k) == Min({Teams + 1} \union {j \in k..Teams : content[inv][j] # None})
AtTeam(inv, k) == IF NextTeam(inv, k) > Teams THEN "data" ELSE "entry"
Onward(next) ==
  [next EXCEPT !.team = NextTeam(run.inv, run.team + 1), !.pc = AtTeam(run.inv, run.team + 1)]

(* A row whose team the record has removed, and that is not blank yet.       *)
TeamAt(r) == IF r \in OtherRow \/ sheet[r] \in {Blank, Other} THEN None ELSE sheet[r].team
Unblanked(r) == TeamAt(r) # None /\ record.place[TeamAt(r)] = None

(* A record that is no longer editable, or anything refused before the first
   entry, ends the invocation.                                               *)
Start(i) ==
  /\ run = None /\ i \notin over
  /\ \/ /\ record.status \in Editable
        /\ run' = [op |-> "process", inv |-> i, pc |-> AtTeam(i, 1), team |-> NextTeam(i, 1),
                   old |-> record, version |-> record.version, place |-> record.place,
                   undo |-> record.snap, dups |-> [k \in Team |-> {}],
                   registered |-> {}, appended |-> {}, snap |-> {}, data |-> {}]
        /\ Note((IF record.status = "applying" /\ \E r \in Row : Unblanked(r)
                 THEN {"unblanked"} ELSE {})
                  \union (IF record.status \in Actionable \union {"empty"} /\ record.entries = content[i]
                          THEN {"replayed"} ELSE {}))
        /\ UNCHANGED over
     \/ /\ over' = over \union {i} /\ UNCHANGED <<run, past>>
  /\ UNCHANGED <<content, world, shown, others, appends, removals, before, faults, clicks>>

Without(snap, k) == {item \in snap : item.key # k}
BlankRow(key, row) == [key |-> key, row |-> row, cell |-> Blank]
BlankRows(key, rows) == {BlankRow(key, row) : row \in rows}

(* registered.push and interimMappings.set: the first of the rows is the
   team's, the others repeat it.                                             *)
Register(k, rows) ==
  [run EXCEPT !.registered = @ \union {k},
              !.place[k] = Min(rows), !.dups[k] = rows \ {Min(rows)}]

(* An appended row is recorded before the next entry is looked at.           *)
RegisterAppended(k, rows) ==
  [Register(k, rows) EXCEPT
     !.appended = @ \union {k}, !.pc = "interim",
     !.undo = Without(@, k) \union BlankRows(k, rows)]

Says(teams) == [k \in Team |-> IF k \in teams THEN content[run.inv][k] ELSE None]
Record(status, teams, place, snap) ==
  [status |-> status, version |-> 0, place |-> place, entries |-> Says(teams),
   snap |-> snap, conf |-> run.old.conf]

AtEntry(k) == run # None /\ run.pc = "entry" /\ k = run.team

(* resolveExistingMapping: the mapped row, unless the entry is found elsewhere
   and not there.                                                            *)
ResolveMapped(k) ==
  /\ AtEntry(k) /\ run.old.place[k] \in Row
  /\ LET row == run.old.place[k]
     IN IF sheet[row] \in {Marked(k), Clean(k)} \/ Found(k) = {}
        THEN Continue(Onward(Register(k, {row})))
        ELSE Adopt(Found(k), RegisterAppended(k, Found(k)))

\* Mutant: an append that left no row is made again.
ReconcileOrAppend(k) ==
  /\ \/ AtEntry(k) /\ run.old.place[k] = Column
     \/ run # None /\ run.pc = "reconcile" /\ k = run.team
  /\ Adopt(Found(k), IF Found(k) = {} THEN To("append") ELSE RegisterAppended(k, Found(k)))

(* A pending append is never repeated: its row is found or the operation
   fails.  The row of an append that answered without a range is looked for
   in the same way.                                                          *)
Reconcile(k) ==
  /\ \/ AtEntry(k) /\ run.old.place[k] = Column
     \/ run # None /\ run.pc = "reconcile" /\ k = run.team
  /\ Adopt(Found(k), IF Found(k) = {} THEN Failed ELSE RegisterAppended(k, Found(k)))

\* Mutant: the row is appended first and recorded afterwards.
AppendUnrecorded(k) == AtEntry(k) /\ run.old.place[k] = None /\ Continue(To("append"))

(* beforeAppend: the record says that the append is pending.                 *)
BeforeAppend(k) ==
  /\ AtEntry(k) /\ run.old.place[k] = None
  /\ Persist(Record("applying", run.registered \union {k}, [run.place EXCEPT ![k] = Column],
                    Without(run.undo, k) \union {BlankRow(k, None)}),
             To("append"))

RequestAppend(k) ==
  /\ run # None /\ run.pc = "append" /\ k = run.team
  /\ LastRow(sheet) < MaxRow
  /\ appends' = [appends EXCEPT ![k] = @ + 1]
  /\ \/ /\ sheet' = Appended(sheet, Marked(k))
        /\ \/ run' = RegisterAppended(k, {LastRow(sheet) + 1}) /\ UNCHANGED faults
           \/ Fault /\ (run' = To("reconcile") \/ run' = To("readback"))
        /\ UNCHANGED late
     \/ /\ Fault /\ GiveUp([type |-> "append", cell |-> Marked(k)])
        /\ run' = To("readback") /\ UNCHANGED sheet
     \/ /\ Fault /\ run' = Failed /\ UNCHANGED <<sheet, late>>
  /\ UNCHANGED <<content, record, over, shown, others, removals, before, past, clicks>>

\* Mutant: the last row is taken for the one appended.
ReadBackLast(k) ==
  /\ run # None /\ run.pc = "readback" /\ k = run.team
  /\ Continue(RegisterAppended(k, {LastRow(sheet)}))

(* After a failure that may have reached the sheet, exactly one row must carry
   the mark.                                                                 *)
ReadBackAppend(k) ==
  /\ run # None /\ run.pc = "readback" /\ k = run.team
  /\ IF \E r \in Row : RowsWith(Marked(k)) = {r}
     THEN Adopt(RowsWith(Marked(k)), RegisterAppended(k, RowsWith(Marked(k))))
     ELSE Continue(Failed)

PersistAppended ==
  /\ run # None /\ run.pc = "interim"
  /\ Persist(Record("applying", run.registered, run.place, run.undo), Onward(run))

ProcessEntry(k) ==
  \/ ResolveMapped(k) \/ Reconcile(k) \/ BeforeAppend(k)
  \/ RequestAppend(k) \/ ReadBackAppend(k)
  \/ (run # None /\ run.pc \in {"entry", "reconcile", "readback"} /\ ReadFails)

-----------------------------------------------------------------------------
(* Process: the sheet write.                                               *)

Places(teams) == [k \in Team |-> IF k \in teams THEN run.place[k] ELSE None]

(* updateForMapping, blankForTarget and blankRemovedRows *)
Removed == {k \in Team : run.old.place[k] # None} \ run.registered
Updates ==
  {[key |-> k, row |-> run.place[k], cell |-> Clean(k)] : k \in run.registered}
    \union (UNION {BlankRows(k, run.dups[k]) : k \in run.registered})
    \union {BlankRow(None, run.old.place[k]) : k \in Removed}
\* The code reads and restores the whole range of a pending place; only its first row
\* is kept here.  It is read when a team is removed whose append is pending, which is
\* noted as "forgotten".
AsRead(items) == {[item EXCEPT !.cell = sheet[RowOf(item)]] : item \in items}

\* Mutant: an operation that completes an unfinished one forgets what that
\* one would have undone.
SnapshotAfresh == AsRead(Updates)

(* What the rows said before the write, and blanks for the rows appended; an
   operation that finds an unfinished record keeps that record's snapshot.   *)
Snapshot ==
  IF run.old.status = "applying" THEN run.undo
  ELSE AsRead({item \in Updates : item.key \notin run.appended})
         \union UNION {BlankRows(k, {run.place[k]} \union run.dups[k]) : k \in run.appended}

ReadSnapshot ==
  /\ run # None /\ run.pc = "data"
  /\ \/ Continue([run EXCEPT !.data = Updates, !.snap = Snapshot,
                             !.pc = IF Updates = {} THEN "terminal" ELSE "applying"])
     \/ ReadFails

PersistApplying ==
  /\ run # None /\ run.pc = "applying"
  /\ Persist(Record("applying", run.registered, Places(run.registered), run.snap), To("write"))

(* The write, of a process or of a rollback: it is repeated once if it may not
   have been made and the sheet does not show it.                            *)
AfterWrite == IF run.op = "process" THEN "terminal" ELSE "reject"
WriteFailed == To(IF run.op = "process" THEN "failed" ELSE "check")

Write ==
  /\ run # None /\ run.pc \in {"write", "rewrite"}
  /\ LET unclear == IF run.pc = "write" THEN To("readback write") ELSE WriteFailed
     IN \/ /\ sheet' = Written(sheet, run.data) /\ UNCHANGED late
           /\ \/ run' = To(AfterWrite) /\ UNCHANGED faults
              \/ Fault /\ run' = unclear
        \/ /\ Fault /\ GiveUp([type |-> "write", data |-> run.data])
           /\ run' = unclear /\ UNCHANGED sheet
        \/ /\ Fault /\ run' = WriteFailed /\ UNCHANGED <<sheet, late>>
  /\ UNCHANGED <<content, record, over, shown, others, history, clicks>>

ReadBackWrite ==
  /\ run # None /\ run.pc = "readback write"
  /\ \/ Continue(To(IF Matches(sheet, run.data) THEN AfterWrite ELSE "rewrite"))
     \/ /\ Fault /\ run' = To("rewrite")
        /\ UNCHANGED <<content, world, over, shown, others, history, clicks>>

PersistTerminal ==
  /\ run # None /\ run.op = "process" /\ run.pc = "terminal"
  /\ Persist(Record(IF run.registered = {} THEN "empty"
                    ELSE IF run.old = Missing THEN "registered" ELSE "updated",
                    run.registered, Places(run.registered), run.snap),
             To("bind"))

(* The confirmation is delivered with its buttons disabled, recorded, and then
   delivered with its buttons enabled.                                       *)
Bind(i) == IF record = Missing THEN record ELSE [record EXCEPT !.conf = i]

SetConfirmation ==
  /\ run # None /\ run.pc = "bind"
  /\ LET req == [type |-> "bind", inv |-> run.inv]
     IN \/ record' = Bind(run.inv) /\ run' = To("enable") /\ UNCHANGED <<late, faults>>
        \/ Fault /\ record' = Bind(run.inv) /\ run' = Failed /\ UNCHANGED late
        \/ Fault /\ GiveUp(req) /\ run' = Failed /\ UNCHANGED record
        \/ Fault /\ run' = Failed /\ UNCHANGED <<record, late>>
  /\ UNCHANGED <<content, sheet, over, shown, others, history, clicks>>

EnableButtons ==
  /\ run # None /\ run.pc = "enable"
  /\ \/ run' = Done /\ shown' = shown \union {run.inv} /\ UNCHANGED faults
     \/ Fault /\ run' = Failed /\ (UNCHANGED shown \/ shown' = shown \union {run.inv})
  /\ UNCHANGED <<content, world, over, others, history, clicks>>

-----------------------------------------------------------------------------
(* Decide: a press of a button of the confirmation that the record names.   *)

Resumable == {"applying", "reverting", "rollbackFailed"}
Allowed == record.status \in Actionable \union Resumable
             \/ (record.status = "empty" /\ record.snap # {})
Unplaced == record.status = "empty" \/ \A k \in Team : record.place[k] = None

\* Mutant: the button of any confirmation of the message decides.
DecideAny(i, pc) ==
  /\ run = None /\ i \in shown
  /\ clicks < MaxClicks /\ clicks' = clicks + 1
  /\ run' = [op |-> "decide", inv |-> i, pc |-> pc, old |-> record,
             version |-> record.version, data |-> {}]
  /\ UNCHANGED <<content, world, over, shown, others, history, faults>>

Decide(i, pc) ==
  /\ run = None /\ i \in shown /\ record.conf = i
  /\ clicks < MaxClicks /\ clicks' = clicks + 1
  /\ run' = [op |-> "decide", inv |-> i, pc |-> pc, old |-> record,
             version |-> record.version, data |-> {}]
  /\ UNCHANGED <<content, world, over, shown, others, history, faults>>

Confirm(i) == record.status \in Actionable /\ Decide(i, "confirm")

(* Placed teams without a snapshot, which the code answers with a failed
   rollback, do not arise (TypeOK): whatever places a team records a snapshot. *)
Reject(i) ==
  \/ Unplaced /\ record.snap = {} /\ (record.status = "empty" \/ Allowed)
     /\ Decide(i, "reject")
  \/ record.snap # {} /\ Allowed
     /\ Decide(i, IF record.status = "reverting" THEN "restore" ELSE "reverting")

PersistStatus(status, next) == Persist([run.old EXCEPT !.status = status], next)

PersistDecision ==
  /\ run # None /\ run.op = "decide"
  /\ \/ run.pc = "confirm" /\ PersistStatus("confirmed", Done)
     \/ run.pc = "reject" /\ PersistStatus("rejected", Done)
     \/ run.pc = "fail" /\ PersistStatus("rollbackFailed", Done)
     \/ run.pc = "reverting" /\ PersistStatus("reverting", To("restore"))

(* The rows of pending appends are not known and are left out; without any
   other row the rollback has failed.                                        *)
Restore ==
  /\ run # None /\ run.pc = "restore"
  /\ LET rows == {item \in run.old.snap : item.row # None}
     IN Continue([run EXCEPT !.data = rows, !.pc = IF rows = {} THEN "fail" ELSE "write"])

CheckRestored ==
  /\ run # None /\ run.pc = "check"
  /\ \/ Continue(To(IF Matches(sheet, run.data) THEN "reject" ELSE "fail"))
     \/ /\ Fault /\ run' = To("fail")
        /\ UNCHANGED <<content, world, over, shown, others, history, clicks>>

-----------------------------------------------------------------------------
(* What happens around the operations.                                     *)

(* The entries were recorded, and the record does not name the confirmation
   that lists them.                                                          *)
Unbound == IF run.op = "process" /\ record.status \in Actionable /\ record.conf # run.inv
             THEN {"unbound"} ELSE {}

(* An operation ends; an invocation of process that failed is over, unless it
   was interrupted and will be run again.                                    *)
End ==
  /\ run # None /\ run.pc \in {"failed", "done"}
  /\ run' = None
  /\ over' = IF run.op = "process" THEN over \union {run.inv} ELSE over
  /\ Note(Unbound)
  /\ UNCHANGED <<content, world, shown, others, appends, removals, before, faults, clicks>>

(* The entity's call takes too long or its runner dies, or its answer does not
   arrive: the workflow runs it again.                                       *)
Interrupt ==
  /\ run # None /\ Fault
  /\ run' = None
  /\ clicks' = clicks - IF run.op = "decide" THEN 1 ELSE 0
  /\ Note(Unbound)
  /\ UNCHANGED <<content, world, over, shown, others, appends, removals, before>>

(* A request that was given up is applied after all.                         *)
ApplyLate ==
  /\ \E entry \in late :
       LET req == entry[2]
       IN /\ late' = late \ {entry}
          /\ \/ /\ req.type = "upsert" /\ Upsert(req) /\ UNCHANGED sheet
             \/ /\ req.type = "append" /\ LastRow(sheet) < MaxRow
                /\ sheet' = Appended(sheet, req.cell)
                /\ UNCHANGED <<record, removals, before, past>>
             \/ /\ req.type = "write" /\ sheet' = Written(sheet, req.data)
                /\ Note(IF sheet' = sheet THEN {} ELSE {"late write"})
                /\ UNCHANGED <<record, removals, before>>
             \/ /\ req.type = "bind" /\ record' = Bind(req.inv)
                /\ Note(IF record.conf \notin {None, req.inv} THEN {"unbound"} ELSE {})
                /\ UNCHANGED <<sheet, removals, before>>
  /\ UNCHANGED <<content, run, over, shown, others, appends, faults, clicks>>

(* The rows this message names: in its record, in the operation that runs, and
   in the requests given up.                                                 *)
RowsOf(rec) == RowsIn(rec.snap) \union {rec.place[k] : k \in Team}
RowsHeld ==
  RowsOf(run.old) \union RowsIn(run.data)
    \union (IF run.op = "process"
            THEN RowsIn(run.undo) \union RowsIn(run.snap) \union {run.place[k] : k \in Team}
                   \union (UNION {run.dups[k] : k \in Team})
            ELSE {})
RowsAsked(req) ==
  CASE req.type = "upsert" -> RowsOf(req.new) [] req.type = "write" -> RowsIn(req.data) [] OTHER -> {}
Mentioned ==
  RowsOf(record) \union (IF run = None THEN {} ELSE RowsHeld)
    \union (UNION {RowsAsked(entry[2]) : entry \in late})

(* Another message's team is appended.                                       *)
OtherAppends ==
  /\ Fault /\ LastRow(sheet) < MaxRow
  /\ sheet' = Appended(sheet, Other)
  /\ others' = others \union {<<LastRow(sheet) + 1, Other>>}
  /\ Note(IF LastRow(sheet) + 1 \in Mentioned THEN {"reused"} ELSE {})
  /\ UNCHANGED <<content, record, run, over, shown, late, appends, removals, before, clicks>>

ProcessStep ==
  \/ \E i \in Invocation : Start(i)
  \/ \E k \in Team : ProcessEntry(k)
  \/ PersistAppended \/ ReadSnapshot \/ PersistApplying \/ PersistTerminal
  \/ SetConfirmation \/ EnableButtons

DecideStep ==
  \/ \E i \in Invocation : Confirm(i) \/ Reject(i)
  \/ PersistDecision \/ Restore \/ CheckRestored

Next == ProcessStep \/ DecideStep \/ Write \/ ReadBackWrite
          \/ End \/ Interrupt \/ ApplyLate \/ OtherAppends

Spec == Init /\ [][Next]_vars

-----------------------------------------------------------------------------
(* What the promises do not survive, as the code is.  Each kind is noted where
   it happens:
     "overwritten"  a first upsert, which expects no version, came late and
                    replaced a record;
     "forgotten"    an edit removed a team whose append was pending, and its
                    place stands for a row of the whole column;
     "adopted"      a team was found in a row of another message that reads
                    the same;
     "unblanked"    an operation found an unfinished record that had already
                    dropped a team whose row was still there;
     "replayed"     an invocation began although the record concludes it;
     "restated"     an operation that completes an unfinished change recorded
                    something else about a row than that change's snapshot: it
                    appended to a row blanked meanwhile, or dropped the row
                    that a team had before it was removed and added again;
     "unbound"      a record was concluded and names the confirmation of an
                    earlier message, or names it again;
     "reused"       another message's row took the place of one this message
                    still names;
     "late write"   a sheet write that was given up changed the sheet.        *)
Had(kinds) == past \intersect kinds # {}

(* A team's row is appended at most once for every time the team enters the
   message, through any number of interrupts, lost answers and repeated
   invocations: the record says "pending" before the request, and a pending
   append is looked for and never repeated.                                  *)
AppendedOnce == Had({"overwritten"}) \/ \A k \in Team : appends[k] <= 1 + removals[k]

(* No row of the message is orphaned: one that shows a team is the team's
   place, or what a pending append may have left, or in the snapshot that a
   rejection writes back.                                                    *)
RowsAreKnown ==
  Had({"adopted", "forgotten", "overwritten", "late write", "unblanked"}) \/
  \A r \in Row : TeamAt(r) # None =>
    \/ record.place[TeamAt(r)] \in {r, Column}
    \/ r \in RowsIn(record.snap)

(* A record that can be decided, or is confirmed, tells the truth: every team
   it places is in its row, with the recorded entry and without the mark of an
   append.                                                                   *)
ShownAsRecorded ==
  record.status \in Actionable \union {"confirmed"} =>
    \/ Had({"forgotten", "late write"})
    \/ \A k \in Team : record.place[k] # None =>
         /\ record.place[k] # Column
         /\ sheet[record.place[k]] = [team |-> k, value |-> record.entries[k], marked |-> FALSE]

(* Rows of other messages stay what they are, whatever is written, blanked and
   rolled back for this one.                                                 *)
OthersKept ==
  Had({"adopted", "forgotten", "reused"}) \/ \A o \in others : sheet[o[1]] = o[2]

(* "Team submission rejected and rolled back": when a rejection is recorded,
   every row says what it said when the rejected change began, or, as the
   snapshot of the change before is kept until the new one's is recorded, when
   that one began; a snapshot kept through changes that took over unfinished
   ones may be older still.  A row of an append that is still pending may
   remain.                                                                   *)
RejectedIsUndone ==
  [][record.status # "rejected" /\ record'.status = "rejected" =>
       \/ Had({"adopted", "forgotten", "overwritten", "late write", "replayed", "restated", "unblanked"})
       \/ \A r \in Row \ OtherRow :
            \/ \E s \in before[1] \union {before[2]} : sheet[r] = s[r]
            \/ TeamAt(r) # None /\ record.place[TeamAt(r)] = Column]_vars

(* The author confirms what the author was shown: the entries recorded are the
   ones that the confirmation whose button was pressed lists.                *)
Applied == {entry[2].inv : entry \in late \ late'}
Pressed == IF late' = late THEN {run.inv} ELSE Applied
ConfirmedAsShown ==
  [][record.status # "confirmed" /\ record'.status = "confirmed" =>
       Had({"unbound"}) \/ \A i \in Pressed : record.entries = content[i]]_vars
================================================================================
