# TLA+ project for tiara-stack

tiara-stack is a monorepo of TypeScript services written with Effect: a Discord
bot (`sheet-bot`), durable workflows (`sheet-workflows` on
`effect-zero-workflow`), spreadsheet services (`sheet-apis`), a replicated
application database (`sheet-zero-api`, `sheet-zero-server`,
`sheet-db-server`), an ingress, an authentication service, a dashboard and
tools. This directory holds TLA+ modules for the parts whose correctness
depends on the order in which several actors act, TLC configurations that check
them, and proofs that TLAPS checks. All source paths below are relative to the
repository; `packages/` stands for `src/packages/`.

## 1. The system

### 1.1 Parts that are modelled

| Part | Code | Modules | State |
| --- | --- | --- | --- |
| Durable command queue, dispatcher, runtime | `packages/effect-zero-workflow/src/{store,dispatcher,runtime}.ts`, `packages/sheet-workflows/src/tasks/workflowCommands.ts` | `WorkflowDispatch`, `WorkflowRunContract` | `workflow_run.status`, the rows of `workflow_command` with their lease, the fibers of each dispatcher, the executions of the workflow engine |
| Reconciliation cursor | `runtime.ts` `reconcileWorkflowRuns`, `store.ts` `listRuns` | `ReconcileCursor` | the order of the running runs, the in-memory cursor, the page being polled |
| Delivery Keys | `packages/sheet-bot/src/services/botCapabilityStore.ts`, `reconcileDelivery.ts` | `BotDelivery` | the record of a Delivery Key, its marker in the unresolved index, requests and Recovery Commands in flight |
| Rollout Gate | `packages/sheet-workflows/src/services/rolloutGate.ts`, `rolloutGateDecision.ts`, `packages/sheet-bot/src/commands/status.ts` | `RolloutGate` | controls with revisions, their audit, recorded evaluations, transactions in flight, the path each caller took |
| Room orders | `packages/sheet-zero-api/src/{claimHelpers.ts,api/messageRoomOrder.ts}`, `packages/sheet-workflows/src/workflows/roomOrders/` | `RoomOrderClaims` | the row with its three claims, the stage of each workflow, the posted, pinned and shown messages |
| Check-in responses | `packages/sheet-zero-api/src/api/messageCheckin.ts`, `packages/sheet-workflows/src/workflows/checkins/`, `entities/checkinProjection.ts` | `CheckinProjection` | the members' claims, the stage of each workflow and of its projection, the entity, the members the message shows |
| Team submissions | `packages/sheet-workflows/src/workflows/teamSubmissions/`, `entities/teamSubmissions.ts`, `packages/sheet-zero-api/src/api/messageTeamSubmission.ts` | `TeamSubmissions` | the sheet's rows, the versioned record with its rollback snapshot, the operation the entity runs, requests given up |

**Durable workflows.** A client's accepted request becomes a row of
`workflow_run` and a *start* command in one transaction (`enqueue`). A
dispatcher process claims a batch of claimable commands under a lease of thirty
seconds with a new token, executes each in a fiber, and settles it as
delivered, pending (a retry) or failed under the condition that the lease is
still its own. Executing a command calls the workflow engine and then writes the
run's status (`markRun`), which is *not* under the lease. Every two seconds a
reconciler lists the running runs by pages, polls their executions and marks the
ended ones. Calls: dispatcher → store → PostgreSQL, dispatcher → executor →
engine, reconciler → store and engine. Hard: two processes with one command,
crashes between any two transactions, leases that run out under a running
attempt, a cancel and a start in one batch, a settlement that is lost, a cursor
over an order that changes under it. Correct when: at most one attempt settles a
command, a settled command stays settled, outcomes of runs are final and have a
cause, the two updates of a failure are never seen apart, everything enqueued is
settled, ended executions end their runs.

**Delivery Keys.** A write to Discord must happen at most once per Delivery Key
(CONTEXT.md). `executeDelivery` reserves the key, calls Discord and completes
the reservation; an outcome that is not known leaves it *ambiguous* for an
operator, whose Recovery Command (`reconcileDelivery`) confirms it, releases it
for one retry or leaves it unresolved. A second storage entry per key, the
marker, indexes unresolved reservations for an alert; a background fiber scans
it and backfills it for reservations of older releases. Calls: HTTP handler →
`executeDelivery` → storage (memory or Redis) and Discord; CLI →
`reconcileDelivery` → the same storage. Hard: each storage call is atomic and
nothing between two of them is; answers get lost; an operator decides on what he
saw some time ago. Correct when: no write is made twice without a release of
its own, replays return the same receipt, receipts are final, every unresolved
reservation is in the index and no resolved one stays there.

**Rollout Gate.** Operators change a control by compare-and-set on its revision,
with an audit row in the same transaction; an invocation's evaluation selects a
path from the most specific control and records it under the invocation's id;
the bot asks with a timeout of five seconds and takes the legacy path when it
gets no answer. Both operations are READ COMMITTED transactions of several
statements. Correct when: no accepted change is lost or unaudited, evaluations of
one invocation agree, the replacement path always rests on a durable record.

**Room orders.** A room order is one message with several pages. Three durable
workflows act on it: `send` posts it in the channel and pins the post,
`pinTentative` pins a tentative order in place, `navigate` turns its page. Each
first takes a claim of its own kind in the row, does its work in Discord and
commits or releases. A claim older than ten minutes is stale and may be taken
over. A workflow is a sequence of durable actions: each reads the row and acts
later on what it read; a finished action is memoised, an interrupted one is run
again from its start. Calls: workflow → Zero mutators (one transaction each) and
bot capabilities. Correct when: the three claims exclude each other, an order is
posted once, the page shown is the page recorded, success is reported only of
what is pinned and recorded, and an invocation that has ended keeps nobody out.

**Check-in responses.** A press of the button commits the member's check-in under
the invocation's claim, then responds, gives a role, announces a first check-in
and projects the list of checked-in members onto the message. Projections of one
message go through a cluster entity with concurrency one: it loads the view,
then edits. Correct when: a first check-in is announced once, by the invocation
that made it; an older view never replaces a newer one; a success is visible.

**Team submissions.** Each post or edit of a message appends, rewrites and blanks
rows of a Google Sheet, which has no transactions; the record in the database is
written before and after each step (`pending`, `applying`, then the terminal
status), and keeps what a rejection must write back. An entity runs one operation
of a message at a time but has no durable actions: an interrupted operation
begins again. Correct when: a team is appended once, no row is orphaned, the
record says what the sheet shows, rows of other messages are left alone, a
rejection undoes the change, and what is confirmed is what was shown.

### 1.2 Parts that are not modelled

PROJECT.json lists every part with its reason. The ones nearest to the core:

* *Workflow enqueue* (`zero/transaction.ts` 188-560, `store.ts` 226-418,
  `packages/sheet-workflows/src/handlers/workflowHttp.ts` 53-105). Acceptance of
  an idempotency key is one transaction decided by unique keys; `Enqueue` in
  `WorkflowDispatch` is the insertion of a run that is not there yet. Read but not
  modelled: the HTTP path reports a permanent conflict of inputs as the retryable
  `WorkflowTransportUnavailable`; enqueueing a command reads the run's status
  without a lock; an invocation that reaches both transports always conflicts,
  because the store's path leaves the contract's identity and hash NULL.
* *The dispatch button, automatic check-in, opening a check-in, kick-out.* They
  reuse the pattern of the three modelled families (durable actions over Delivery
  Keys) and add routing.
* *The metric scan's paging* over many unresolved markers: `BotDelivery` has one
  key, and a scan of one.
* *Scoped cache* (`typhoon-core/src/utils/scopedCache`): lookups shared in memory
  by readers of one key.

Left out for good are parts without state of their own or whose state belongs to
a library (contract clients and transports, Zero publication, database server,
ingress, authentication, Zero wrappers), user interface and presentation (bot
commands, dashboard, Apps Script, message content), pure conversion and
developer tools (SQL schema tools, review tools), and deployment. These are most
of the repository's lines: its concurrency is in the seven parts above.

## 2. Plan

Written, in this order: `WorkflowRunContract` → `WorkflowDispatch` (implements
it) → `WorkflowDispatchProofs`; `DeliveryContract` → `BotDelivery` (implements it)
→ `BotDeliveryProofs`; `RolloutGate` → `RolloutGateProofs`; `ReconcileCursor` →
`ReconcileCursorProofs`; `RoomOrderClaims` → `RoomOrderClaimsProofs`;
`CheckinProjection` → `CheckinProjectionProofs`; `TeamSubmissions` →
`TeamSubmissionsProofs` → `TeamRowsProofs`. `MC*` modules hold TLC's instances.

What would add most next:

1. In `TeamRowsProofs`, `RejectedIsUndone`: on top of knowing every row it needs
   that the snapshot tells what each row said before the change.
2. `DispatchButton` over `DeliveryContract`, so that the room order and check-in
   workflows can be composed with a delivery that may be repeated.
3. `WorkflowEnqueue`, with the two transports and their conflicts.
4. `ScopedCache`: sharing and closing of a lookup while its last reader leaves.
5. `DeliveryScan`: overflow and cursor of the metric scan over many markers.

## 3. Modules and their code

`map` in PROJECT.json gives the lines of every definition. The correspondence in
outline:

**`WorkflowDispatch`.** One action per database transaction or engine call, so
that everything may happen between two of them. `Claim` is `claim`'s UPDATE with
the SKIP LOCKED subquery (`Claimable`, `OldestBatch`, `LeasedRow`); the processes
are values of `Worker`, the fiber of a command is `job[w][c]` with the step it is
at (`execute`, `mark`, `deliver`, or `broken` after a failure). `Execute`,
`ExecuteFails` and `Mark`, `MarkFails` are `executeWorkflowCommand` for the four
kinds; a failure may come before or after the effect. `Deliver`, `Retry` and
`FailCommand` are the three settlements, `SettlementLost` the logged failure of
one. `Poll` and `MarkPolled` are the reconciler's two steps for a run, so an
outcome can be written late. `Stop` and `Restart` end and start a process.
`lease_until`, `available_at` and `created_at` are kept as what the code compares:
a live lease or not, due or not, and a rank. The engine is external: executions
begin at most once per execution id, wait, and end with success, failure or a
result that cannot be decoded.

**`WorkflowRunContract`.** What a caller can rely on: a run is accepted, ends at
most once, and is reported as succeeded only when its execution succeeded.
`Contract` in `WorkflowDispatch` is the refinement mapping.

**`ReconcileCursor`.** The running runs in the order of `(updated_at, run_id)`,
which is what `listRuns` pages over. The cursor is a place in that order.
`markRun` stamps with the database's clock in microseconds, the cursor keeps a
JavaScript `Date` in milliseconds, so a cursor set to a run stands *before* it
(`PlacesOf`): `joined` says which runs share the millisecond of the run before
them, `whole` which stamps have no fraction. Among runs whose stamps are one Date to
the cursor the `run_id` decides, so a page can also set the cursor *back*: after
`(ms, "z")` comes `(ms, "a")`. A stamp and its visibility are one step (`Stamp`; §7
says what that leaves out). It is a module of its own because
`WorkflowDispatch` says nothing of pages: there, the reconciler polls any running
run.

**`BotDelivery`.** One Delivery Key. A request is at one storage call at a time
(`pc`): `Reserve` (set if absent), `Read`, `Claim` (the compare-and-set on a
retryable record), `Mark`, `Release`, `Effect` (Discord), `Complete`, `Recheck`,
`Clear`, `Remove`, `ClearRemoved`, `Blur` (ambiguous). `StorageFails` is an error
of any of them with or without its effect; `Interrupt` cancels a fiber; `Crash` ends
the process. An operator inspects, then reads, marks, writes and clears. Records
are compared whole, as the code compares their encodings. `applied` and
`granted` are history: the reservations whose write Discord made, and the
commands that released one. `staleGrant` records that a command released another
reservation than its operator had looked at.

**`DeliveryContract`.** What requests with one Delivery Key are promised: one
write, one receipt, given to everybody who is answered; each further write needs
a release by an operator, and one that was wrong about what it released.
`Contract` in `BotDelivery` is the refinement mapping.

**`RolloutGate`.** Each SQL statement is a step; a transaction's writes are
visible to others at its commit (`CommitChange`, `CommitEvaluation`), row locks
and unique keys make the second writer wait (`Locked`, `KeyHeld`). `Ask`,
`Follow` and `GiveUp` are the bot.

**`RoomOrderClaims`.** The mutators are operators from row to row (`ClaimSend`,
`ClaimUpdate`, `ClaimPin`, `CompleteSend`, `ChangeRank`, the releases), each applied
in one step by `Mutate` or `Store`, which may also fail with or without effect.
`fresh` is the set of claims younger than `CLAIM_STALE_MS`; `AgeClaim` is time. A
workflow's stages are its reads and effects: the claim action
(`StartClaim` … `ClaimRead`), the load, the effect (`Post`, `Deliver`), a commit of two
concurrent halves (`Record*` writes the row, `Finish*` pins or finalizes), the
cleanup and the release. `Crash` returns a workflow to the start of its unfinished
action (`Restarted`). `lost` and `repeated` are history: invocations whose claim was
taken over, senders whose send action ran again after the post.

**`CheckinProjection`.** `Authorize`, `Mutate`, `ApplyLate` and `Conclude` are the
commit with its lost answers; `Respond`, `SetRole`, `Announce` and the projection are the
effects, each under a Delivery Key of the invocation, so that a repetition changes
nothing; `Complete` is the end. `Enter`, `LoadView`, `Edit` are the entity's mailbox
and handler. `LoseEntity` is a runner that dies; an edit that had begun goes on
*beside* the entity (`detached`), as does one whose answer is lost or timed out.

**`TeamSubmissions`.** `Start` begins an operation with the record it has read, or
refuses it; `ProcessEntry` goes through the message's teams (a mapped row, a pending append to
be looked for, a new append), `Snapshot` and `PersistApplying` prepare the batch,
`Write` and `ReadBackWrite` are the batch and the read that decides what an error
meant, `PersistTerminal`, `SetConfirmation` and `EnableButtons` conclude. `Confirm` and
`Reject` are the decision, `Restore` and `CheckRestored` the rollback. `late` holds
requests given up that may still be applied. Rows are what matters of cells: whose
team, which value, and whether the row still bears an append's mark. Snapshots and
batches are sets of items (whose team, which row, what it says), because the order of a
batch matters only where two items name one row, which `Wins` decides. `Mentioned` is
every row this message may still write: named in its record, in the operation that
runs or in a request given up.

## 4. Runs

| Run | Instance | Shows |
| --- | --- | --- |
| `dispatch_safety` | 1 run, a start and a cancel, 2 processes, 2 attempts, 2 faults | lease tokens fence stale attempts, attempts stay in the budget, queue and run agree, delivered means done, every outcome has a cause, the contract is implemented |
| `dispatch_live` | 1 run, a start and an event, 2 processes, batches of 1, 1 fault | every command is settled, also behind an older one that keeps failing, and every ended execution ends its run |
| `cursor_pages` | 3 runs, pages of 2, 2 updates, 2 faults | the cursor never passes a running run that no page contained, given that marks become visible in the order of their stamps; once all executions have ended, all runs are settled |
| `cursor_stuck` | 2 runs, one page, no fault | *violation*: an ended run behind a long-running one is not polled again |
| `delivery_race` | 2 replays of one input, 2 Recovery Commands, an old reservation, 1 fault | at most one write without a mistaken release; the contract is implemented |
| `delivery_index` | 2 requests with different inputs, 1 command, an old reservation, 2 faults | a receipt returned is the stored one, of a write Discord made, for the caller's input; reservations of older releases enter the index |
| `delivery_unindexed` | 2 replays, 1 command, no fault | *violation*: an unresolved reservation without marker |
| `delivery_twice` | 3 replays, 2 commands, no fault | *violation*: a release meant for one reservation releases the next, and the write is made twice |
| `rollout_gate` | 2 controls, 3 changes, 1 invocation evaluated twice, 1 fault | each accepted change follows the revision its operator knew and is audited; evaluations agree and rest on audited controls; the replacement path is durable |
| `room_orders` | 2 pages, any 3 of 2 senders, 2 pinners and 2 navigators, 1 stale claim, 1 fault | claims exclude each other; an order is posted once; the page shown is the row's; success is pinned and recorded; who has ended holds no claim |
| `checkins` | 2 members, 3 presses, at most 2 under way, 2 faults | one announcement of a first check-in; no older view replaces a newer one; success is on the message |
| `teams` | 2 teams, 2 values, a message posted and edited once, 1 decision, 4 rows, 2 faults | one append per team, no orphaned row, the record agrees with the sheet, other rows untouched, a rejection undoes, a confirmation confirms what was shown |

What the violation runs show is described, with the lines of code and of
documentation or tests they set against each other, under "findings" in
PROJECT.json.

**Exceptions the properties state.** Some promises hold up to a case that the code
does not cover; the case is part of the property, and each was found necessary by
removing it.

* `OneSend` excepts senders in `repeated`: a crash after the post replays the send
  activity, and if its authorization is by then refused, the compensation releases
  the claim of an order that has been posted. CONTEXT.md:139-140 calls the post
  the Commit Point. It also excepts claims taken over as stale (`lost`).
* `EndedHoldsNothing` excepts a sender that was denied on a tentative order:
  `claimMessageRoomOrderSend` does not look at `tentative`, so an order marked
  tentative between the check and the claim leaves a claim nobody releases until
  it is stale.
* `DisplayAgrees` excepts claims taken over: `ChangeRank` asks only that no other
  fresh claim is in the way, not that the caller has one.
* `OlderViewNeverLast` excepts `dropped`, the members taken off by an edit beside
  the entity. `checkins/definitions.ts` 37-38 says that holding the message key
  prevents an older view from publishing last; it does, except for edits that
  outlive their runner or their answer.
* `ReceiptsAgree` compares inputs only without a mistaken release: `Recheck` after a
  lost race does not compare the input again.
* `TeamSubmissions` names its cases in `past`:
  *forgotten*, removing a team whose append is pending blanks the top of the
  configured range, which is another message's row (the code's snapshot has the
  whole range, `AsRead` keeps the row that is blanked, so what a rejection does to
  the rest of that range is not modelled);
  *adopted*, a pending append is found in another message's row that reads the same;
  *replayed*, an invocation that crashed after its terminal write takes its own
  values as the rollback snapshot, and a later rejection reports
  "rejected and rolled back" (`operations.ts` 1277, 1418) with nothing undone;
  *overwritten*, a late first upsert, which expects no version, replaces the record;
  *unblanked*, an unfinished edit dropped a team whose row is still there, and the
  team is added again in a second row;
  *restated*, an operation that completes an unfinished one records something else
  about a row than that one's snapshot (`operations.ts` 915): it appended to a row
  that had just been blanked, or dropped the earlier row of a team that was removed
  and added again, so the rejection does not bring that row back;
  *unbound*, the entries were recorded but their confirmation was not bound, so the
  earlier message's button confirms what its text does not list;
  *reused*, a rollback that is repeated blanks a row that another message has taken
  meanwhile (`provider.ts:191` says "repeating these updates is idempotent");
  *late write*, a sheet write that was given up is applied afterwards.
  What a rejection restores (`RejectedIsUndone`) is what a row said when one of the
  changes in `before` began: the rejected one, the one whose snapshot is kept until
  the new one's is recorded, and those of operations that took over unfinished ones.
  A pending append that never landed can also never be completed; that is a matter
  of liveness, and the module states none.

**Why the bounds are enough.** The lease argument is about a holder, a stale
attempt and the claim between them, so two processes and three claims (two
attempts and up to two faults) have all three; commands meet only
in the order of a batch, for which two commands and a batch of one suffice
(`dispatch_live`). A second attempt is the first that `LastAttempt` treats differently, so
`MaxAttempts` is 2. Delivery Keys are independent, so one is modelled; two replays
race for a reservation and a third shows what follows a release. A page of two
lets a run be first, last and inside of a page, with a run before and after it.
Three changes of one control give a winner, a loser and a change based on the
winner's revision.

The claim argument of room orders is about a holder, one who takes over and one
who arrives afterwards, so any three of six invocations are let start
(`StartedBound` in the MC module, a constraint on who has left the first stage); two
pages give one turn that can be lost. In `checkins`, one member presses twice (the
second press must not be a first) while another's projection carries a different
view; `UnderWayBound` keeps two workflows under way at a time, which is what two
projections need to race. In `teams`, two invocations give a first version and an
edit; their contents are chosen freely, so every combination of added, removed,
rewritten and kept teams occurs; four rows hold two teams, another message's row and
one row appended meanwhile; two faults let an ambiguous answer be followed by an
interrupt, a late application or another message's append. `RejectedIsUndone` was
also checked with three teams and five invocations whose course is given, where
*restated* and a snapshot older than the last change first occur.

`MaxFaults`, `MaxUpdates`, `MaxAttempts`, `Attempts`, `MaxAges` and `MaxClicks` are the
only bounds on counters, `MaxRow` the only one on space. In `WorkflowDispatch` a
fault is a stopped process, a lost reply or settlement, or a lease that ran out
under a running attempt; failing commands and failing marks are not faults, they
are free. Requests, operators, changes and invocations are finite sets of
one-shot actors. The larger runs use symmetry in actors, values and members that no
constant tells apart; no run with a liveness property uses it.

All runs set `CHECK_DEADLOCK FALSE`: a queue with nothing enqueued, a key nobody
asks for, and finished operators and requests are legitimate ends of a
behaviour.

## 5. Fairness

* `WorkflowDispatch`: time passes (`LeaseExpires`, `BecomesAvailable`); a live
  dispatcher polls (`runWorkflowCommandDispatcher` is a loop without end) and its
  fibers finish; the reconciler repeats every two seconds and polls every
  running run. The last point is what the code gives for one running run at a
  time; `cursor_stuck` shows that it does not with two, which is why `RunsEnd` is
  checked with one run. `Restart` is fair because the deployment restarts an ended
  process; a dispatcher fiber that a command's interrupt has ended is not
  restarted by the code (`dispatcher.ts:119`, `workflowCommands.ts:29`), and for
  that case the fairness is an assumption. Enqueueing, engine progress and faults
  are never forced.
* `ReconcileCursor`: the reconciler's next step is taken; nothing else is forced.
* `BotDelivery`: the background fiber that backfills and scans is scheduled;
  requests and operators may never act.
* `RolloutGate`, `RoomOrderClaims`, `CheckinProjection` and `TeamSubmissions` state no
  liveness: their operators and members need not act, their workflows end by the
  engine's retries, which `WorkflowDispatch` has, and a claim is freed by time.

## 6. Proofs

A proof module has an inductive invariant, most often called `IInv` with a theorem
`Inductive` (`Spec => []IInv`), and the theorems that follow from it, for every value
of the constants that satisfies the module's `ConstantsAssumption`. These say what the
code's keys guarantee (a command has one run, a request one input), and that sets
are finite where something is counted. The two largest modules have several
invariants, each built on the one before it.

`WorkflowDispatchProofs` proves, for every finite set of commands, every set of
runs and processes and every value of the bounds (`ConstantsAssumption`, which
only says what the code's keys guarantee: a command has one run and a run one
start command):

* `TypeCorrect`, `Fencing`, `BudgetHolds`, `QueueAgrees`, `Delivery`,
  `Justification`: the invariants `dispatch_safety` checks;
* `Settled`, `HolderSettles`: a settled row is never written again, and only the
  attempt whose token a row carries settles it (no run checks these two);
* `Implements`: `Spec => ImplementsContract`, by the refinement mapping.

All rest on `Inductive`, `Spec => []IInv`. The safety properties are not inductive
by themselves; `IInv` adds what the code relies on without saying:

* `LeaseInv`: the token of a row counts its claims, and every attempt still being
  made carries the number of its own claim, so two attempts never agree;
* `BudgetInv`: a row whose lease is lost has already paid, with a fault, for the
  claim that will follow; this is what bounds attempts by
  `MaxAttempts + faults`;
* `QueueInv`: a command in the queue has a run;
* `ProgressInv`: an attempt that has come to its settlement has had its effect on
  the engine and on the run;
* `ObservedInv`: what a reconciler fiber has seen of an execution is still so,
  since executions end once.

The proof has effect lemmas for the store's operations (what a claim, a
settlement, an insertion or a stop changes), then one step lemma per part of
`IInv`, with a case per action, and the theorems. The refinement proof shows that
a step changes the contract's state of at most one run (`OneRun`) and maps to a
contract step or a stutter (`StepContract`).

**`BotDeliveryProofs`** (`TypeCorrect`, `NeverTwice`, `GrantsCover`, `AttemptOwns`,
`ReceiptsAlwaysAgree`, `CompletedStays`, `Implements`). `NoDuplicate` is not inductive
because it says nothing of requests that have not yet reached Discord. `TicketInv`
does: every request that may still write, and every one that has, holds a ticket; a
reservation that is free is one more ticket that nobody holds; there are never more
tickets than one plus the releases. `SafeInv` adds that without a mistaken release the
holder of a ticket and the stored reservation are the same, and `OpInv` that what a
Recovery Command found out stays true while it works. The proof has a lemma per
thing a step can do to the reservation (take, give up, resolve, nothing), and the
actions are cases of these; the refinement maps each to a contract step or a stutter.

**`RolloutGateProofs`** (`TypeCorrect`, `Audited`, `NoneLost`, `EvaluationsAlwaysAgree`,
`DecisionsAreJustified`, `ReplacementDurable`). `AuditCounts` says that the audit records
of a gate are in bijection with `1..revision`; a change between its upsert and its
audit row holds the row lock (`ChangeOf`), so the missing record is one and its own.
Decisions rest on records that are never removed (`Backed`), and an evaluation answers
what the first commit recorded. That a most specific candidate exists is the
well-foundedness of `<` (`LeastExists`).

**`ReconcileCursorProofs`** (`TypeCorrect`, `NothingPassedOver`). `NothingSkipped` is
inductive with the types; the work is in the order: what leaving, moving and
beginning do to the places before the cursor, whatever milliseconds are shared. Like the
run, it rests on marks becoming visible in the order of their stamps (§7).

**`RoomOrderClaimsProofs`** (`TypeCorrect`, `ClaimsExclude`, `SentOnce`, `HonestOutcome`,
`Committed`, `TrackedShown`, `ShowsThePage`, `EndedHolds`). `Exclusive` is kept by each mutator on any row (`Kept`,
`Quiet`). `SendingOf`, `ReferringOf` and `CommittingOf` say what a workflow at each stage
knows: a sender that has posted still has its claim or its message in the row, what
a commit refers to has been done, and a reported success has both halves. On that
invariant, `DisplayAgrees` is kept because, as long as no claim was taken over, one invocation at
most may edit the message: `NavigatorOf` says that a navigator has its claim from its
load to its release and found the page shown when it took it, `PinnerOf` that a pinner
keeps the page in place by its claim or by the pin it committed. `HeldInv` says what an
invocation that has reported its outcome left of its claims; a pin claim exists only on a
tentative order, which is why the denial of a pin holds nothing while the denial of a
send may.

**`CheckinProjectionProofs`** (`TypeCorrect`, `AnnouncedOnce`, `ShownOnSuccess`,
`OlderViewNeverPublishedLast`). Claims are kept and views only grow (`ClaimsKept`,
`Loaded`); `Serial` is the heart: the one projection the entity is editing has loaded
everything that is shown and everything any detached edit can show.

**`TeamSubmissionsProofs`** (`TypeCorrect`, `AppendsOnce`, `ConfirmsWhatWasShown`,
`KeepsOthers`, `TellsTheTruth`). Operations, late requests and crashes all meet in the
version of the record, so every part speaks of what an operation or a late request knows
*while its version is the record's* (`Level`), and needs nothing once it is behind:
the version test refuses it then. The one request without a version is the first
upsert, and what it may break is in the properties as *overwritten*.

* `TypeInv` adds to the types that an operation which has registered a team knows its
  row and has a snapshot to record with it, so no record places a team without one.
* `AppendInv` (for `AppendedOnce`) counts: the requests made for a team, and the one
  about to be made, are at most the times its place was removed plus one if the record
  has a place for it. A request is made only after the record says "pending", and a
  level operation places every team the record places (`PlacedBy`), so nothing makes the
  record forget a pending place without counting a removal.
* `ConfirmInv` (for `ConfirmedAsShown`): a record that can be decided names a confirmation
  that lists its entries, or the operation that recorded them is still to bind it, or
  *unbound* was noted; a decision and a late confirmation rest on the record they read.
* `KeptInv` (for `OthersKept`): other messages' rows are as they were and `Mentioned` has
  none of them, so nothing that is still to be written, blanked or restored touches
  one. The difficulty is the place of a pending append, which stands for the whole column: what names
  the column is never in a snapshot, and in an operation's batch only if the operation
  is about to forget such a place, which is noted before anything is written.
* `ToldInv` (for `ShownAsRecorded`): until an operation writes, every row placed, by the
  record or by the operation, holds an entry of its team, so two teams never share a row
  and no batch blanks or rewrites one team's row for another's sake (`UpdatesApart`,
  `WrittenClean`). After the batch every registered row is clean (`terminal`). A late
  record still level with the stored one must be truthful itself and excludes a write
  in progress. While a write is under way the record is the one the operation made
  "applying", or a late first upsert, which places no row.

Each has a step lemma per action; most of them are instances of one lemma about
moving on, one about upserting and one about giving a request up.

**`TeamRowsProofs`** (`KnowsItsRows`) proves `RowsAreKnown` on top of `ToldInv`. `KnownInv`
accounts for every row and every append on its way (`Standing`, `Coming`), team by team:

* `Accounted`: where the record or the operation has a row for a team, the team is there
  or nowhere and no append of it is on its way; where the place is pending, it has one
  row or one append on its way, never two. This is why an append that arrives late
  cannot orphan a row.
* `Keyed`: a row that is placed is in the snapshot under its team's key, so an operation
  that takes over can find it again; `Remains`: only an unfinished record may have dropped
  a team whose row is not blank yet, and that row is in its snapshot.
* `WriteKnown`: the batch is what the operation computed (`Updates`), so when it has been
  written, or read back as written, the teams it removes have no row.
* `DecideKnown`, `LateKnown`: a decision, and a late record that is still level with the
  stored one, know the same rows, or are about to forget a pending place, which is noted.

`AllSettle` says what a step that is not a batch may do to a team's rows (lose some, or
turn an append on its way into a row), and settled rows stay known (`SettledRows`); a step
that also keeps the record is a `Standstill`.

The invariants of both modules were first checked by TLC, on the run's instance with a
third invocation and by simulation with five faults.

Proved without being a property of a run, since the theorem covers every instance
TLC could be given: `SettledIsFinal`, `OnlyHolderSettles`,
`AttemptOwnsReservation`, `AppliedNeedsGrant`, `CompletedIsFinal`, `CommittedIsFinal`,
`TrackedRankShown`.

Model-checked only: liveness (`CommandsSettle`, `RunsEnd`, `BacklogDrains`,
`LegacyIsIndexed`), which needs fairness and ENABLED and is out of TLAPS's reach;
and `RejectedIsUndone` of `TeamSubmissions`, which is in the prover's reach but not yet
proved: it needs an account of what each row said before the change, over operations
that take over each other's unfinished work. Induction over data and
RECURSIVE operators are out of the prover's reach too; no module declares one.

## 7. Assumptions and abstractions

* PostgreSQL: a transaction of one statement is one step; multi-statement
  transactions of the Rollout Gate are stepped at READ COMMITTED. `enqueue` and
  `failCommand` are one step each, as their transactions touch rows that others
  change only by conditional single updates.
* `created_at` is written with the enqueuer's clock; ties and skew between
  enqueuers are not modelled, the order of insertion is.
* Two runs are not stamped in the same microsecond by `markRun`, and the database's
  clock does not go back. `NOW()` (`store.ts` 565) is the start of a transaction, so
  two marks that overlap can become visible in the opposite order of their stamps;
  `ReconcileCursor` takes them to become visible in that order (`Stamp`), and
  `NothingSkipped` is claimed only so: a mark that becomes visible behind a cursor set
  meanwhile is passed over until the walk wraps. A run may join the millisecond
  of the last run left in the order even when the clock is past it, which only adds
  places the cursor can take.
* The engine is idempotent per execution id and its ends are durable.
* Discord: a definitive failure means that the write was not made, and no write
  arrives after the request that made it was interrupted and older than
  `pendingSafeRetryMinimumAgeMs`.
* Payloads, schemas, principals, wire versions, logging, metrics and HTTP
  statuses are left out; schema failures appear as failing attempts. The retention
  periods (thirty days for Delivery Keys, seven for evaluations) are left out of
  `BotDelivery` and are `Cleanup` in `RolloutGate`.
* `cancel` commands are supported by the store and the runtime but not enqueued
  by any service today; they are modelled because `executeWorkflowCommand` handles
  them.
* The row of a room order is registered before its workflows begin; the legacy
  handlers other than marking it tentative, pins at equal times, and edits applied
  after their workflow has gone on are left out of `RoomOrderClaims`. What two
  consecutive reads of one row return is merged where nothing is done between them.
* `CheckinProjection` has no member who is removed and added again, and no legacy
  check-in without a claim; a Delivery Key makes a repeated effect harmless, which is
  what `BotDelivery` is about.
* The decision's answer to placed teams without a snapshot (`operations.ts` 1326) is
  left out of `TeamSubmissions`: no record gets there (`TypeOK`).
* `TeamSubmissions` has one message in detail and others as rows that do not move;
  columns, parsing and the matching of a team across edits are left out (a team
  is an identity), refusals by configuration and authorization are one refusal at
  the start, and the deliveries that tidy up after a decision are left out.
