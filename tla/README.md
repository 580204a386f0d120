# A TLA+ verification of the LAYR Studio runtime

LAYR Studio is a desktop workspace in which a lead agent and its workers, driven
by external model providers, change projects on the user's machines.  Its Rust
runtime (`workspaces/runtime`) must never carry out a request twice, never lose
one silently and never tell an agent or a person something false about what
happened, although providers disconnect, callers repeat, futures are dropped at
any await and the server may stop at any point.  The modules here model the parts
of the runtime that carry these promises, TLC checks them on small instances and
TLAPS proves the most important properties for every value of the constants.

All source paths below are relative to `workspaces/runtime/packages/`.

## 1. Inventory of the system

| Part | State | Operations | What is hard |
|---|---|---|---|
| `operations` crate | none; a `State` (slot with a revision, or a tombstone) goes in and a `Decision` comes out | `transition`, `decide_reservation`, `decide_settlement` | late, repeated and foreign events; evidence that goes stale; compaction |
| command path (`runtime-services/src/commands.rs`, `runtime-http/src/routes/commands.rs`) | `request_results`, `client_command_watermarks`, the expiry floor | `begin`, `finish`, `execute_sync`, `execute_agent_send`, the three-transaction send | repeats around garbage collection, a clock that jumps, two callers of one id |
| retention (`storage_retention.rs`) | the same rows | hourly pass in batches | stops between two batches |
| managed tool requests (`tool_requests/*`) | `runtime_tool_requests` receipt, saved result | reserve, claim, settle, reject, cancel, refresh, restart | first result wins; receipts must be true |
| tool callbacks (`provider_callbacks/tools.rs`, `recovery.rs`) | callback futures, in-process dispatch gates, drop guards | `dispatch_with_ports`, `recover_connection`, start-up recovery | dropped futures whose transaction still commits, writer errors after a commit, live dispatch against recovery |
| retained provider calls (`account_worker/retained/*`, `account_worker/store.rs`) | the call's row, the saved reply, the checkpoint and journal entries of the provider's stream; the worker's entry for the ticket and its nested jobs | reserve, discard, replay, submit, record outcome, settle, cover, recover | restart between submission and receipt, proofs that go stale while the session prepares, replies behind deferred entries |
| callback replies (`provider_callbacks/storage.rs`, `delivery.rs`, `callback_runtime.rs`, `account_worker/retained_frame.rs`, `notification_dispatch/questions.rs`) | the card, the callback owner, the response row of the outbox; the lifecycle gate; frames in the worker, the session and the supervisor | answer, delete, prepare, submit, begin frame, record outcome, probe, hold, expire, resolve | lost write outcomes, two people who answer, a dropped HTTP call whose transaction still runs, answers that race the provider's own resolution |
| supervisor journal, process supervisor | output journal of a provider that outlives the server | append, acknowledge, truncate, adopt | hand-over between two servers |
| scheduler | queues, start attempts, idle agents | select, start, steer, unload | two writers choose one agent |
| entity synchronization (`runtime-store/.../sync_documents.rs`, `entity_transfer.rs`, the web client's `sync/client.ts`) | numbered rows, tombstones, the floor; the client's rows, checkpoint and markers | write, prune, page, frame; pull, apply, evict, reset | pruning while a client reads, two ways to the client, applications that stop half-way |
| outbox and remote outbox | rows with leases and backoff | lease, deliver, retry | duplicate delivery, lost acknowledgement |
| writer actor, lanes, WAL backup, online migrations | writer queue, permits, log segments | submit, run, checkpoint, ship, backfill | starvation, cancelled callers |
| monitors, federation, accounts, relocation, VM, voice, HTTP, clients, bridge | see `PROJECT.json` | | mostly external protocols |

How they meet: an HTTP command or a provider callback runs a few short
transactions on the one writer.  Both the command path and the tool requests keep
their replies in `request_results`, which retention collects.  A tool request asks
the `operations` crate for every change of its receipt.  Recovery at start-up and
after a lost connection settles the receipts that nobody owns any more.

What makes each part correct:

* operations: one dispatch per operation; a settled receipt is true and final;
  evidence is matched to the attempt that it is about;
* command path: a command is applied once; a repeat gets the first reference; a
  command is not forgotten inside its window; expired rows are collected;
* tool requests: the mutation happens once; the receipt is true; all callers are
  told the same; the first saved result wins; a live dispatch settles itself;
* entity synchronization: an entity's number is above every one that an entity had
  before, however the table was pruned; what a client shows was true
  at some moment from its checkpoint on; no live entity is left out, no deleted one
  kept; a client that stays connected catches up;
* callback replies: the provider gets at most one reply to a request; a card that
  waits has none on its way; what an HTTP call is told stays true; every call returns;
* retained calls: the provider receives an operation at most once; the row and the
  receipts are true; a reply the supervisor may forget is kept, and every reply settles;
* the planned parts: no row of an outbox is delivered out of order or dropped.

## 2. The modules

`Operation` holds the decision functions as constant operators.
`OperationLedger` (one slot and a world) and `ToolRequests` (one receipt and its
callbacks) both extend it: the second composes the crate with the code that uses
it, and both are shown to implement the abstract `Receipt`.  `CommandPath` and
`RetainedCalls` stand alone.  `EntitySync` is shown to implement the abstract
`EntityReplica`, and `CallbackDelivery` the abstract `AnswerSlot`.  Each state machine
has an `MC` module for TLC and a module of proofs (`EntitySync` two).

### Operation (`operations/src/lib.rs`, `reservation.rs`, `settlement.rs`)

A slot is a uniform record: `state = "None"` is `State::empty`, `compacted` marks
the tombstone.  `Transition` follows the function of that name by the three shapes
of a slot: empty, tombstone, occupied.  For an occupied slot the order of the
checks is the code's: identity, `Admit`, `matching_attempt` (`AttemptError`),
`ReceiptMissing`, the pairs that a replay absorbs without a revision check
(`Absorbs`), then the revision, the proof (`Unsupported`), the target state and
the checked add of the revision.  `Target` and `Intent` are the tables of the
match.  `SettlementKind` and `ClassifyResult` are `decide_settlement`'s; the
wording of the table of exact rejections is the Boolean `exact`.

### Receipt

What a receipt promises to whoever reads it, without revisions, attempts, callbacks or
stages: what it says (nothing, reserved, running, unknown, applied, not applied) and how
often the operation took place.  The operation acts once, after its claim and while the
receipt is open; "applied" and "not applied" are said only when they are the case, and
stay the case; from an open receipt the truth may be lost ("unknown"), never invented.
`ReceiptOf` reads it from a state of the lifecycle.  A retained call is no receipt in
this sense: once it is proved unsent it may be sent again, under the same row.

### OperationLedger

State: the slot, the mail (events in flight), the handler of a dispatched
operation, whether its mutation took place, and a count of dispatches.  `Reserve`
and `Settle` decide and write in one step, as `reserve_in_store` and
`settle_in_store` do in a transaction.  `Deliver` applies any event in flight,
which stays in flight or not (duplicates, reordering), `Lose` drops one,
`Compact` replaces a settled record by its tombstone (`State::compacted`, which only the
crate's tests call at this commit; the decisions about tombstones are part of
`transition` all the same).

The world is external: a handler starts only by a `Dispatch` intent, acts at most
once and ends.  Evidence is true of the operation when it is captured
(`HonestEvent`, `HonestInput`) and may be stale when it is delivered; an event
about another request, turn or process (`Foreign`) may say anything.  These are
the obligations of the crate's callers, and the properties show what the crate
makes of them.

### CommandPath (`commands.rs`, `routes/commands.rs`, `request_results.rs`, `command_watermarks.rs`, `storage_retention.rs`, `RequestIdentity`)

One client and its watermark.  A command has a fixed number, and an issue time that
is its UUIDv7's, made by a clock that is not the server's.  A command in `Sends` is
a message, whose row is its receipt; one in `Trusted` is an agent's, whose id
carries no time (`RequestIdentity::opaque`) and which the server numbers.  The
others (withdraw, stop) run in one transaction with their row: `ExecuteSync`,
`ReplaySync`.  `AgentSend` is `execute_agent_send`.  `SendBegin`, `SendMessage`,
`SendFinish` are the three transactions of the HTTP send, `SendDropped` the end of
its connection or of the server between two of them.  `Refuse` is every refusal,
including a change that fails and is rolled back.  `PassStart`, `Gc`, `PassStops`
are the retention pass.  `ClockJumps` sets the wall clock to any time.

A reference is the revision of its entity at the time of the run, so a repeat that
answers with the current state differs from one that answers with the first.

### ToolRequests (`tool_requests/*`, `provider_callbacks/tools.rs`, `recovery.rs`)

One mutating request, the callbacks that name it, and their contexts (connection,
epoch, content).  Every transaction of `dispatch_with_ports` is one action of a
callback: `Admit` (owner and reservation), `Claim`, `Run` (reads the actor, then an
external operation or the local transaction), `Finish` or `Local`,
`RecordSettlement`, `Reply`.  `TakeGate` is the in-process gate, which
`RecoverConnection` tries to take.  The receipt is a stage and an outcome, as in
the row; `Classify`, `State` and `Persist` translate it to and from the lifecycle
of `Operation`, as `lifecycle.rs` does, and every change is a decision of
`Transition`.

`Drop` is the drop of a callback future at any await.  The gate is released, an
armed `ClaimGuard` spawns its settlement (`GuardSettles`), and a transaction that
was submitted to the writer runs nevertheless (`alive = FALSE`: it runs, nothing
after it does); one that still waited for admission does not.  With `StoreFails`
a transaction may return an error, before or after its commit.  `Crash` ends every
future, gate and guard; an external operation goes on.  `Startup` is the recovery
that runs before workers start.  `RecoverConnection` is offered by `CallbackRuntime` and
called by tests only (`callback_runtime.rs:253`); it is here because it is written to race
live dispatches, and no property needs it to happen.  `Cancel`, with the refresh that
precedes it, is the request tool.  `Age` and `Collect` are the replay window and retention.

External: the operation behind `dispatch_managed` (`ServiceApplies`,
`ServiceEnds`), which reports "applied", "rejected" or "not sent" only when it is
so (`Honest`) and may always report "unknown" or an error; it may also report
a success of `orchestration_servers` whose text says "not applied".

### EntityReplica and EntitySync (`sync_documents.rs`, `sync_schema.sql`, `entity_transfer.rs`, `routes/sync_documents.rs`, `storage_retention.rs`, `client.ts`)

`EntityReplica` is what a synchronized client promises: there is a log of writes, and
a client that shows anything shows each entity as it was at some moment from its
checkpoint on (`RightSince`), and its checkpoint only moves forward unless it starts
over (`Rebuild`).

`EntitySync` is one table and one client.  The table is a row per entity of the client's
scope with its number (`rows`), the greatest number of the entities outside that scope
(`unscoped`, which a read counts and does not return), the greatest number that is now
in drafts, durable rows or transcripts, which draw from the same counter (`elsewhere`),
the tombstone floor, and whether a pruning run is under way.  `log` is history: what
each number was given to, up to the last one that an entity has.  `PutEntity` numbers a
write by the greatest number that survives (`NextSequence`); `PutUnscoped` and
`WriteElsewhere` take numbers for others.  `DeleteElsewhere` is the delete trigger of a
durable table (`durable_seq.rs:130`): it prunes the tombstones of all durable tables that
are older than 90 days, and only then computes the new number, so `elsewhere` may go
back.  `PruneDue` and `PruneBatchOnce` are the retention pass and its batches.

The client holds rows (`cache`, with the local mark of an eviction), a checkpoint, a
marker of an unfinished bootstrap, and the flags `complete` and `ready`.  It is fed
by two paths, chosen by the constant `Paths`:

- pulls: `RefreshStart`, `PullRequest`, `PullAnswer` (the server's read, at its own
  moment), `PullApply`, `PullReset`, `PullFinish`, `PullFails`, `EpochChanged`,
  `Reacquire`.  `PullInterrupted` is an application that stops between its
  transactions;
- the stream: `Subscribe` sends the client's cursor, `SendFrame` reads a delta or,
  for a cursor behind the floor, a snapshot and moves the server's base,
  `ApplyFrame` stores the rows, evicts what a snapshot omits and moves the
  checkpoint, `FrameInterrupted` stops after any part of this, `Disconnect` loses
  the frames in flight.

### AnswerSlot and CallbackDelivery (`provider_callbacks/storage.rs`, `delivery.rs`, `native_requests.rs`, `callback_runtime.rs`, `account_worker/retained_frame.rs`, `restart_recovery.rs`, `notification_dispatch/questions.rs`)

`AnswerSlot` is what answering promises about one request of a provider: a slot that is
open, claimed by one answer, filled with that answer for good, or closed.  A claim is
given up only while nothing was written.

`CallbackDelivery` is one question or approval.  Durable: the card (`runtime_requests`),
its callback owner (`runtime_tool_requests`) and the response row (`runtime_outbox`).
In the process: the HTTP calls, the lifecycle gate, the worker with its queue and the
frames it has fenced (`retained_frames`).  Outside: what the session or the supervisor
may still write (`wire`), what the provider received, what the supervisor's journal
marks as written.

- A call: `Ask` (preflight), `Prepare` (`answer_in` and `save_reply` in one
  transaction), `PrepareReplays`, `PrepareRefused`, `DeleteState`, `Ready`
  (`submission_ready`, under the gate), `Submit` (`delivery` with Submitted),
  `Enqueue`/`NotQueued`, `TimesOut`, `Settle`; `Drop` is a client that disconnects,
  whose queued transaction still runs.
- The worker: `Discard`, `Begin` (`begin_frame` fences the frame in the row before the
  session sees it), `FrameOutcome`, `Detach`, `Attach`, `Probe`.
- Recovery: `Restart` (with `hold_unclean_responses` after an unclean stop),
  `ExpireEnded` (a worker of another generation), `Resolve`
  (`serverRequest/resolved`).
- `Moves`, `Kept` and `Move` are `delivery_in`: which outcome moves the three rows
  together, which one is accepted and changes nothing, which is an error.

External: the session reports NotSent only of a frame that has not been and will not be
written, and Written only of one that was (`Possible`); it may always report Unknown.

### RetainedCalls (`account_worker/retained/storage.rs`, `retained/runtime.rs`, `account_worker/store.rs`, `account_worker.rs`, `restart_recovery.rs`, `provider_session_task.rs`)

One operation that any number of requests ask for.  Durable: its row in
`runtime_outbox` (status, prepared request, written mark, generation, outcome with its
cursor and whether a checkpoint has proved it), the saved reply, the generation and the
checkpoint of the stream, the cursors that were journaled.  In the process: the worker
with its entry for the ticket (`record`, `pending`, `waiter`) and the requests.  Outside:
the provider and its journal, requests that the session or supervisor may still write.
`owner` says whether the call belongs to admitted work, which reserves the row, or admits
itself when it is submitted.

- A request: `Ask`, `Check` (the first transaction, `replay_recorded`), `Refuse`,
  `Submitted` (marks the row before the session may send), `Send`, `Rejected`,
  `AdmissionUnknown`, `TimesOut`.  `drive` runs the job of a second request inside the
  first while that waits for the session, so jobs interleave between their transactions.
- Outcomes: `Report` is a write outcome or an unknown resolution, `Read` an entry of the
  journal (`event_one` records a reply before it journals the entry).  `Record` is
  `record_outcome` followed by `complete_retained`, with `Settle` inside when the
  checkpoint has already passed the cursor.  `Journal` commits an entry, possibly behind
  later ones, and `compact` covers the row before it moves the checkpoint.  `Early` is
  the answer given ahead of the checkpoint while a callback runs, `Probe` the
  supervisor's word that it has written the request.
- Ends: `WorkerEnds`, `Attach` (with `recover`), `Restart` (with `hold_unclean_pending`
  after an unclean stop), `NewGeneration`, `Discard`, `Expire`.

A receipt is what `told` records.  `PortError::NotSent` is an error about one attempt,
which is all that a refused repeat knows, and is recorded as nothing.

External: the provider answers only what it received, and the session reports NotSent
only of a request still in its queue (`Possible`, `retain_resolution`).

## 3. What the runs check

Each property has a mutant, a plausible bug of the mapped code (defined beside the
original, named in `PROJECT.json`), that TLC shows to violate it.

| Run | Instance | Shows |
|---|---|---|
| `operation_ledger` | one identity, content, context and epoch, two generations, two events in flight | `AtMostOneDispatch`, `SettledIsTrue`, `RevisionWithinRank`, `DispatchedAttemptFixed` and the refinement `ImplementsReceipt` |
| `command_path` | a send and a withdraw, two contents, two callers, three times | `AppliedOnce`, `RepeatGetsFirstReference`, `RememberedInWindow`, `ExpiredNotApplied` |
| `command_trusted` | a message and two commands with rows, all an agent's, one caller, batches of one, fairness | `AppliedOnce`, weakened by one run per collection of the row, and `ExpiredCollected` |
| `command_too_old` | two commands | `TooOldWasApplied` is violated (finding 1) |
| `tool_requests` | two callbacks of one connection, one of its successor, failing writer | `EffectOnce`, `AnswersAgree`, `FirstResultWins`, `OwnerSettles` and the refinement `ImplementsReceipt` |
| `tool_guard` | two callbacks, sound writer | `AbandonedClaimGuarded` is violated (finding 2) |
| `sync_stream` | two entities, stream only, two frames in flight, numbers of entities out of scope and of other tables, fairness | `NumbersAreFresh`, `TableIsTheLog`, the refinement `IsReplica` (with `TableIsTheLog` it implies `ShownIsFaithful` and `NothingMissing`, which are proved as well), and `Converges` |
| `sync_pull` | two entities, whole pages, no pruning of entities | `NothingLeftOver` and the refinement `IsReplica` |
| `sync_both` | two entities, pages of two, both paths, pruning | `NothingMissing` |
| `sync_pruned` | two entities, pages of two, pruning | `NothingLeftOver` is violated (finding 3) |
| `callback_delivery` | two calls, one answer and a deletion, two attempts, fairness | `WrittenOnce`, `AnsweredTrue`, `WaitingUnsent`, `ToldTrue`, the refinement `SlotSpec`, and `CallsReturn` |
| `retained_calls` | two requests, two generations, two journal entries, fairness | `SentOnce`, `RecordTrue`, `ReplyKept`, `ToldTrue` and `ReplySettles` |

Bounds.  `MaxRevision` is 7 in the ledger: a slot changes at most six times
(`RevisionWithinRank`, proved), so no behaviour is cut.  `MaxMail` is 2: two
events suffice for a duplicate, a reordering and a stale proof; a third only
repeats one of these, and the proofs have no such bound.  Three times with a window
of one give an id inside, at and outside the window before and after a jump in
either direction.  In `command_trusted` two commands have rows, which may be due
together at equal or different ages, so that with `Batch = 1` a pass needs two batches
and may be stopped between them; in `command_path` only one command has a row.  `MaxVersion`
bounds the changes of the referenced entity, `MaxRuns` and `MaxNumber` the runs
and numbers of an agent's commands.  Two callbacks of one connection are one that
holds the gate and one that waits or was dropped with its transaction in flight; the
third comes over the successor connection while the first one is recovered.  In
`EntitySync` a `TombstoneLimit` and a `PruneBatch` of one let a batch prune after two
deletions, so that a client can fall behind the floor within the numbers of `MaxSeq`,
`MaxElsewhere` bounds the numbers that go to anything but these entities (2 is enough
for a durable tombstone to be pruned and its number to be given out again), and two
frames in flight (`MaxFrames`) are enough for one to be lost, covered or overtaken by
the next.  `PageLimit` is at least 2: the code reads one row more than it returns,
and its limits are never 1.  In `sync_both` a page of two is still followed by another
one: the agent a mobile client puts first is in the page, and its number is behind it.
`sync_pull` is restricted to pages that hold the table and
a limit that no pruning reaches, because outside of these `NothingLeftOver` fails
(finding 3, and the notes below it).  In `CallbackDelivery` a second attempt
(`MaxAttempts`) is what a first one that timed out, was given back or reports late is
confused with; a third adds nothing that the second does not show, and the proofs have
no such bound.  In `RetainedCalls` two requests are one that waits and one nested in it,
or a first attempt and its retry; two journal entries (`MaxJournal`) are an event that is
deferred and the reply behind it; the second generation (`MaxGeneration`) is the one that
meets a row of the first.

Symmetry is over identities, contents, epochs and generations of the ledger, over
callbacks that have the same context, over entities and over calls; it is used with
safety properties only.

Fairness.  `ExpiredCollected` assumes weak fairness of `PassStart`, because
the pass runs every hour while the server is up, and strong fairness of `Gc`,
because a pass may be stopped before any particular batch but not every pass is.
The leads-to formula is discharged when the clock is set back, since the row is
then no longer due.
`Converges` assumes weak fairness of `Subscribe`, because the client opens its stream
again after every disconnection, and strong fairness of `SendFrame` and
`ApplyFrame`: a connection may be cut before any particular frame and an application
may fail, but not every one.  Writes are bounded, so the property speaks of the time
after the last of them.
`CallsReturn` assumes strong fairness of each call's own steps: the runtime polls every
future, every wait on the worker has a deadline, and the lifecycle gate is a fair mutex,
so that a call that waits for it is served although others take it again and again.
`ReplySettles` assumes weak fairness of `Attach`, because an account's worker is started
again while its provider runs, and strong fairness of `Read` and of `Journal` for each
entry: a worker may end before any of them, but not every worker does, and a deferred
entry is tried again by each.

### Findings

1. `commands.rs:44` says that an id answered with `TooOld` "was applied once".  The
   watermark is a maximum, so an id that never ran, was overtaken by a later
   command of its client and arrives after the window is refused the same way.
   Refusing it is safe (`AppliedOnce` holds); what it tells the client is not true.
2. `provider_callbacks/tools.rs:798` says that the `ClaimGuard` settles a claim whose
   dispatch future is dropped.  The guard is armed after the claim's transaction has
   returned, so a future that is dropped while that transaction is queued leaves a
   running claim nobody settles until the next start.  Nothing is executed twice
   (`EffectOnce` holds); a repeat is told that the request is pending.
3. `sync_documents.rs:594` says that clients behind the floor "reset instead of missing
   a deletion".  A pull that says `fresh` is exempt from the reset, and every page
   after the first and every resumed bootstrap says so: an entity of the first page
   that is deleted and pruned before the second stays in the projection.  (A
   bootstrap of an empty table leaves its marker at 0 and has the same cause.)
Two more were met and have no run of their own.  A test says that a resolved request takes no
answer (`account_worker/tests/native_requests.rs:259`), but the notification
`serverRequest/resolved` changes the card and not its response; when the answer that was
under way turns out not to have been sent, `delivery_in` puts the card back to Pending.
Nothing false is told (`ToldTrue`) and nothing is written twice (`WrittenOnce`).
And `durable_seq.rs:370` says of the change number of a conversation that "It only
grows", as the shared counter it is drawn from would have to.  Both can go back: the
delete trigger removes durable tombstones older than 90 days just before `NEXT` reads the
greatest number that is left, and `NEXT` does not look at `durable_floor`.  When the
greatest number of all tables was such a tombstone's, it is given out again, and a reader
of conversations whose cursor has it is told "nothing newer" (`transcript.rs:403`) about
the row that has it now.  No production code at this commit deletes a row of a durable
table (only tests do), so the trigger is modelled and no run is built on it.
Entities are safe either way: `NumbersAreFresh` is stated of them, with the counter going
back, and proved.

Two more orders lose a deletion for a client that uses both paths, and are the reason
why `sync_both` checks `NothingMissing` only: a pull's answer that was read before a
snapshot and applied after it stores rows that the snapshot did not have to evict, and
the second page of a delta pull is asked as a fresh read, which leaves deletions out.

## 4. What is proved

All proofs hold for every value of the constants under the named assumptions of the
modules: markers such as `NoRow` and `NoGeneration` are not ordinary values, bounds
are naturals, client numbers start at 1, `MaxRevision` is at least 4 in
`ToolRequests` (a receipt's revision is at most 3).

`OperationLedgerProofs`: `TypeCorrect`, `DispatchedOnce`, `ReceiptsTrue`,
`RevisionBounded`, `OutcomesFinal`, `AttributionFixed` and the refinement
`LedgerImplementsReceipt`.  The inductive invariant is
`TypeOK`, `WorldInv`, `RevisionWithinRank`, `SettledIsTrue` and `MailInv`.  One
lemma (`TransitionCases`) says that a decision leaves the slot alone, admits into
the empty slot, or moves an occupied slot by an event whose revision and attempt
match.  `SettledIsTrue` alone is not inductive: whether a rejection may be believed
depends on when its proof was captured.  `MailInv` says what an event in flight
still proves: evidence of an effect, and of a handler that ended without one, stays
true; a queued cancellation or an absent child is only as good as the revision it
names, and a claim makes that revision stale.  For the refinement, `ReceiptEdges` lists
where a decision may take the lifecycle, and `ApplyImplements` matches each edge with a
step of `Receipt`, using `SettledIsTrue` of the new state; compaction and the mail are
stutters, the handler's mutation is `Act` (`EffectImplements`).

`CommandPathProofs`: `CommandTypes`, `CommandsApplyOnce`,
`RepeatsGetFirstReference`, `WindowRemembers`, `ExpiredMeansNotApplied`.  The
inductive invariant adds `ReceiptInv` to the type invariant and the history
properties: an applied command has its row, created at the issue time of its id,
or that issue time is at or below the stored floor; a send has its message; an
agent's command has one run per collected row and one for the row that is there.
`Gc` keeps it because the floor rises in the transaction that deletes the rows and
never falls, whatever the clock does.  `PassCollects` is the half of `ExpiredCollected`
that fairness does not give: a pass that ends has left no row that was due at its clock
reading, and each batch before the last deletes at least one.  It rests on the rows being
finitely many in every state (`PresentStep`), which is proved and not assumed, so that a
batch below the limit is all that was due.

`ToolRequestsProofs`: `ToolTypes`, `EffectsOnce`, `ToolReceiptsTrue`,
`AllAnswersAgree`, `FirstResultsWin`, `OwnersSettle` and the refinement
`ToolImplementsReceipt`.  None of the properties is inductive alone; the invariant ties a callback's position to the receipt it claimed:

- `RecordInv`: stage and outcome agree, a result is inline exactly while the receipt
  is uncertain, and in `request_results` only when it is settled;
- `EffectInv`: before the claim nothing has happened and nobody is armed, at most one
  callback is armed, and one that has yet to act finds that nobody has;
- `OperationInv`: the operation that a callback carries to `Finish` or
  `RecordSettlement` is true when it is recorded, however late that is;
- `GuardInv`: when a guard waits, the callback it stands for is not alive, which is
  what keeps a guard from hiding the outcome of a live dispatch;
- `AnswerInv`: an answer that was given, or is on its way, is the saved result.

Lemmas reduce every write of the receipt to three shapes: it is left alone, it moves
on without a result (`Marks`), or an open one is given its first result (`Saves`).
The refinement is one lemma for each shape (`MarksImplements`, `SavesImplements`), one for
the external operation and one for the local transaction, which acts and says so in one
step.
`DecideState`, `PersistState` and `NextStates` carry the transition table of
`Operation` through `lifecycle.rs`; `RefreshedSame` shows that the refresh before a
cancellation never changes a receipt this code has written.  The proofs take from
the environment only what the model says of it: `Honest`, and that an external
operation acts at most once.

`EntitySyncProofs`: `SyncTypes`, `SequenceFresh`, `TableKeepsLog` for any `Paths`, and
for a client fed by the stream (`StreamOnly`) `StreamFaithful`, `StreamComplete`,
`StreamRemoves` and the refinement `StreamImplementsReplica`.  The table's invariant
(`TableInv`) says that the greatest number an entity ever had is still in a row or among
the entities out of scope (`TopSurvives`): a batch leaves at least one younger tombstone,
which is why `TombstoneLimit` must be positive.  So `NextSequence` is above it whatever
the other tables hold; their numbers may go back and are not part of the invariant.  The
log of the replica grows by a write of an entity at a number that may leave a gap
(`WriteExtends`), and by nothing else.  Faithfulness is not inductive for the client's rows alone: an interrupted
frame leaves rows newer than the checkpoint, and evictions whose row says nothing of
their number.  `FedByStream` adds that no pull is under way, that every row, shown or
not, was right at some moment (`CacheRight`), and that a frame in flight starts at or
below what the client has (`Frontier`), so that a gap is refused and an overlap is
harmless.  `StreamSettles` is the half of `Converges` that fairness does not give: when
nothing is left to send or to apply, the client shows the table.

`EntityPullProofs`: `NeverMissing` for any `Paths`, and for a client that pulls whole
pages `PullFaithful`, `PullRemoves`, `PullSettles` and the refinement
`PullImplementsReplica`.  `HeldInv` says that a page is right for ever about the moment it
was read at (`PageRight`), that it was asked for from where the checkpoint is or was, and
that every live row the checkpoint has passed is in the cache; it holds for pulls, the
stream and both at once, which is why no live entity can be missing.  The other theorems
assume `WholePages`, the hypothesis of the run `sync_pull` for any number of entities: no
stream, pages larger than the table and no pruning.  Outside of it a deletion can be lost
(finding 3 and the notes below it), so they do not hold without it.  `FedByPull` ties the
marker of an unfinished bootstrap, the request under way and the basis since which the
shown rows are right.

`CallbackDeliveryProofs`: `TypeCorrect`, `AtMostOneReply`, `AnsweredIsTrue`,
`WaitingIsUnsent`, `ToldIsTrue` and the refinement `DeliveryImplementsSlot`.  The
inductive invariant is `TypeOK`, `RowInv` (card, owner and response agree), `FrameInv`
(which frames can exist) and `CallInv` (what a call's position says of its attempt).
The argument is about attempts: a new one is prepared only while there is no response
row, so every frame in the queue, fenced, on the wire or received names the attempt of
the row or one that was proved unsent; a frame gets past `begin_frame` only with the
row's attempt and only once, because the fence is in the row.  The gate appears in no
part of it: it keeps calls from waiting on each other in vain, and safety does not rest
on it.  `GateHeld` is about the gate itself, and the half of `CallsReturn` that fairness
does not give: it is held by exactly the call that delivers under it, so no call that
returned, timed out or was dropped leaves it behind.

`RetainedCallsProofs`: `CallTypes`, `CallSentOnce`, `CallRecordTrue`, `CallReplyKept`,
`CallToldTrue`, for any number of requests, generations and journal entries.  None of the
four is inductive.  The invariant (`Inductive`) is `TypeOK` with

- `RowInv`: once anything may reach the provider the row is there, holds the request, is
  Unknown and says nothing of NotSent, or the reply is saved or the id has expired; so
  whatever `submitted` accepts finds nothing sent (`Quiet`);
- `JournalInv`: a reply that is journaled, behind the checkpoint or delivered to the
  worker is kept (`Kept`), and a row that can still be answered is of this generation;
- `EntryInv`: a worker has an entry for what it may still hear of, which is why a reply
  it reads is never passed over while the journal moves on;
- `SendingInv`: at most one request is between its mark in the row and the session, it is
  the one the entry answers, and nothing of it is out.

`RecordInv` shows once, for every source of an outcome, that recording keeps the first
three and tells the truth; each caller owes it what its outcome proves (NotSent: nothing
was sent and nothing is left; Written: the provider has it; Reply: there is one).
`CoverInv` and `CompleteInv` do the same for settling and for held results.

Two more theorems are about what fairness does not give.  `CoveredIsSettled`: a reply that
the checkpoint is past is saved, expired, or settled in its row.  Its invariant
(`PlaceInv`) says that a generation's journal has at most one reply, that a row of this
generation with a reply names its entry, and that one at or below the checkpoint is
proven; the checkpoint may pass the reply before or after the row has it, and
`RecordSettles` and `CoverSettles` are the two orders.  `WaitersServed`: a request that
waits is the one the worker's entry names, the entry is there while it waits, and a
result that the checkpoint covers is not held back.  Its invariant (`ServeInv`) adds that
nobody waits while nothing is out (`Quiet`), because a report of NotSent always finds the
row and tells the one that waits (`ServeUnsent`), and that a request on its way has its
row.

`TypeCorrect` and `CommandTypes` state the type invariants of the ledger and the command
path, and `StreamFaithful` and `PullFaithful` the invariant `ShownIsFaithful`, which no
run lists: the first two are parts of the inductive invariants, the last follows from
`IsReplica`.  `OutcomesFinal` and `ToolReceiptsTrue` state `OutcomeFinal` and
`ReceiptTrue`, which no run lists: what they say of outcomes and effects follows from `ImplementsReceipt`, and
the second, with its clause about operations still running, is a part of the invariant.

Only model-checked: `ExpiredCollected`, `Converges`, `CallsReturn` and `ReplySettles`,
because liveness under fairness is outside the prover; `PassCollects`, `StreamSettles`,
`GateHeld` and `CoveredIsSettled` are the safety parts of the four.  The runs with a
finding are counterexamples and have no theorem.

## 5. What is not modelled

Authorization, formatting, logging and the payloads themselves.  Of the command
path, rows migrated from the older table, and the row that `post_managed_message`
(`coordination.rs:341`) keeps of a message under a namespace of its own, after checking
its id once more: a repeat of a message that the model answers from the message the code
may refuse as expired, so the code runs no command that the model does not.  Of entity synchronization, the in-memory
copy of the last sequence, rows that cannot be decoded, visibility that differs by
agent, tombstones outside the client's scope (which count towards the limit), cursors of
a restored store, several tabs of one client, the rows a command's
answer carries, drafts, preferences and transcripts.  Of tool requests, read-only requests, listing, externalized payloads
and the relocation refresh.  Of callback replies, the replies of tool calls, which are
delivered again without a card, the approval of every pending card when full access is
given, blocked cards, and `CallbackMailbox`, `cards::resolve` and its
`recover_connection`, which only tests use; power loss is left out because the provider
generation ends with its host.  Of retained calls, volatile reads, which have no row,
barriers, sessions of virtual machines, entries of an ended generation that are journaled
later, the limit of one compaction, and the refusal of a second id by the session, which
would only keep a request from being prepared.  A committed transaction is taken as durable.  `PROJECT.json` lists
the remaining components with the reasons, and the hazards nothing covers yet.

## 6. Plan

1. Done: `Operation`, `OperationLedger`, `CommandPath`, `ToolRequests`, `EntitySync`
   with its abstract `EntityReplica`, `CallbackDelivery` with its abstract `AnswerSlot`,
   `RetainedCalls`, and the proofs of their safety properties.
2. The scheduler's start attempts, the outbox with its leases, the supervisor
   journal, the WAL backup and the writer's lanes, in this order.
3. The refinement of `Receipt` by the ledger and by tool requests is done; proofs for
   the modules above come with them.
