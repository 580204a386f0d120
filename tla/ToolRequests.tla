---------------------------- MODULE ToolRequests ----------------------------
(***************************************************************************)
(* One managed tool request: the durable receipt, the callbacks that       *)
(* reserve, claim and execute it, the in-process gate and drop guard,      *)
(* cancellation, connection recovery and the recovery of a restart.        *)
(*                                                                         *)
(* Each transaction is one action.  A callback is a future that may be     *)
(* dropped at any await: a transaction it had submitted still runs on the  *)
(* writer, nothing after it does.  Lifecycle decisions are those of        *)
(* Operation, read from and written to the receipt's stage and outcome.    *)
(* The request is a mutating one (readOnly = false).                       *)
(***************************************************************************)
EXTENDS Operation, FiniteSets

CONSTANTS
  Callbacks,   \* the item/tool/call frames that name this request
  Context,     \* the context of a callback: connection, epoch and content
  Request,     \* the identity of the request
  Turn,        \* its agent, account and thread
  NoRecord,    \* no receipt yet
  NoResult,    \* no saved result
  NoOne,       \* nobody holds the gate, no turn is active
  StoreFails   \* whether a writer transaction may fail

ASSUME ContextAssumption ==
  Context \in [Callbacks -> [conn: Generations, epoch: Epochs, content: Contents]]
ASSUME RequestAssumption == Request \in Identities /\ Turn \in Contexts
ASSUME StoreFailsAssumption == StoreFails \in BOOLEAN
ASSUME NoOneAssumption == NoOne \notin Callbacks /\ NoOne \notin [conn: Generations, epoch: Epochs]
ASSUME RevisionsAssumption == MaxRevision >= 4

\* What a result says: "reported" is a success of orchestration_servers that
\* reports its operation as not applied.
Result == {"applied", "reported", "refused", "unknown", "interrupted", "cancelled"}

ASSUME NoResultAssumption == NoResult \notin Result

Record ==
  [stage: {"queued", "running", "cancelled", "interrupted", "failed", "completed"},
   outcome: {"pending", "unknown", "not_applied", "applied"}, cancelRequested: BOOLEAN,
   result: Result \cup {NoResult}, certainty: {"none", "written", "not_sent", "unknown"},
   conn: Generations, epoch: Epochs, content: Contents]

ASSUME NoRecordAssumption == NoRecord \notin Record

\* DispatchedOperation with its result.
DispatchedOperation ==
  [kind: {"Applied"}, result: {"applied", "reported"}]
  \cup [kind: {"Rejected", "NotSent"}, result: {"refused"}]
  \cup [kind: {"Unknown"}, result: {"unknown"}]

Applied == [kind |-> "Applied", result |-> "applied"]
NotSent == [kind |-> "NotSent", result |-> "refused"]
Unknown == [kind |-> "Unknown", result |-> "unknown"]

VARIABLES
  record,    \* the row of runtime_tool_requests
  row,       \* the reply in request_results
  aged,      \* the request is older than the replay window
  threads,   \* the callback futures
  gate,      \* dispatch_gate: the callback that holds it
  guards,    \* settlements spawned by dropped ClaimGuards
  live,      \* the connection and epoch of the agent's active turn
  up,        \* the server is up and has recovered
  service,   \* the external operation a callback has started
  effects,   \* history: how often the mutation took place
  answers    \* history: the replies callbacks were given

vars == <<record, row, aged, threads, gate, guards, live, up, service, effects, answers>>

\* The claim is durable and its outcome is not: the ClaimGuard is armed.
Armed == {"run", "await", "finish", "local", "settle"}

\* The points where a callback waits for a transaction of its own.
InTransaction == {"admit", "claim", "run", "finish", "local", "settle", "reply"}

Thread ==
  [pc: {"idle", "done", "gate", "await"} \cup InTransaction, alive: BOOLEAN,
   op: DispatchedOperation, answer: Result \cup {NoResult, "pending"}]

At(pc, op, answer) == [pc |-> pc, alive |-> TRUE, op |-> op, answer |-> answer]

Step(pc) == At(pc, Unknown, NoResult)

Done == Step("done")

Turns == [conn: Generations, epoch: Epochs]

TypeOK ==
  /\ record \in Record \cup {NoRecord}
  /\ row \in Result \cup {NoResult}
  /\ aged \in BOOLEAN
  /\ threads \in [Callbacks -> Thread]
  /\ gate \in Callbacks \cup {NoOne}
  /\ gate # NoOne => threads[gate].alive /\ threads[gate].pc \in InTransaction \cup {"await"}
  /\ guards \subseteq Callbacks
  /\ live \in Turns \cup {NoOne}
  /\ up \in BOOLEAN
  /\ service \in [Callbacks -> {"none", "running", "applied", "ended"}]
  /\ effects \in Nat
  /\ answers \subseteq Result \cup {"pending"}

Init ==
  /\ record = NoRecord
  /\ row = NoResult
  /\ aged = FALSE
  /\ threads = [d \in Callbacks |-> Step("idle")]
  /\ gate = NoOne
  /\ guards = {}
  /\ live \in Turns
  /\ up = TRUE
  /\ service = [d \in Callbacks |-> "none"]
  /\ effects = 0
  /\ answers = {}

-----------------------------------------------------------------------------
(* lifecycle.rs: the receipt as an operation.                               *)

\* classify, for the pairs this code writes.
Classify(rec) ==
  CASE rec.stage = "queued" /\ rec.outcome = "pending" -> "Reserved"
    [] rec.stage = "running" /\ rec.outcome = "pending" ->
         IF rec.cancelRequested THEN "CancelRequested" ELSE "Dispatched"
    [] rec.stage = "cancelled" -> "CancelledBeforeDispatch"
    [] rec.outcome = "unknown" -> "Unknown"
    [] rec.outcome = "applied" -> "Applied"
    [] OTHER -> "NotApplied"

Terminal(rec) == Classify(rec) \in Settled

\* state: the revision is that of the lifecycle state.
State(rec) ==
  [revision |-> CASE Classify(rec) = "Reserved" -> 0
                  [] Classify(rec) = "Dispatched" -> 1
                  [] Classify(rec) = "CancelRequested" -> 2
                  [] OTHER -> 3,
   state |-> Classify(rec), compacted |-> FALSE, identity |-> Request,
   content |-> rec.content,
   attempt |-> [context |-> Turn, epoch |-> rec.epoch, generation |-> rec.conn]]

\* The decision on an event of the receipt itself: every caller takes the
\* revision, the identity and the attempt from the record it has just read.
Decide(rec, kind) ==
  Transition(State(rec),
    [expected |-> State(rec).revision, identity |-> Request, attempt |-> State(rec).attempt,
     content |-> rec.content, kind |-> kind, proof |-> "ExactPreWriteRejection"])

\* apply: the pair that is written for a lifecycle state.
Persist(rec, state) ==
  IF Classify(rec) = state THEN rec
  ELSE [rec EXCEPT
    !.stage = CASE state = "Reserved" -> "queued"
                [] state \in {"Dispatched", "CancelRequested"} -> "running"
                [] state = "CancelledBeforeDispatch" -> "cancelled"
                [] state = "Applied" -> "completed"
                [] OTHER -> "failed",
    !.outcome = CASE state \in Open -> "pending"
                  [] state = "Applied" -> "applied"
                  [] state = "Unknown" -> "unknown"
                  [] OTHER -> "not_applied",
    !.cancelRequested = CASE state \in {"Reserved", "Dispatched"} -> FALSE
                          [] state \in {"CancelRequested", "CancelledBeforeDispatch"} -> TRUE
                          [] OTHER -> @]

After(rec, kind) == Persist(rec, Decide(rec, kind).slot.state)

Evidence(result) ==
  [success |-> IF result \in {"applied", "reported"} THEN "true" ELSE "false",
   server |-> IF result = "reported" THEN "NotApplied" ELSE "None",
   readOnly |-> FALSE, exact |-> FALSE]

\* settle: the outcome is inferred from the result; committed says that an
\* operation receipt is present.
Settle(rec, result, committed) ==
  After(rec, SettlementKind(ClassifyResult(Evidence(result)), TRUE, committed, FALSE))

\* admission::reject.
Refused(rec) == After(rec, "DefinitiveRejection")

-----------------------------------------------------------------------------
(* The saved result.                                                        *)

\* saved_result: inline while the outcome is open to change, in request_results
\* once it is settled, and refused when the replay window has passed.
SavedResult ==
  CASE record = NoRecord -> NoResult
    [] record # NoRecord /\ ~Terminal(record) /\ record.result # NoResult -> record.result
    [] OTHER -> IF row # NoResult /\ aged THEN "expired" ELSE row

\* Put the receipt; settle_result moves the result of a settled one into
\* request_results, where the first reply is kept.
Write(rec) ==
  /\ record' = IF Terminal(rec) THEN [rec EXCEPT !.result = NoResult] ELSE rec
  /\ row' = IF Terminal(rec) /\ row = NoResult THEN rec.result ELSE row

Keep == UNCHANGED <<record, row>>

\* finalize_dispatched.
Finalize(rec, op) ==
  LET known == [rec EXCEPT !.certainty =
                  CASE op.kind \in {"Applied", "Rejected"} -> "written"
                    [] op.kind = "NotSent" -> "not_sent"
                    [] OTHER -> "unknown"]
      settled == IF op.kind \in {"Rejected", "NotSent"} THEN Refused(known)
                 ELSE Settle(known, op.result, TRUE)
  IN [settled EXCEPT !.result = op.result]

\* settle_claim: only a claim that is still running without a result.
SettleClaim(op) ==
  IF SavedResult = NoResult /\ record.stage = "running" /\ record.outcome = "pending"
    THEN Write(Finalize(record, op)) ELSE Keep

-----------------------------------------------------------------------------
(* dispatch_with_ports, one transaction after the other.                    *)

\* snapshot.active(): the turn and the connection of the callback are current.
Active(d) == live = [conn |-> Context[d].conn, epoch |-> Context[d].epoch]

\* Mutant of Goes: the gate outlives its callback.
GoesKeepsGate(d, next) ==
  /\ threads' = [threads EXCEPT ![d] = IF @.alive THEN next ELSE Done]
  /\ UNCHANGED gate

\* A callback goes on; one that was dropped ends with its transaction.
Goes(d, next) ==
  /\ threads' = [threads EXCEPT ![d] = IF @.alive THEN next ELSE Done]
  /\ gate' = IF gate = d /\ next.pc = "done" THEN NoOne ELSE gate

Start(d) ==
  /\ up /\ threads[d].pc = "idle"
  /\ Goes(d, Step("admit"))
  /\ UNCHANGED <<record, row, aged, guards, live, up, service, effects, answers>>

Reservation(d) ==
  [stage |-> "queued", outcome |-> "pending", cancelRequested |-> FALSE, result |-> NoResult,
   certainty |-> "none", conn |-> Context[d].conn, epoch |-> Context[d].epoch,
   content |-> Context[d].content]

\* The record this callback names: same content, same actor and turn.
Names(d) == record.epoch = Context[d].epoch /\ record.content = Context[d].content

\* The owner and the reservation in one transaction, which a failing writer may
\* or may not have committed.
Admit(d) ==
  /\ threads[d].pc = "admit"
  /\ \/ /\ Active(d) /\ record = NoRecord
        /\ record' = Reservation(d)
        /\ Goes(d, Step("gate")) \/ (StoreFails /\ Goes(d, Done))
     \/ /\ Active(d) /\ record # NoRecord /\ Names(d)
        /\ UNCHANGED record /\ Goes(d, Step("gate"))
     \/ /\ ~Active(d) \/ (record # NoRecord /\ ~Names(d)) \/ StoreFails
        /\ UNCHANGED record /\ Goes(d, Done)
  /\ UNCHANGED <<row, aged, guards, live, up, service, effects, answers>>

TakeGate(d) ==
  /\ threads[d].pc = "gate" /\ gate = NoOne
  /\ threads' = [threads EXCEPT ![d].pc = "claim"]
  /\ gate' = d
  /\ UNCHANGED <<record, row, aged, guards, live, up, service, effects, answers>>

\* The claim fails before it changes anything: stale context, expired or lost
\* reply, a receipt of another connection.
ClaimRefused(d) ==
  \/ ~Active(d) \/ ~Names(d)
  \/ SavedResult = "expired"
  \/ SavedResult = NoResult /\ (Terminal(record) \/ record.conn # Context[d].conn)

\* Mutant of Claim: a callback of the owner may claim until a result is saved.
ClaimWithoutResult(d) ==
  /\ threads[d].pc = "claim"
  /\ \/ ClaimRefused(d) /\ Keep /\ Goes(d, Done)
     \/ /\ ~ClaimRefused(d) /\ SavedResult # NoResult
        /\ Keep /\ Goes(d, At("reply", Unknown, SavedResult))
     \/ /\ ~ClaimRefused(d) /\ SavedResult = NoResult
        /\ Write(After(record, "ClaimDispatch")) /\ Goes(d, Step("run"))
  /\ UNCHANGED <<aged, guards, live, up, service, effects, answers>>

\* Mutant of Claim: a receipt that is still running answers as unknown.
ClaimAnswersUnknown(d) ==
  /\ threads[d].pc = "claim"
  /\ \/ ClaimRefused(d) /\ Keep /\ Goes(d, Done)
     \/ /\ ~ClaimRefused(d) /\ SavedResult # NoResult
        /\ Keep /\ Goes(d, At("reply", Unknown, SavedResult))
     \/ /\ ~ClaimRefused(d) /\ SavedResult = NoResult
        /\ Write(After(record, "ClaimDispatch"))
        /\ Goes(d, IF record.stage = "queued" THEN Step("run")
                   ELSE At("reply", Unknown, "unknown"))
  /\ UNCHANGED <<aged, guards, live, up, service, effects, answers>>

\* A saved result answers; a queued receipt is claimed; a running one answers
\* that it is pending.  A failing writer ends the callback with an error, and a
\* claim that it had committed stays.
Claim(d) ==
  /\ threads[d].pc = "claim"
  /\ \/ (ClaimRefused(d) \/ StoreFails) /\ Keep /\ Goes(d, Done)
     \/ /\ ~ClaimRefused(d) /\ SavedResult # NoResult
        /\ Keep /\ Goes(d, At("reply", Unknown, SavedResult))
     \/ /\ ~ClaimRefused(d) /\ SavedResult = NoResult
        /\ Decide(record, "ClaimDispatch").kind = "Transitioned"
        /\ Write(After(record, "ClaimDispatch"))
        /\ Goes(d, Step("run")) \/ (StoreFails /\ Goes(d, Done))
     \/ /\ ~ClaimRefused(d) /\ SavedResult = NoResult
        /\ Decide(record, "ClaimDispatch").kind # "Transitioned"
        /\ Keep /\ Goes(d, At("reply", Unknown, "pending"))
  /\ UNCHANGED <<aged, guards, live, up, service, effects, answers>>

\* run_claimed reads the actor, then dispatch_managed starts an external
\* operation or leaves the tool to the local transaction.
Run(d) ==
  /\ threads[d].pc = "run"
  /\ \/ Active(d) /\ Goes(d, Step("local")) /\ UNCHANGED service
     \/ /\ Active(d) /\ threads[d].alive
        /\ Goes(d, Step("await"))
        /\ service' = [service EXCEPT ![d] = "running"]
     \/ /\ ~Active(d) \/ StoreFails
        /\ Goes(d, At("settle", NotSent, NoResult)) /\ UNCHANGED service
  /\ UNCHANGED <<record, row, aged, guards, live, up, effects, answers>>

\* What dispatch_managed may return: an applied, rejected or unsent operation
\* only when it is one.
Honest(d, op) ==
  /\ op = Applied => service[d] = "applied"
  /\ op.kind \in {"Rejected", "NotSent"} => service[d] = "ended"

\* The operation returns; an error it still returns may follow a write.
Return(d) ==
  /\ threads[d].pc = "await"
  /\ \/ \E op \in DispatchedOperation : Honest(d, op) /\ Goes(d, At("finish", op, NoResult))
     \/ Goes(d, At("settle", Unknown, NoResult))
  /\ UNCHANGED <<record, row, aged, guards, live, up, service, effects, answers>>

\* check_claim_owner.
Owns(d) == Names(d) /\ record.conn = Context[d].conn

\* Mutant of Finish: a result that was saved meanwhile is not looked for.
FinishOverwrites(d) ==
  /\ threads[d].pc = "finish" /\ Owns(d)
  /\ Write(Finalize(record, threads[d].op))
  /\ Goes(d, At("reply", threads[d].op, threads[d].op.result))
  /\ UNCHANGED <<aged, guards, live, up, service, effects, answers>>

\* The finishing transaction; when its body fails, or the writer does before or
\* after the commit, settle_claim follows.
Finish(d) ==
  LET op == threads[d].op
      toSettle == At("settle", op, NoResult)
  IN
  /\ threads[d].pc = "finish"
  /\ \/ /\ Owns(d) /\ SavedResult \in Result
        /\ Keep /\ Goes(d, At("reply", op, SavedResult))
     \/ /\ Owns(d) /\ SavedResult = NoResult
        /\ Write(Finalize(record, op))
        /\ \/ Goes(d, At("reply", op, op.result))
           \/ StoreFails /\ Goes(d, toSettle)
     \/ /\ ~Owns(d) \/ SavedResult = "expired" \/ StoreFails
        /\ Keep /\ Goes(d, toSettle)
  /\ UNCHANGED <<aged, guards, live, up, service, effects, answers>>

\* execute_once: effect and receipt commit together, and a refusal rolls the
\* effect back to the savepoint.
ExecuteOnce(d, result) ==
  /\ Active(d) /\ Owns(d) /\ SavedResult = NoResult
  /\ \/ /\ result = "applied"
        /\ effects' = effects + 1
        /\ Write([Settle(record, result, TRUE) EXCEPT !.result = result])
     \/ /\ result = "refused"
        /\ UNCHANGED effects
        /\ Write([Refused(record) EXCEPT !.result = result])

\* The local transaction: a failing body proves that nothing was applied, a
\* failing writer does not.
Local(d) ==
  /\ threads[d].pc = "local"
  /\ \/ /\ Active(d) /\ Owns(d) /\ SavedResult \in Result
        /\ Keep /\ UNCHANGED effects
        /\ Goes(d, At("reply", Unknown, SavedResult))
     \/ \E result \in {"applied", "refused"} :
          /\ ExecuteOnce(d, result)
          /\ \/ Goes(d, At("reply", Unknown, result))
             \/ StoreFails /\ Goes(d, At("settle", Unknown, NoResult))
     \/ /\ Keep /\ UNCHANGED effects
        /\ \/ Goes(d, At("settle", NotSent, NoResult))
           \/ StoreFails /\ Goes(d, At("settle", Unknown, NoResult))
  /\ UNCHANGED <<aged, guards, live, up, service, answers>>

\* record_settlement; a failed one leaves the claim running.
RecordSettlement(d) ==
  /\ threads[d].pc = "settle"
  /\ SettleClaim(threads[d].op) \/ (StoreFails /\ Keep)
  /\ Goes(d, Done)
  /\ UNCHANGED <<aged, guards, live, up, service, effects, answers>>

\* The reply is saved for the provider, unless the writer fails.
Reply(d) ==
  /\ threads[d].pc = "reply"
  /\ answers' = answers \cup {threads[d].answer} \/ (StoreFails /\ UNCHANGED answers)
  /\ Goes(d, Done)
  /\ UNCHANGED <<record, row, aged, guards, live, up, service, effects>>

\* The future is dropped: the gate is free, an armed guard spawns its
\* settlement, and a submitted transaction stays with the writer.
Drop(d) ==
  /\ threads[d].alive /\ threads[d].pc \notin {"idle", "done"}
  /\ \/ threads' = [threads EXCEPT ![d] = Done]
     \/ /\ threads[d].pc \in InTransaction
        /\ threads' = [threads EXCEPT ![d].alive = FALSE]
  /\ gate' = IF gate = d THEN NoOne ELSE gate
  /\ guards' = IF threads[d].pc \in Armed THEN guards \cup {d} ELSE guards
  /\ UNCHANGED <<record, row, aged, live, up, service, effects, answers>>

GuardSettles(d) ==
  /\ d \in guards
  /\ SettleClaim(Unknown) \/ (StoreFails /\ Keep)
  /\ guards' = guards \ {d}
  /\ UNCHANGED <<aged, threads, gate, live, up, service, effects, answers>>

-----------------------------------------------------------------------------
(* Cancellation and recovery.                                               *)

\* refresh: the saved result of an open receipt is classified again.
Refreshed(rec) ==
  IF Terminal(rec) \/ rec.result = NoResult THEN rec
  ELSE Settle(rec, rec.result, rec.certainty = "written")

\* Mutant of Cancelled: a running request is cancelled like a queued one.
CancelledRunning(rec) ==
  IF Terminal(rec) THEN rec
  ELSE [rec EXCEPT !.stage = "cancelled", !.outcome = "not_applied", !.result = "cancelled"]

Cancelled(rec) ==
  LET next == After(rec, "Cancel")
  IN IF next.stage = "cancelled" /\ rec.stage # "cancelled"
       THEN [next EXCEPT !.result = "cancelled"] ELSE next

\* execute with Action::Cancel: refresh, then lifecycle::cancel.
Cancel ==
  /\ up /\ record # NoRecord /\ SavedResult # "expired"
  /\ Cancelled(Refreshed(record)) # record
  /\ Write(Cancelled(Refreshed(record)))
  /\ UNCHANGED <<aged, threads, gate, guards, live, up, service, effects, answers>>

Gone(c) == live \notin [conn: {c}, epoch: Epochs]

Unsettled == record # NoRecord /\ record.stage \in {"queued", "running"}

\* Mutant of Abandoned: a restart proves that nothing ran.
AbandonedNotApplied(rec) ==
  LET next == After(rec, "DefinitiveRejection")
  IN [next EXCEPT !.result = "interrupted"]

\* settle_tool_abandoned: a queued request was never dispatched, a running one
\* is unknown.
Abandoned(rec) ==
  LET next == After(rec, "ServerRestarted")
  IN IF SavedResult # NoResult
       THEN [Settle(rec, SavedResult, FALSE) EXCEPT !.result = SavedResult]
     ELSE IF next.stage = "cancelled" THEN [next EXCEPT !.result = "cancelled"]
     ELSE [next EXCEPT !.stage = "interrupted", !.result = "interrupted"]

\* recover_connection of a connection that is gone: a dispatch whose gate is
\* held settles its own claim.  CallbackRuntime offers it; only tests call it.
RecoverConnection(c) ==
  /\ up /\ Gone(c) /\ Unsettled /\ record.conn = c /\ SavedResult # "expired"
  /\ gate = NoOne
  /\ Write(Abandoned(record))
  /\ UNCHANGED <<aged, threads, gate, guards, live, up, service, effects, answers>>

\* The process ends with its futures, jobs and queued transactions; an external
\* operation may go on.
Crash ==
  /\ up /\ up' = FALSE
  /\ threads' = [d \in Callbacks |-> IF threads[d].pc = "idle" THEN threads[d] ELSE Done]
  /\ gate' = NoOne
  /\ guards' = {}
  /\ UNCHANGED <<record, row, aged, live, service, effects, answers>>

\* recover_tool_requests_on_startup, before any worker starts.
Startup ==
  /\ ~up /\ up' = TRUE
  /\ IF Unsettled /\ SavedResult # "expired" THEN Write(Abandoned(record)) ELSE Keep
  /\ UNCHANGED <<aged, threads, gate, guards, live, service, effects, answers>>

-----------------------------------------------------------------------------
(* The world.                                                               *)

ServiceApplies(d) ==
  /\ service[d] = "running"
  /\ service' = [service EXCEPT ![d] = "applied"]
  /\ effects' = effects + 1
  /\ UNCHANGED <<record, row, aged, threads, gate, guards, live, up, answers>>

ServiceEnds(d) ==
  /\ service[d] = "running"
  /\ service' = [service EXCEPT ![d] = "ended"]
  /\ UNCHANGED <<record, row, aged, threads, gate, guards, live, up, effects, answers>>

\* A turn ends, a connection is lost or replaced.
TurnChanges ==
  /\ live' \in (Turns \cup {NoOne}) \ {live}
  /\ UNCHANGED <<record, row, aged, threads, gate, guards, up, service, effects, answers>>

\* The replay window passes, and retention collects the reply.
Age ==
  /\ record # NoRecord /\ ~aged /\ aged' = TRUE
  /\ UNCHANGED <<record, row, threads, gate, guards, live, up, service, effects, answers>>

Collect ==
  /\ up /\ aged /\ row # NoResult /\ row' = NoResult
  /\ UNCHANGED <<record, aged, threads, gate, guards, live, up, service, effects, answers>>

Next ==
  \/ \E d \in Callbacks :
       \/ Start(d) \/ Admit(d) \/ TakeGate(d) \/ Claim(d) \/ Run(d) \/ Return(d)
       \/ Finish(d) \/ Local(d) \/ RecordSettlement(d) \/ Reply(d)
       \/ Drop(d) \/ GuardSettles(d) \/ ServiceApplies(d) \/ ServiceEnds(d)
  \/ Cancel \/ (\E c \in Generations : RecoverConnection(c))
  \/ Crash \/ Startup \/ TurnChanges \/ Age \/ Collect

Spec == Init /\ [][Next]_vars

-----------------------------------------------------------------------------
(* Properties.                                                              *)

\* The mutation of one request takes place at most once, whatever is repeated,
\* dropped, cancelled, recovered or restarted, and after its reply has expired
\* and been collected (the claim transaction of dispatch_with_ports).
EffectOnce == effects <= 1

\* A settled receipt is true for good: applied means that the mutation took
\* place, not applied or cancelled that it did not and no operation is left that
\* could still make it (reject, settle and restart against what really ran).
ReceiptTrue ==
  record # NoRecord =>
    /\ Classify(record) = "Applied" => effects > 0
    /\ Classify(record) \in {"NotApplied", "CancelledBeforeDispatch"} =>
         effects = 0 /\ \A d \in Callbacks : service[d] # "running"

Promised == INSTANCE Receipt
  WITH says <- ReceiptOf(IF record = NoRecord THEN "None" ELSE Classify(record))

\* The stored receipt, read through lifecycle.rs, implements the abstract one:
\* no callback, guard, cancellation or recovery moves it against the order of an
\* operation, and the mutation takes place once, after the claim and before any
\* outcome of it is told (claim, execute_once, finalize_dispatched, restart).
ImplementsReceipt == Promised!Spec

\* Every callback of a request that is given a final result is given the same
\* one; the others are told that it is pending.
AnswersAgree == \A a, b \in answers \ {"pending"} : a = b

\* The first saved result wins: until the replay window has passed, what a
\* replay is answered never changes (settle_claim, finish and recovery all race
\* to write it).
FirstResultWins ==
  [][(SavedResult \in Result) => (aged' \/ SavedResult' = SavedResult)]_vars

\* A claim whose dispatch is alive in this process is settled by that dispatch
\* alone: no cancellation, no guard of a dropped callback, no other callback and
\* no recovery hides its real outcome.
OwnerSettles ==
  [][record # NoRecord /\ gate # NoOne /\ threads[gate].pc \in Armed
       /\ record'.stage # record.stage => threads'[gate] # threads[gate]]_vars

\* "Settles an abandoned claim as uncertain when the dispatch future is dropped
\* before it records an outcome": while the server is up and its store works, a
\* running claim has a live dispatch or a guard that will settle it.
AbandonedClaimGuarded ==
  up /\ record # NoRecord /\ record.stage = "running" =>
    \/ guards # {}
    \/ \E d \in Callbacks : threads[d].alive /\ threads[d].pc \in Armed
=============================================================================
