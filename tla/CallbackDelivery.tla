-------------------------- MODULE CallbackDelivery --------------------------
(***************************************************************************)
(* The answer of one native provider request (a question or an approval):  *)
(* its card, the callback owner and the response row of the outbox, the    *)
(* HTTP callers that answer or delete it, the lifecycle gate, the account  *)
(* worker that fences and writes the frame, the session and supervisor     *)
(* that carry it, and what a restart or a new provider generation does.    *)
(*                                                                         *)
(* Each transaction is one action.  A caller is a future that is dropped   *)
(* when its client disconnects.  The turn that asked may end at any time,  *)
(* and the worker may be replaced; connection ids are left out, because a  *)
(* reply is fenced by its attempt and its provider generation.             *)
(***************************************************************************)
EXTENDS Naturals, Sequences

CONSTANTS
  Caller,       \* HTTP requests that answer or delete the card
  UserAnswer,   \* what a user may answer
  Cancel,       \* the empty answer of a deletion
  NoAnswer,     \* the card has no answer signature
  NoRow,        \* no response in the outbox
  NoOne,        \* nobody holds the lifecycle gate
  MaxAttempts   \* bound on the replies prepared for the card

Answer == UserAnswer \cup {Cancel}

ASSUME AnswerAssumption == NoAnswer \notin Answer
ASSUME NoOneAssumption == NoOne \notin Caller
ASSUME MaxAttemptsAssumption == MaxAttempts \in Nat

\* The identity of a prepared reply, fresh for each; 0 is none.
Attempt == 1 .. MaxAttempts

CardStatus ==
  {"Pending", "Answering", "Answered", "Uncertain", "Expired", "Resolved", "Deleted"}
Card == [status: CardStatus, answer: Answer \cup {NoAnswer}]
Owner == [status: {"Queued", "Running", "Unknown", "Completed"},
          reply: Nat, fingerprint: BOOLEAN]
Row == [status: {"Pending", "Submitted", "Unknown"}, attempt: Nat, answer: Answer,
        fingerprint: BOOLEAN, deleting: BOOLEAN]

ASSUME NoRowAssumption == NoRow \notin Row

Outcome == {"Written", "NotSent", "Unknown"}

\* A frame on its way to the provider, and who waits for its receipt.
Frame == [attempt: Nat, answer: Answer, caller: Caller]

Call == [at: {"idle", "checked", "prepared", "ready", "orphan", "port", "waiting", "receipt"},
         answer: Answer, deleting: BOOLEAN, attempt: Nat,
         outcome: Outcome, told: {"nothing", "answered", "rejected"}]

VARIABLES
  card,      \* the row of runtime_requests
  owner,     \* the callback owner in runtime_tool_requests
  row,       \* the response in runtime_outbox
  issued,    \* attempts issued so far
  active,    \* the agent still runs the turn that asked
  calls,     \* the HTTP calls
  gate,      \* who holds the lifecycle gate
  session,   \* the account worker attached to the provider generation that asked
  queue,     \* frames in the worker's command queue
  begun,     \* frames the worker has fenced and not settled (retained_frames)
  wire,      \* fenced frames the session or the supervisor may still write
  written,   \* frames the provider received, in order
  marked,    \* attempts the supervisor's journal says were written
  alive,     \* the provider process of that generation runs
  resolved   \* the provider has resolved the request itself

db == <<card, owner, row>>
worker == <<session, queue, begun>>
world == <<wire, written, marked, alive>>
vars == <<card, owner, row, issued, active, calls, gate, session, queue, begun,
          wire, written, marked, alive, resolved>>

Received == {written[i] : i \in 1 .. Len(written)}

Blank == [at |-> "idle", answer |-> Cancel, deleting |-> FALSE, attempt |-> 0,
          outcome |-> "Unknown", told |-> "nothing"]

TypeOK ==
  /\ card \in Card
  /\ owner \in Owner
  /\ row \in Row \cup {NoRow}
  /\ issued \in 0 .. MaxAttempts
  /\ active \in BOOLEAN
  /\ calls \in [Caller -> Call]
  /\ gate \in Caller \cup {NoOne}
  /\ session \in {"none", "probing", "live"}
  /\ queue \subseteq Frame
  /\ begun \subseteq Frame
  /\ wire \subseteq Frame
  /\ written \in Seq(Frame)
  /\ marked \subseteq Nat
  /\ alive \in BOOLEAN
  /\ resolved \in BOOLEAN

\* The card is admitted, and the worker that admitted it is attached.
Init ==
  /\ card = [status |-> "Pending", answer |-> NoAnswer]
  /\ owner = [status |-> "Queued", reply |-> 0, fingerprint |-> FALSE]
  /\ row = NoRow
  /\ issued = 0
  /\ active = TRUE
  /\ calls = [p \in Caller |-> Blank]
  /\ gate = NoOne
  /\ session = "live"
  /\ queue = {} /\ begun = {} /\ wire = {}
  /\ written = <<>>
  /\ marked = {}
  /\ alive = TRUE
  /\ resolved = FALSE

-----------------------------------------------------------------------------
(* delivery_in: what is known of the attempt x moves the response row, the   *)
(* owner and the card together, changes nothing, or is an error.             *)

Current(x) == owner.status # "Completed" /\ row # NoRow /\ row.attempt = x

\* Mutant of Moves: the outcome of an earlier attempt is taken for the current one.
MovesAny(x, o) ==
  /\ owner.status # "Completed" /\ row # NoRow
  /\ CASE o = "Submitted" -> row.status = "Pending" /\ active
       [] o = "Written" -> row.status \in {"Submitted", "Unknown"}
       [] OTHER -> row.status = "Submitted"

Moves(x, o) ==
  /\ Current(x)
  /\ CASE o = "Submitted" -> row.status = "Pending" /\ active
       [] o = "Written" -> row.status \in {"Submitted", "Unknown"}
       [] OTHER -> row.status = "Submitted"

\* A repeated or late outcome that is accepted and changes nothing.
Kept(x, o) ==
  \/ owner.status = "Completed" /\ (o = "Written" => owner.fingerprint)
  \/ o = "NotSent" /\ row = NoRow /\ owner.status = "Queued"
  \/ o = "NotSent" /\ row # NoRow /\ row.attempt # x /\ row.status = "Pending"
  \/ o \in {"NotSent", "Unknown"} /\ Current(x) /\ row.status = "Unknown"

\* The transition of an outcome that moves.  A reply that was not sent gives the
\* card back as it was before its answer.
Move(o) ==
  /\ card' = CASE o = "Written" ->
                    [card EXCEPT !.status = IF row.deleting THEN "Deleted" ELSE "Answered"]
               [] o = "NotSent" -> [status |-> "Pending", answer |-> NoAnswer]
               [] o = "Unknown" -> [card EXCEPT !.status = "Uncertain"]
               [] OTHER -> [card EXCEPT !.status = "Answering"]
  /\ owner' = CASE o = "Written" -> [owner EXCEPT !.status = "Completed", !.fingerprint = TRUE]
                [] o = "NotSent" -> [owner EXCEPT !.status = "Queued", !.reply = 0]
                [] o = "Unknown" -> [owner EXCEPT !.status = "Unknown"]
                [] OTHER -> owner
  /\ row' = CASE o \in {"Written", "NotSent"} -> NoRow
              [] o = "Unknown" -> [row EXCEPT !.status = "Unknown"]
              [] OTHER -> [row EXCEPT !.status = "Submitted"]

Deliver(x, o) == IF Moves(x, o) THEN Move(o) ELSE UNCHANGED db

-----------------------------------------------------------------------------
(* The HTTP calls: answer and delete_question.                               *)

Answered(p) ==
  calls' = [calls EXCEPT ![p] = [Blank EXCEPT !.answer = calls[p].answer, !.told = "answered"]]

Failed(p) == calls' = [calls EXCEPT ![p] = Blank]

To(p, at) == calls' = [calls EXCEPT ![p].at = at]

\* The preflight: a pending card needs a live session of its generation.
Ask(p, a, deleting) ==
  /\ calls[p].at = "idle"
  /\ card.status = "Pending" => session # "none"
  /\ calls' = [calls EXCEPT ![p] = [Blank EXCEPT
       !.at = "checked", !.answer = a, !.deleting = deleting]]
  /\ UNCHANGED <<db, issued, active, gate, worker, world, resolved>>

\* Mutant of Answerable: the signature of an earlier answer is not looked at.
AnswerableUnsigned ==
  card.status \in {"Pending", "Uncertain"} /\ active

\* answer_in takes an answer, and save_reply a response.
Answerable ==
  /\ card.answer = NoAnswer /\ card.status = "Pending" /\ active
  /\ row = NoRow /\ owner.status \in {"Queued", "Running"}

\* answer_in: the answer, the owner and the response are committed together,
\* with the unanswered card.
Prepare(p) ==
  /\ calls[p].at = "checked" /\ Answerable
  /\ calls[p].deleting => gate = NoOne
  /\ issued < MaxAttempts
  /\ issued' = issued + 1
  /\ card' = [status |-> "Answering", answer |-> calls[p].answer]
  /\ owner' = [owner EXCEPT !.status = "Running", !.reply = issued']
  /\ row' = [status |-> "Pending", attempt |-> issued', answer |-> calls[p].answer,
             fingerprint |-> FALSE, deleting |-> calls[p].deleting]
  /\ calls' = [calls EXCEPT ![p].at = "prepared", ![p].attempt = issued']
  /\ UNCHANGED <<active, gate, worker, world, resolved>>

\* The answer is a replay of an answered card, or is refused (by the bound too).
PrepareReplays(p) ==
  /\ calls[p].at = "checked" /\ ~calls[p].deleting
  /\ card.answer = calls[p].answer /\ card.status = "Answered"
  /\ Answered(p)
  /\ UNCHANGED <<db, issued, active, gate, worker, world, resolved>>

PrepareRefused(p) ==
  /\ calls[p].at = "checked"
  /\ ~Answerable \/ issued = MaxAttempts
  /\ calls[p].deleting => gate = NoOne
  /\ IF calls[p].deleting THEN card.status \in {"Pending", "Answering", "Uncertain", "Deleted"}
     ELSE card.answer # calls[p].answer \/ card.status # "Answered"
  /\ Failed(p)
  /\ UNCHANGED <<db, issued, active, gate, worker, world, resolved>>

\* prepare_delete of a card that no longer waits: only its state changes.
DeleteState(p) ==
  /\ calls[p].at = "checked" /\ calls[p].deleting /\ gate = NoOne
  /\ card.status \in {"Answered", "Expired", "Resolved"}
  /\ card' = [card EXCEPT !.status = "Deleted"]
  /\ Failed(p)
  /\ UNCHANGED <<owner, row, issued, active, gate, worker, world, resolved>>

\* submission_ready under the gate.
Ready(p) ==
  LET x == calls[p].attempt
      sendable == Current(x) /\ row.status = "Pending" /\ active
  IN /\ calls[p].at = "prepared" /\ gate = NoOne
     /\ IF sendable /\ card.status = "Answering" THEN gate' = p /\ To(p, "ready")
        ELSE IF sendable \/ owner.status = "Completed" THEN Answered(p) /\ UNCHANGED gate
        ELSE Failed(p) /\ UNCHANGED gate
     /\ UNCHANGED <<db, issued, active, worker, world, resolved>>

\* delivery(Submitted) still under the gate.  The transaction of a dropped call
\* runs as well.
Submit(p) ==
  LET x == calls[p].attempt
  IN /\ calls[p].at \in {"ready", "orphan"}
     /\ Deliver(x, "Submitted")
     /\ IF calls[p].at = "orphan" THEN Failed(p) /\ UNCHANGED gate
        ELSE IF Moves(x, "Submitted") THEN To(p, "port") /\ UNCHANGED gate
        ELSE /\ gate' = NoOne
             /\ IF Kept(x, "Submitted") THEN Answered(p) ELSE Failed(p)
     /\ UNCHANGED <<issued, active, worker, world, resolved>>

FrameOf(p) == [attempt |-> calls[p].attempt, answer |-> calls[p].answer, caller |-> p]

\* deliver_callback_reply and submit_committed_frame: the frame enters the queue
\* of the worker that serves the callback.
Enqueue(p) ==
  /\ calls[p].at = "port" /\ session # "none"
  /\ queue' = queue \cup {FrameOf(p)}
  /\ To(p, "waiting")
  /\ UNCHANGED <<db, issued, active, gate, session, begun, world, resolved>>

Receipt(p, o) ==
  /\ calls' = [calls EXCEPT ![p].at = "receipt", ![p].outcome = o]
  /\ gate' = NoOne

\* Mutant of NotQueued: a full queue is an outcome of its own.
NotQueuedFull(p) ==
  /\ calls[p].at = "port"
  /\ Receipt(p, "Full")
  /\ UNCHANGED <<db, issued, active, worker, world, resolved>>

\* No session serves the callback, or its queue stays full.
NotQueued(p) ==
  /\ calls[p].at = "port"
  /\ Receipt(p, "NotSent")
  /\ UNCHANGED <<db, issued, active, worker, world, resolved>>

\* Mutant of TimesOut: a deadline proves that nothing was sent.
TimesOutUnsent(p) ==
  /\ calls[p].at = "waiting"
  /\ Receipt(p, "NotSent")
  /\ UNCHANGED <<db, issued, active, worker, world, resolved>>

\* Mutant of TimesOut: the gate is kept when the deadline passes.
TimesOutGated(p) ==
  /\ calls[p].at = "waiting"
  /\ calls' = [calls EXCEPT ![p].at = "receipt", ![p].outcome = "Unknown"]
  /\ UNCHANGED <<db, issued, active, gate, worker, world, resolved>>

\* The deadline passes, or the worker ends, before the receipt.
TimesOut(p) ==
  /\ calls[p].at = "waiting"
  /\ Receipt(p, "Unknown")
  /\ UNCHANGED <<db, issued, active, worker, world, resolved>>

\* deliver records its receipt, after the gate, whoever recorded it before.
Settle(p) ==
  LET x == calls[p].attempt
      o == calls[p].outcome
  IN /\ calls[p].at = "receipt"
     /\ Deliver(x, o)
     /\ IF o = "Unknown" \/ ~(Moves(x, o) \/ Kept(x, o)) THEN Failed(p)
        ELSE IF o = "Written" THEN Answered(p)
        ELSE calls' = [calls EXCEPT ![p] = [Blank EXCEPT !.attempt = x, !.told = "rejected"]]
     /\ UNCHANGED <<issued, active, gate, worker, world, resolved>>

\* The client disconnects.
Drop(p) ==
  /\ calls[p].at \notin {"idle", "orphan"}
  /\ IF calls[p].at = "ready" THEN To(p, "orphan") ELSE Failed(p)
  /\ gate' = IF gate = p THEN NoOne ELSE gate
  /\ UNCHANGED <<db, issued, active, worker, world, resolved>>

-----------------------------------------------------------------------------
(* The account worker.                                                       *)

Waits(f) == calls[f.caller].at = "waiting" /\ calls[f.caller].attempt = f.attempt

\* The receipt of the frame f goes to its call, if that still waits.
Reply(f, o) ==
  IF Waits(f) THEN Receipt(f.caller, o) ELSE UNCHANGED <<calls, gate>>

\* committed_frame finds the deadline past or the receipt closed.
Discard(f) ==
  /\ f \in queue /\ session # "none"
  /\ queue' = queue \ {f}
  /\ Reply(f, "NotSent")
  /\ UNCHANGED <<db, issued, active, session, begun, world, resolved>>

\* begin_frame.
Admission(f) ==
  IF row = NoRow
    THEN IF owner.reply # f.attempt \/ ~owner.fingerprint THEN "Error"
         ELSE IF owner.status = "Completed" THEN "Written" ELSE "Unknown"
  ELSE IF row.attempt # f.attempt THEN "Error"
  ELSE IF row.fingerprint \/ row.status = "Unknown" THEN "Unknown"
  ELSE "Send"

\* The worker fails; its queue and the receipts it owes are gone.
WorkerEnds == session' = "none" /\ queue' = {} /\ begun' = {}

\* committed_frame: the check of the receipt has passed, perhaps some time ago,
\* and the transaction fences the frame before the session sees it.
Begin(f) ==
  /\ f \in queue /\ session # "none"
  /\ IF Admission(f) = "Send"
       THEN /\ row' = [row EXCEPT !.fingerprint = TRUE, !.status = "Submitted"]
            /\ queue' = queue \ {f}
            /\ begun' = begun \cup {f}
            /\ wire' = wire \cup {f}
            /\ UNCHANGED <<session, calls, gate>>
     ELSE IF Admission(f) = "Error"
       THEN WorkerEnds /\ UNCHANGED <<row, wire, calls, gate>>
     ELSE /\ queue' = queue \ {f}
          /\ Reply(f, Admission(f))
          /\ UNCHANGED <<row, begun, wire, session>>
  /\ UNCHANGED <<card, owner, issued, active, written, marked, alive, resolved>>

\* Mutant of Possible: a frame the supervisor has taken is reported written.
PossibleAccepted(f, o) ==
  CASE o = "Written" -> f \in wire \cup Received
    [] o = "NotSent" -> f \in wire
    [] OTHER -> TRUE

\* The outcomes a session may report of a frame: NotSent proves that the
\* provider has not got it and will not.
Possible(f, o) ==
  CASE o = "Written" -> f \in Received
    [] o = "NotSent" -> f \in wire
    [] OTHER -> TRUE

\* retained_frame_outcome: the outcome of a fenced frame is recorded, then
\* reported.  A response that is gone is an error that ends the worker.
FrameOutcome(f, o) ==
  /\ f \in begun /\ session # "none" /\ Possible(f, o)
  /\ wire' = IF o = "NotSent" THEN wire \ {f} ELSE wire
  /\ IF row # NoRow /\ row.attempt = f.attempt
       THEN /\ Deliver(f.attempt, o)
            /\ begun' = begun \ {f}
            /\ Reply(f, o)
            /\ UNCHANGED <<session, queue>>
     ELSE WorkerEnds /\ UNCHANGED <<db, calls, gate>>
  /\ UNCHANGED <<issued, active, written, marked, alive, resolved>>

\* The worker ends with its session; frames the supervisor has taken may still
\* be written.
Detach ==
  /\ session # "none"
  /\ WorkerEnds
  /\ wire' \in SUBSET wire
  /\ UNCHANGED <<db, issued, active, calls, gate, written, marked, alive, resolved>>

\* A replacement worker attaches to the same provider process.
Attach ==
  /\ session = "none" /\ alive
  /\ session' = "probing"
  /\ UNCHANGED <<db, issued, active, calls, gate, queue, begun, world, resolved>>

\* probe_provider_callbacks: a held response the supervisor says was written is
\* settled.  The probe runs beside the worker.
Probe ==
  /\ session = "probing"
  /\ session' = "live"
  /\ IF row # NoRow /\ row.status # "Pending" /\ row.attempt \in marked
       THEN Deliver(row.attempt, "Written") ELSE UNCHANGED db
  /\ UNCHANGED <<issued, active, calls, gate, queue, begun, world, resolved>>

\* The startup of a worker of another generation: a card that waited expires, an
\* answer on its way is held (expire_card, hold_card).
ExpireEnded ==
  /\ ~alive /\ session = "none"
  /\ card.status \in {"Pending", "Answering"}
  /\ card' = [card EXCEPT !.status = IF @ = "Pending" THEN "Expired" ELSE "Uncertain"]
  /\ owner' = IF owner.status \in {"Queued", "Running"}
                THEN [owner EXCEPT !.status = "Unknown"] ELSE owner
  /\ row' = IF row # NoRow /\ owner.status \in {"Queued", "Running"}
              THEN [row EXCEPT !.status = "Unknown"] ELSE row
  /\ UNCHANGED <<issued, active, calls, gate, worker, world, resolved>>

\* The notification serverRequest/resolved, in the worker's journal batch.
Resolve ==
  /\ session # "none" /\ resolved' = TRUE
  /\ card.status \in {"Pending", "Answering", "Uncertain"}
  /\ card' = [card EXCEPT !.status = "Resolved"]
  /\ UNCHANGED <<owner, row, issued, active, calls, gate, worker, world>>

\* hold_unclean_responses: a pending response may have been sent by a commit that
\* was lost.
Hold ==
  IF row # NoRow /\ row.status = "Pending"
    THEN /\ row' = [row EXCEPT !.status = "Unknown"]
         /\ owner' = [owner EXCEPT !.status = "Unknown"]
         /\ card' = [card EXCEPT !.status = "Uncertain"]
    ELSE UNCHANGED db

\* The server stops, cleanly or not, and starts again.
Restart(clean) ==
  /\ WorkerEnds
  /\ calls' = [p \in Caller |-> Blank]
  /\ gate' = NoOne
  /\ wire' \in SUBSET wire
  /\ IF clean THEN UNCHANGED db ELSE Hold
  /\ UNCHANGED <<issued, active, written, marked, alive, resolved>>

-----------------------------------------------------------------------------
(* The provider, its supervisor and the agent.                               *)

Write(f) ==
  /\ f \in wire /\ alive
  /\ wire' = wire \ {f}
  /\ written' = Append(written, f)
  /\ UNCHANGED <<db, issued, active, calls, gate, worker, marked, alive, resolved>>

\* mark_written, after the write to the child.
Mark(f) ==
  /\ f \in Received /\ f.attempt \notin marked
  /\ marked' = marked \cup {f.attempt}
  /\ UNCHANGED <<db, issued, active, calls, gate, worker, wire, written, alive, resolved>>

ProviderEnds ==
  /\ alive /\ alive' = FALSE
  /\ UNCHANGED <<db, issued, active, calls, gate, worker, wire, written, marked, resolved>>

\* The turn that asked ends, or the agent is stopped.
TurnEnds ==
  /\ active /\ active' = FALSE
  /\ UNCHANGED <<db, issued, calls, gate, worker, world, resolved>>

CallStep(p) ==
  \/ Prepare(p) \/ PrepareReplays(p) \/ PrepareRefused(p) \/ DeleteState(p)
  \/ Ready(p) \/ Submit(p) \/ Enqueue(p) \/ NotQueued(p) \/ TimesOut(p) \/ Settle(p)

Next ==
  \/ \E p \in Caller :
       \/ \E a \in UserAnswer : Ask(p, a, FALSE)
       \/ Ask(p, Cancel, TRUE)
       \/ CallStep(p) \/ Drop(p)
  \/ \E f \in queue : Discard(f) \/ Begin(f)
  \/ \E f \in begun, o \in Outcome : FrameOutcome(f, o)
  \/ \E f \in wire : Write(f)
  \/ \E f \in Received : Mark(f)
  \/ Detach \/ Attach \/ Probe \/ ExpireEnded \/ Resolve
  \/ \E clean \in BOOLEAN : Restart(clean)
  \/ ProviderEnds \/ TurnEnds

Spec == Init /\ [][Next]_vars

\* The runtime polls every call, deadlines pass and the gate is a fair mutex.
FairSpec == Spec /\ \A p \in Caller : SF_vars(CallStep(p))

-----------------------------------------------------------------------------
(* Properties.                                                              *)

\* The provider receives at most one reply to its request, whatever is answered
\* again, timed out, dropped, settled twice, probed or restarted (begin_frame
\* fences, delivery_in moves).
WrittenOnce == Len(written) <= 1

\* A completed callback is true: the provider has the answer the card shows.
AnsweredTrue ==
  (owner.status = "Completed" \/ card.status = "Answered") =>
    \E f \in Received : f.answer = card.answer /\ f.attempt = owner.reply

\* A card that waits for the user, first or given back by delivery_in, has no
\* earlier reply that was written or still could be.
WaitingUnsent ==
  card.status = "Pending" => written = <<>> /\ wire = {} /\ begun = {}

\* What an HTTP call is told is true for good: "answered" that its answer was
\* written or the provider had resolved the request, "rejected before
\* submission" that its reply was not and will not be.
ToldTrue ==
  \A p \in Caller :
    /\ calls[p].told = "answered" =>
         resolved \/ \E f \in Received : f.answer = calls[p].answer
    /\ calls[p].told = "rejected" =>
         \A f \in Received \cup wire \cup queue : f.attempt # calls[p].attempt

\* The slot of the request: filled once written, claimed while a response is
\* owed, open while the card waits.
AnswerState ==
  IF written # <<>> THEN [is |-> "filled", by |-> written[1].answer]
  ELSE IF row # NoRow THEN [is |-> "claimed", by |-> row.answer]
  ELSE IF card.status = "Pending" THEN [is |-> "open", by |-> NoAnswer]
  ELSE [is |-> "closed", by |-> NoAnswer]

Slot == INSTANCE AnswerSlot WITH slot <- AnswerState

\* The delivery implements the answer slot.
SlotSpec == Slot!Spec

\* Every HTTP call returns: the gate is passed on and every wait has a deadline.
CallsReturn == \A p \in Caller : calls[p].at # "idle" ~> calls[p].at = "idle"
=============================================================================
