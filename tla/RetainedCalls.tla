--------------------------- MODULE RetainedCalls ---------------------------
(***************************************************************************)
(* One retained provider call: the requests that ask for the same          *)
(* operation, the account worker that admits, submits and settles it, its  *)
(* durable row and saved reply, the provider's session and journal with    *)
(* the checkpoint of what the runtime has committed, and what a worker     *)
(* that ends, a restart and a new provider generation leave of them.       *)
(*                                                                         *)
(* Each transaction is one action.  A worker runs the jobs of its requests *)
(* one inside another (drive), so that they interleave wherever one waits  *)
(* for the session.  A worker is never dropped: it ends between two        *)
(* transactions, also after one that returned an error.                    *)
(***************************************************************************)
EXTENDS Naturals, Sequences

CONSTANTS
  Caller,         \* requests for the operation, repeats of each other
  NoOne,          \* nobody waits for the receipt
  NoRow,          \* no row in runtime_outbox
  MaxGeneration,  \* bound on provider generations
  MaxJournal      \* bound on the journal of a generation

ASSUME NoOneAssumption == NoOne \notin Caller
ASSUME BoundsAssumption == MaxGeneration \in Nat \ {0} /\ MaxJournal \in Nat

Result == {"None", "NotSent", "Unknown", "Reply"}
Outcome == [result: Result, cursor: Nat, proven: BOOLEAN]
Row == [status: {"Pending", "Unknown"}, request: BOOLEAN, written: BOOLEAN,
        gen: Nat, outcome: Outcome]

ASSUME NoRowAssumption == NoRow \notin Row

NoOutcome == [result |-> "None", cursor |-> 0, proven |-> FALSE]

\* A result the worker holds until the checkpoint covers it.
Held == [result: Result, cursor: Nat]
Nothing == [result |-> "None", cursor |-> 0]

\* A request and, while it is idle, what its last receipt said: an error, also
\* PortError::NotSent, which is about one attempt only, and a receipt with an unknown
\* result say nothing of the operation.
Call == [at: {"idle", "queued", "checked", "sending", "waiting"},
         stale: BOOLEAN, retry: BOOLEAN, told: {"nothing", "NotSent", "Reply"}]

Blank == [at |-> "idle", stale |-> FALSE, retry |-> FALSE, told |-> "nothing"]

VARIABLES
  row,         \* the call in runtime_outbox
  saved,       \* its reply is in request_results
  expired,     \* its id is older than the replay window
  owner,       \* the call belongs to admitted work, which reserves its row
  cancelled,   \* the owning work was cancelled or replaced
  generation,  \* the provider generation of the account's stream
  checkpoint,  \* the journal cursor acknowledged to the provider's supervisor
  committed,   \* the cursors that were journaled
  worker,      \* an account worker is attached
  read,        \* the cursor up to which its session has delivered the journal
  record,      \* its entry for the ticket: none, its own request, a recovered one
  pending,     \* the result that this entry holds back
  waiter,      \* the request that waits for the entry's receipt
  calls,       \* the requests
  alive,       \* the provider process runs
  journal,     \* what it has said in this generation
  inhand,      \* it has received the request and not replied
  wire,        \* requests in the session or supervisor that it may still receive
  received,    \* requests that any generation has received
  replied,     \* a generation has replied
  acked        \* its reply was acknowledged: its journal may forget it

owned == <<expired, owner, cancelled>>
stream == <<generation, checkpoint, committed>>
entry == <<record, pending, waiter>>
provider == <<alive, journal, inhand, received, replied>>
vars == <<row, saved, expired, owner, cancelled, generation, checkpoint, committed,
          worker, read, record, pending, waiter, calls, alive, journal, inhand, wire,
          received, replied, acked>>

TypeOK ==
  /\ row \in Row \cup {NoRow}
  /\ saved \in BOOLEAN /\ expired \in BOOLEAN
  /\ owner \in BOOLEAN /\ cancelled \in BOOLEAN
  /\ generation \in Nat
  /\ checkpoint \in Nat
  /\ committed \subseteq Nat
  /\ worker \in BOOLEAN
  /\ read \in Nat
  /\ record \in {"none", "own", "recovered"}
  /\ pending \in Held
  /\ waiter \in Caller \cup {NoOne}
  /\ calls \in [Caller -> Call]
  /\ alive \in BOOLEAN
  /\ journal \in Seq({"reply", "event"})
  /\ inhand \in BOOLEAN
  /\ wire \in Nat /\ received \in Nat
  /\ replied \in BOOLEAN /\ acked \in BOOLEAN

\* A provider has just been started and its worker attached.
Init ==
  /\ row = NoRow /\ saved = FALSE /\ expired = FALSE
  /\ owner \in BOOLEAN /\ cancelled = FALSE
  /\ generation = 1 /\ checkpoint = 0 /\ committed = {}
  /\ worker = TRUE /\ read = 0
  /\ record = "none" /\ pending = Nothing /\ waiter = NoOne
  /\ calls = [p \in Caller |-> Blank]
  /\ alive = TRUE /\ journal = <<>> /\ inhand = FALSE
  /\ wire = 0 /\ received = 0 /\ replied = FALSE /\ acked = FALSE

-----------------------------------------------------------------------------
(* The owning work.                                                         *)

Fresh == [status |-> "Pending", request |-> FALSE, written |-> FALSE,
          gen |-> generation, outcome |-> NoOutcome]

\* proven_not_sent.
NotSentProven(r) == r.outcome.result = "NotSent" /\ r.outcome.proven

\* reserve, in the transaction that admits the work.
Reserve ==
  /\ owner /\ ~cancelled /\ ~expired
  /\ row = NoRow /\ ~saved
  /\ row' = Fresh
  /\ UNCHANGED <<saved, owned, stream, worker, read, entry, calls, provider, wire, acked>>

\* discard_unsent, in the transaction that cancels or replaces the work.
Discard ==
  /\ owner /\ row # NoRow
  /\ row.status = "Pending" /\ (row.request => NotSentProven(row))
  /\ row' = NoRow /\ cancelled' = TRUE
  /\ UNCHANGED <<saved, expired, owner, stream, worker, read, entry, calls, provider, wire, acked>>

\* The replay window of the id passes, and retention collects the saved reply.
Expire ==
  /\ ~expired /\ expired' = TRUE
  /\ saved' = FALSE
  /\ UNCHANGED <<row, owner, cancelled, stream, worker, read, entry, calls, provider, wire, acked>>

-----------------------------------------------------------------------------
(* What an outcome does to the row, and when its request is told.           *)

\* settle: the outcome of r is covered by the checkpoint.  A reply is saved and
\* its row deleted, unless its owner cannot take it.
Settle(r) ==
  IF r.status = "Unknown" /\ NotSentProven(r) THEN row' = r /\ UNCHANGED saved
  ELSE \/ /\ row' = [r EXCEPT !.outcome.proven = TRUE,
                       !.status = IF r.outcome.result = "NotSent" THEN "Pending" ELSE "Unknown"]
          /\ UNCHANGED saved
       \/ r.outcome.result = "Reply" /\ row' = NoRow /\ saved' = TRUE

\* Mutant of Cover: an outcome at the checkpoint itself is not covered.
CoverBelow(cursor) ==
  IF row # NoRow /\ row.gen = generation
     /\ row.outcome.result # "None" /\ row.outcome.cursor < cursor
    THEN Settle(row) ELSE UNCHANGED <<row, saved>>

\* checkpoint_covered, for the rows of the current generation.
Cover(cursor) ==
  IF row # NoRow /\ row.gen = generation
     /\ row.outcome.result # "None" /\ row.outcome.cursor <= cursor
    THEN Settle(row) ELSE UNCHANGED <<row, saved>>

\* The request that waits is told the result of its receipt; "Unknown" says nothing.
Tell(result) ==
  calls' = [p \in Caller |->
    IF p = waiter
      THEN [Blank EXCEPT !.told = IF result = "Unknown" THEN "nothing" ELSE result]
      ELSE calls[p]]

\* complete_result: a result up to the checkpoint is told.  The entry stays for an
\* unknown one.
Complete(held, cursor) ==
  IF held.result # "None" /\ held.cursor <= cursor
    THEN /\ Tell(held.result)
         /\ pending' = Nothing /\ waiter' = NoOne
         /\ record' = IF held.result = "Unknown" THEN record ELSE "none"
    ELSE pending' = held /\ UNCHANGED <<record, waiter, calls>>

\* record_outcome writes an outcome into the row: a reply is never replaced.
Written(result, cursor) ==
  LET kept == result = "Written" \/ row.outcome.result = "Reply"
      r == [row EXCEPT
              !.written = @ \/ result = "Written" \/ result = "Reply",
              !.outcome = IF kept THEN @
                          ELSE [result |-> result, cursor |-> cursor, proven |-> FALSE]]
  IN [r EXCEPT !.status = IF NotSentProven(r) THEN "Pending" ELSE "Unknown"]

\* retained_outcome: record_outcome, which settles what the checkpoint covers, and
\* complete_retained.
Record(result, cursor) ==
  IF \/ row = NoRow
     \/ row.status = "Unknown" /\ NotSentProven(row) /\ cursor <= row.outcome.cursor
    THEN UNCHANGED <<row, saved>> /\ Complete(pending, checkpoint)
    ELSE LET r == Written(result, cursor)
             covered == IF r.gen = generation THEN checkpoint ELSE 0
         IN /\ IF r.outcome.result # "None" /\ r.outcome.cursor <= covered
                 THEN Settle(r) ELSE row' = r /\ UNCHANGED saved
            /\ Complete(IF r.outcome.result = "None" THEN pending
                        ELSE [result |-> r.outcome.result, cursor |-> r.outcome.cursor],
                        checkpoint)

-----------------------------------------------------------------------------
(* The requests and their jobs in the worker.                               *)

Ends(p, told) == calls' = [calls EXCEPT ![p] = [Blank EXCEPT !.told = told]]

\* RetainedSessionPort::request puts the request into the worker's queue, perhaps
\* with the scope of an earlier connection.
Ask(p, stale) ==
  /\ calls[p].at = "idle" /\ worker
  /\ calls' = [calls EXCEPT ![p] = [Blank EXCEPT !.at = "queued", !.stale = stale]]
  /\ UNCHANGED <<row, saved, owned, stream, worker, read, entry, provider, wire, acked>>

\* Mutant of Replay: a submitted request without an outcome counts as unsent.
ReplayUnproven ==
  IF row = NoRow
    THEN IF saved THEN "Reply" ELSE IF owner \/ expired THEN "error" ELSE "ready"
  ELSE IF row.status = "Unknown" /\ ~row.request THEN "unknown"
  ELSE IF row.request /\ row.outcome.result \in {"Unknown", "Reply"} THEN "unknown"
  ELSE IF expired /\ ~owner THEN "error"
  ELSE IF row.request THEN "retry" ELSE "ready"

\* replay_recorded.
Replay ==
  IF row = NoRow
    THEN IF saved THEN "Reply" ELSE IF owner \/ expired THEN "error" ELSE "ready"
  ELSE IF row.status = "Unknown" /\ (~row.request \/ NotSentProven(row)) THEN "unknown"
  ELSE IF row.request /\ ~NotSentProven(row) THEN "unknown"
  ELSE IF expired /\ ~owner THEN "error"
  ELSE IF row.request THEN "retry" ELSE "ready"

\* The first transaction of retained_request.
Check(p) ==
  /\ calls[p].at = "queued" /\ worker
  /\ IF Replay = "Reply" THEN Ends(p, "Reply")
     ELSE IF Replay = "retry" /\ calls[p].stale THEN Ends(p, "NotSent")
     ELSE IF Replay \in {"ready", "retry"} /\ ~calls[p].stale
       THEN calls' = [calls EXCEPT ![p].at = "checked", ![p].retry = Replay = "retry"]
     ELSE Ends(p, "nothing")
  /\ UNCHANGED <<row, saved, owned, stream, worker, read, entry, provider, wire, acked>>

\* The request is closed, late or not authorized, or the session does not prepare it.
Refuse(p) ==
  /\ calls[p].at \in {"queued", "checked"}
  /\ Ends(p, "nothing")
  /\ UNCHANGED <<row, saved, owned, stream, worker, read, entry, provider, wire, acked>>

\* Mutant of Sendable: the proof of replay_recorded is not looked at again.
SendableChecked(r, retry) ==
  /\ r # NoRow
  /\ r.gen = generation
  /\ r.request => retry

\* submitted takes the row r: nothing was prepared for it, or the retry names a
\* request that is proved unsent.
Sendable(r, retry) ==
  /\ r # NoRow
  /\ r.status = "Pending" /\ r.gen = generation
  /\ IF r.request THEN retry /\ NotSentProven(r) ELSE ~retry

\* submitted marks the row before the session may send; an unowned call admits and
\* reserves itself.
Submitted(p) ==
  LET r == IF row = NoRow /\ ~owner /\ ~expired /\ ~saved THEN Fresh ELSE row
  IN /\ calls[p].at = "checked" /\ worker
     /\ IF Sendable(r, calls[p].retry)
          THEN /\ row' = [r EXCEPT !.status = "Unknown", !.request = TRUE,
                                   !.written = FALSE, !.outcome = NoOutcome]
               /\ calls' = [calls EXCEPT ![p].at = "sending"]
               /\ record' = "own" /\ pending' = Nothing /\ waiter' = p
          ELSE row' = r /\ Ends(p, "nothing") /\ UNCHANGED entry
     /\ UNCHANGED <<saved, owned, stream, worker, read, provider, wire, acked>>

\* The session takes the request.
Send(p) ==
  /\ calls[p].at = "sending" /\ worker
  /\ wire' = wire + 1
  /\ calls' = [calls EXCEPT ![p].at = "waiting"]
  /\ UNCHANGED <<row, saved, owned, stream, worker, read, entry, provider, acked>>

\* The worker closes, the deadline has passed or the session rejects the request.
Rejected(p) ==
  /\ calls[p].at = "sending" /\ worker
  /\ Record("NotSent", 0)
  /\ UNCHANGED <<owned, stream, worker, read, provider, wire, acked>>

\* Mutant of AdmissionUnknown: a deadline proves that nothing was sent.
AdmissionUnsent(p) ==
  /\ calls[p].at = "sending" /\ worker
  /\ wire' \in {wire, wire + 1}
  /\ Record("NotSent", 0)
  /\ UNCHANGED <<owned, stream, worker, read, provider, acked>>

\* The deadline passes while the session takes the request, or not.
AdmissionUnknown(p) ==
  /\ calls[p].at = "sending" /\ worker
  /\ wire' \in {wire, wire + 1}
  /\ Record("Unknown", 0)
  /\ UNCHANGED <<owned, stream, worker, read, provider, acked>>

\* The deadline of a request passes before its receipt.
TimesOut(p) ==
  /\ calls[p].at = "waiting"
  /\ Ends(p, "nothing")
  /\ waiter' = IF waiter = p THEN NoOne ELSE waiter
  /\ UNCHANGED <<row, saved, owned, stream, worker, read, record, pending, provider, wire, acked>>

-----------------------------------------------------------------------------
(* The session's events.                                                    *)

\* Mutant of Possible: a request counts as queued after its attempt.
PossibleAttempted(o) ==
  CASE o = "Written" -> received > 0
    [] o = "NotSent" -> record = "own"
    [] OTHER -> TRUE

\* What the session may report: NotSent only of a request it still had in its queue,
\* which a recovered one never is.
Possible(o) ==
  CASE o = "Written" -> received > 0
    [] o = "NotSent" -> record = "own" /\ wire > 0
    [] OTHER -> TRUE

Report(o) ==
  /\ worker /\ record # "none" /\ Possible(o)
  /\ \A p \in Caller : calls[p].at # "sending"
  /\ wire' = IF o = "NotSent" THEN wire - 1 ELSE wire
  /\ Record(o, 0)
  /\ UNCHANGED <<owned, stream, worker, read, provider, acked>>

\* event_one: a reply is recorded before its entry is journaled.
Read ==
  /\ worker /\ read < Len(journal)
  /\ read' = read + 1
  /\ IF journal[read + 1] = "reply" /\ record # "none"
       THEN Record("Reply", read + 1)
       ELSE UNCHANGED <<row, saved>> /\ Complete(pending, checkpoint)
  /\ UNCHANGED <<owned, stream, worker, provider, wire, acked>>

\* The cursors that compact may move the checkpoint to: the end of the prefix.
PrefixEnd(done) ==
  {n \in checkpoint .. Len(journal) : checkpoint + 1 .. n \subseteq done /\ n + 1 \notin done}

\* journal_batch commits an entry, which may have been deferred behind later ones;
\* compact settles what the prefix covers, and moves the checkpoint.
Journal(k) ==
  /\ worker /\ k \in checkpoint + 1 .. read /\ k \notin committed
  /\ committed' = committed \cup {k}
  /\ \E n \in PrefixEnd(committed') :
       /\ checkpoint' = n
       /\ IF n > checkpoint THEN Cover(n) ELSE UNCHANGED <<row, saved>>
       /\ Complete(pending, n)
       /\ acked' = (acked \/ \E c \in 1 .. n : journal[c] = "reply")
  /\ UNCHANGED <<owned, generation, worker, read, provider, wire>>

\* complete_retained answers from a committed reply beyond the checkpoint while a
\* managed callback of an earlier entry runs.
Early ==
  /\ worker /\ pending.result = "Reply"
  /\ pending.cursor \in committed /\ pending.cursor > checkpoint /\ pending.cursor > 1
  /\ waiter # NoOne
  /\ Tell("Reply") /\ waiter' = NoOne
  /\ UNCHANGED <<row, saved, owned, stream, worker, read, record, pending, provider, wire, acked>>

\* probe_provider_calls: the supervisor says that it has written the request.
Probe ==
  /\ worker /\ received > 0
  /\ row # NoRow /\ row.gen = generation /\ row.status = "Unknown" /\ row.request
  /\ row' = [row EXCEPT !.written = TRUE]
  /\ UNCHANGED <<saved, owned, stream, worker, read, entry, calls, provider, wire, acked>>

-----------------------------------------------------------------------------
(* Workers, restarts and generations.                                       *)

\* Mutant of Recovers: only a request that is marked written.
RecoversWritten ==
  row # NoRow /\ row.gen = generation /\ row.written /\ ~NotSentProven(row)

\* recover: the row that a new worker and its session wait for.
Recovers ==
  row # NoRow /\ row.gen = generation /\ row.request /\ ~NotSentProven(row)

Attach ==
  /\ ~worker /\ alive
  /\ worker' = TRUE /\ read' = checkpoint
  /\ LET waits == Recovers /\ row.outcome.cursor > checkpoint
         final == Recovers /\ row.outcome.result = "Reply" /\ ~waits
     IN /\ record' = IF Recovers /\ ~final THEN "recovered" ELSE "none"
        /\ pending' = IF waits THEN [result |-> row.outcome.result, cursor |-> row.outcome.cursor]
                      ELSE Nothing
  /\ UNCHANGED <<row, saved, owned, stream, waiter, calls, provider, wire, acked>>

\* The worker's session and entry go; the supervisor may keep what it has taken.
Detached ==
  /\ worker' = FALSE
  /\ record' = "none" /\ pending' = Nothing /\ waiter' = NoOne
  /\ wire' \in 0 .. wire

WorkerEnds ==
  /\ worker /\ Detached
  /\ calls' = [p \in Caller |-> IF calls[p].at = "idle" THEN calls[p] ELSE Blank]
  /\ UNCHANGED <<row, saved, owned, stream, read, provider, acked>>

\* The server stops, cleanly or not, and starts: hold_unclean_pending.
Restart(clean) ==
  /\ Detached
  /\ calls' = [p \in Caller |-> Blank]
  /\ row' = IF clean \/ row = NoRow THEN row ELSE [row EXCEPT !.status = "Unknown"]
  /\ UNCHANGED <<saved, owned, stream, read, provider, acked>>

\* attach_provider_stream for the next generation of an ended provider.
NewGeneration ==
  /\ ~worker /\ ~alive /\ generation < MaxGeneration
  /\ generation' = generation + 1
  /\ Cover(checkpoint)
  /\ checkpoint' = 0 /\ committed' = {} /\ read' = 0
  /\ alive' = TRUE /\ journal' = <<>> /\ inhand' = FALSE /\ wire' = 0
  /\ UNCHANGED <<owned, worker, entry, calls, received, replied, acked>>

-----------------------------------------------------------------------------
(* The provider.                                                            *)

Receive ==
  /\ alive /\ wire > 0
  /\ wire' = wire - 1 /\ received' = received + 1 /\ inhand' = TRUE
  /\ UNCHANGED <<row, saved, owned, stream, worker, read, entry, calls, alive, journal,
                 replied, acked>>

Reply ==
  /\ alive /\ inhand /\ Len(journal) < MaxJournal
  /\ journal' = Append(journal, "reply") /\ inhand' = FALSE /\ replied' = TRUE
  /\ UNCHANGED <<row, saved, owned, stream, worker, read, entry, calls, alive, wire,
                 received, acked>>

Event ==
  /\ alive /\ Len(journal) < MaxJournal
  /\ journal' = Append(journal, "event")
  /\ UNCHANGED <<row, saved, owned, stream, worker, read, entry, calls, alive, inhand,
                 wire, received, replied, acked>>

ProviderEnds ==
  /\ alive /\ alive' = FALSE /\ inhand' = FALSE
  /\ UNCHANGED <<row, saved, owned, stream, worker, read, entry, calls, journal, wire,
                 received, replied, acked>>

Job(p) ==
  \/ \E stale \in BOOLEAN : Ask(p, stale)
  \/ Check(p) \/ Refuse(p) \/ Submitted(p)
  \/ Send(p) \/ Rejected(p) \/ AdmissionUnknown(p) \/ TimesOut(p)

Next ==
  \/ Reserve \/ Discard \/ Expire
  \/ \E p \in Caller : Job(p)
  \/ \E o \in {"Written", "NotSent", "Unknown"} : Report(o)
  \/ Read \/ Early \/ Probe \/ Attach \/ WorkerEnds \/ NewGeneration
  \/ \E k \in 1 .. MaxJournal : Journal(k)
  \/ \E clean \in BOOLEAN : Restart(clean)
  \/ Receive \/ Reply \/ Event \/ ProviderEnds

Spec == Init /\ [][Next]_vars

\* An account's worker is started again while its provider runs; it may end before
\* any entry is read or journaled, but not before every one.
FairSpec ==
  /\ Spec
  /\ WF_vars(Attach) /\ SF_vars(Read)
  /\ \A k \in 1 .. MaxJournal : SF_vars(Journal(k))

-----------------------------------------------------------------------------
(* Properties.                                                              *)

\* The provider receives the operation at most once, whatever is asked again,
\* nested, retried, timed out, restarted or recovered (submitted marks the row).
SentOnce == received + wire <= 1

\* The row is true: one that may be sent, or is proved unsent, has nothing sent or
\* on its way; one marked written was received; a reply was given.
RecordTrue ==
  /\ row # NoRow =>
       /\ (row.status = "Pending" \/ NotSentProven(row)) => received = 0 /\ wire = 0
       /\ row.written => received > 0
       /\ row.outcome.result = "Reply" => replied
  /\ saved => replied

\* A reply the supervisor may forget is in the row or saved until it expires
\* (checkpoint_covered settles before the checkpoint moves).
ReplyKept ==
  acked => saved \/ expired \/ (row # NoRow /\ row.outcome.result = "Reply")

\* A receipt says Reply only when there is one, and NotSent only when nothing of the
\* operation was sent by any attempt or can be (complete_result, retained_request).
ToldTrue ==
  [][\A p \in Caller : calls'[p].told # calls[p].told =>
       CASE calls'[p].told = "Reply" -> replied'
         [] calls'[p].told = "NotSent" -> received' = 0 /\ wire' = 0
         [] OTHER -> TRUE]_vars

\* A reply is settled, through any number of worker restarts, unless the provider ends
\* first or the id expires.
ReplySettles ==
  (\E c \in 1 .. Len(journal) : journal[c] = "reply") ~>
    \/ saved \/ expired \/ ~alive
    \/ (row # NoRow /\ row.outcome.result = "Reply" /\ row.outcome.proven)
=============================================================================
