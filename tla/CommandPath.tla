---------------------------- MODULE CommandPath ----------------------------
(***************************************************************************)
(* The one command path: commands::begin and finish, the transactions that *)
(* run a command between them, the request_results rows a repeat is        *)
(* answered from, the retention pass that collects them, and the per-      *)
(* client watermark.  One client (one watermark) is modelled.              *)
(*                                                                         *)
(* A command has a fixed identity: the time its UUIDv7 was issued at, by a *)
(* clock that is not the server's, and a client number.  A repeat carries  *)
(* the same id and any content.  The server's wall clock may jump either   *)
(* way between two transactions.                                           *)
(***************************************************************************)
EXTENDS Integers, FiniteSets

CONSTANTS
  Commands,   \* command ids of the client
  Sends,      \* the create commands: the message row is their receipt
  Trusted,    \* commands of an agent or the policy: tool call ids, not UUIDv7
  Contents,   \* what a command's signature is made of
  NoRow,      \* no request_results row, no message, no reference
  Number,     \* the number the client gives a command
  Callers,    \* HTTP requests that run a send at the same time
  TTL,        \* REQUEST_RESULT_TTL_MS
  Skew,       \* REQUEST_ID_FUTURE_SKEW_MS
  Batch,      \* REQUEST_RESULT_GC_BATCH_ROWS
  MaxTime,    \* bound on the clocks
  MaxVersion, \* bound on the revision of the entity a reference names
  MaxRuns,    \* bound on the runs of a trusted command
  MaxNumber   \* bound on the numbers the server gives

ASSUME CommandSets == Sends \subseteq Commands /\ Trusted \subseteq Commands
ASSUME NumberAssumption == Number \in [Commands -> Nat \ {0}]
ASSUME TimesAssumption == TTL \in Nat /\ Skew \in Nat /\ MaxTime \in Nat
ASSUME BoundsAssumption == MaxVersion \in Nat /\ MaxRuns \in Nat /\ MaxNumber \in Nat
                           /\ Batch \in Nat \ {0}

Times == 1..MaxTime

\* A reference is the revision of its entity when the command was applied.
References == 0..MaxVersion

Row == [content: Contents, created: Times, ref: References]

ASSUME NoRowAssumption == NoRow \notin Row /\ NoRow \notin Contents /\ NoRow \notin References

Verdict == {"Fresh", "Replay", "Conflict", "Expired", "Future", "TooOld", "Failed"}

VARIABLES
  clock,      \* the server's wall clock
  floor,      \* expired_before_ms in runtime_orchestration_settings
  rows,       \* request_results, by command
  watermark,  \* client_command_watermarks.applied
  messages,   \* the content of a sent message, by command id
  version,    \* the current revision of the entity references name
  issued,     \* the issue time in a device's UUIDv7
  callers,    \* the sends in flight
  pass,       \* the retention pass
  applied,    \* history: how often a command's change was committed
  collected,  \* history: how often a command's row was collected
  first,      \* history: the reference of the first run
  last        \* history: the last answer given

vars == <<clock, floor, rows, watermark, messages, version, issued, callers, pass,
          applied, collected, first, last>>

\* What no transaction of the server changes.
world == <<clock, version, issued>>

Idle == [pc |-> "idle", cmd |-> NoRow, content |-> NoRow]

TypeOK ==
  /\ clock \in Times
  /\ floor \in 0..MaxTime
  /\ rows \in [Commands -> Row \cup {NoRow}]
  /\ watermark \in Nat
  /\ messages \in [Commands -> Contents \cup {NoRow}]
  /\ version \in References
  /\ issued \in [Commands \ Trusted -> Times]
  /\ callers \in [Callers -> {Idle} \cup [pc: {"begun", "sent"}, cmd: Sends, content: Contents]]
  /\ pass \in [pc: {"idle"}, now: {1}] \cup [pc: {"gc"}, now: Times]
  /\ applied \in [Commands -> Nat]
  /\ collected \in [Commands -> Nat]
  /\ first \in [Commands -> References \cup {NoRow}]
  /\ last \in [cmd: Commands \cup {NoRow}, verdict: Verdict, ref: References \cup {NoRow}]

Init ==
  /\ clock \in Times
  /\ floor = 0
  /\ rows = [c \in Commands |-> NoRow]
  /\ watermark = 0
  /\ messages = [c \in Commands |-> NoRow]
  /\ version = 0
  /\ issued \in [Commands \ Trusted -> Times]
  /\ callers = [k \in Callers |-> Idle]
  /\ pass = [pc |-> "idle", now |-> 1]
  /\ applied = [c \in Commands |-> 0]
  /\ collected = [c \in Commands |-> 0]
  /\ first = [c \in Commands |-> NoRow]
  /\ last = [cmd |-> NoRow, verdict |-> "Fresh", ref |-> NoRow]

Larger(a, b) == IF a >= b THEN a ELSE b

-----------------------------------------------------------------------------
(* begin.                                                                   *)

\* RequestIdentity::opaque is issued now; a UUIDv7 carries its own time.
IssuedAt(c) == IF c \in Trusted THEN clock ELSE issued[c]

\* The server numbers the commands of an agent.
NumberOf(c) == IF c \in Trusted THEN watermark + 1 ELSE Number[c]

\* RequestIdentity::validate: everything issued at or before this is expired.
IdentityFloor(c) == Larger(clock - TTL, IF c \in Trusted THEN 0 ELSE floor)

\* What begin answers, in the order of its checks: the id, the replay window,
\* then the replay record (a create command has none).
BeginVerdict(c, content) ==
  CASE IssuedAt(c) <= IdentityFloor(c) /\ NumberOf(c) <= watermark -> "TooOld"
    [] IssuedAt(c) <= IdentityFloor(c) /\ NumberOf(c) > watermark -> "Expired"
    [] IssuedAt(c) > IdentityFloor(c) /\ IssuedAt(c) > clock + Skew -> "Future"
    [] IssuedAt(c) > IdentityFloor(c) /\ IssuedAt(c) <= clock + Skew
       /\ c \notin Sends /\ rows[c] # NoRow ->
         IF rows[c].content # content THEN "Conflict"
         ELSE IF rows[c].created <= clock - TTL THEN "Expired" ELSE "Replay"
    [] OTHER -> "Fresh"

Answer(c, verdict, ref) == last' = [cmd |-> c, verdict |-> verdict, ref |-> ref]

\* begin refuses, or the change itself does (the message has left the queue,
\* the chat is gone): the transaction rolls back and the caller hears why.
Refuse(c, content) ==
  /\ \/ /\ BeginVerdict(c, content) \notin {"Fresh", "Replay"}
        /\ Answer(c, BeginVerdict(c, content), NoRow)
     \/ /\ BeginVerdict(c, content) = "Fresh"
        /\ Answer(c, "Failed", NoRow)
  /\ UNCHANGED <<world, floor, rows, watermark, messages, callers, pass,
                 applied, collected, first>>

-----------------------------------------------------------------------------
(* The commands that run in one transaction.                                *)

\* The change of the command commits; the first run is remembered.
Commits(c) ==
  /\ applied' = [applied EXCEPT ![c] = @ + 1]
  /\ first' = [first EXCEPT ![c] = IF @ = NoRow THEN version ELSE @]

\* Mutant of Finish: the watermark is the number of the last command.
FinishLastNumber(number) == watermark' = number

\* CommandWatermarks::advance: it never moves down.
Finish(number) == watermark' = Larger(watermark, number)

\* Mutant of SettleReference: the row carries the admission time.
SettleReferenceNow(c, content) ==
  rows' = [rows EXCEPT ![c] = [content |-> content, created |-> clock, ref |-> version]]

\* settle_reference in the transaction that found no row.
SettleReference(c, content) ==
  rows' = [rows EXCEPT ![c] = [content |-> content, created |-> IssuedAt(c), ref |-> version]]

\* execute_sync of a withdraw or a stop: begin, the change, the reference and
\* the watermark commit together.
ExecuteSync(c, content) ==
  /\ c \notin Sends
  /\ BeginVerdict(c, content) = "Fresh"
  /\ applied[c] < MaxRuns /\ NumberOf(c) <= MaxNumber
  /\ Commits(c)
  /\ SettleReference(c, content)
  /\ Finish(NumberOf(c))
  /\ Answer(c, "Fresh", version)
  /\ UNCHANGED <<world, floor, messages, callers, pass, collected>>

\* Mutant of ReplaySync: the reference is read again.
ReplaySyncCurrent(c, content) ==
  /\ c \notin Sends
  /\ BeginVerdict(c, content) = "Replay"
  /\ Answer(c, "Replay", version)
  /\ UNCHANGED <<world, floor, rows, watermark, messages, callers, pass,
                 applied, collected, first>>

ReplaySync(c, content) ==
  /\ c \notin Sends
  /\ BeginVerdict(c, content) = "Replay"
  /\ Answer(c, "Replay", rows[c].ref)
  /\ UNCHANGED <<world, floor, rows, watermark, messages, callers, pass,
                 applied, collected, first>>

\* Mutant of AgentSend: the message id is not looked up.
AgentSendAgain(c, content) ==
  /\ c \in Sends \cap Trusted
  /\ BeginVerdict(c, content) = "Fresh"
  /\ NumberOf(c) <= MaxNumber
  /\ Commits(c) /\ messages' = [messages EXCEPT ![c] = content]
  /\ Finish(NumberOf(c))
  /\ Answer(c, "Fresh", version)
  /\ UNCHANGED <<world, floor, rows, callers, pass, collected>>

\* execute_agent_send: begin, the message and finish in one transaction; a
\* repeat finds its message, and other content rolls everything back.
AgentSend(c, content) ==
  /\ c \in Sends \cap Trusted
  /\ BeginVerdict(c, content) = "Fresh"
  /\ messages[c] \in {NoRow, content} /\ NumberOf(c) <= MaxNumber
  /\ IF messages[c] = NoRow
       THEN Commits(c) /\ messages' = [messages EXCEPT ![c] = content]
       ELSE UNCHANGED <<applied, first, messages>>
  /\ Finish(NumberOf(c))
  /\ Answer(c, "Fresh", version)
  /\ UNCHANGED <<world, floor, rows, callers, pass, collected>>

-----------------------------------------------------------------------------
(* A send over HTTP: begin, the message and finish in three transactions.   *)

SendBegin(k, c, content) ==
  /\ callers[k] = Idle
  /\ c \in Sends \ Trusted
  /\ BeginVerdict(c, content) = "Fresh"
  /\ callers' = [callers EXCEPT ![k] = [pc |-> "begun", cmd |-> c, content |-> content]]
  /\ UNCHANGED <<world, floor, rows, watermark, messages, pass, applied, collected, first, last>>

\* send_message: the message row is written once, found by its id afterwards,
\* and refuses other content.
SendMessage(k) ==
  LET c == callers[k].cmd IN
  /\ callers[k].pc = "begun"
  /\ \/ /\ messages[c] = NoRow
        /\ Commits(c)
        /\ messages' = [messages EXCEPT ![c] = callers[k].content]
        /\ callers' = [callers EXCEPT ![k].pc = "sent"]
        /\ UNCHANGED last
     \/ /\ messages[c] = callers[k].content
        /\ callers' = [callers EXCEPT ![k].pc = "sent"]
        /\ UNCHANGED <<applied, first, messages, last>>
     \/ /\ messages[c] \notin {NoRow, callers[k].content}
        /\ Answer(c, "Conflict", NoRow)
        /\ callers' = [callers EXCEPT ![k] = Idle]
        /\ UNCHANGED <<applied, first, messages>>
  /\ UNCHANGED <<world, floor, rows, watermark, pass, collected>>

SendFinish(k) ==
  LET c == callers[k].cmd IN
  /\ callers[k].pc = "sent"
  /\ Finish(Number[c])
  /\ Answer(c, "Fresh", version)
  /\ callers' = [callers EXCEPT ![k] = Idle]
  /\ UNCHANGED <<world, floor, rows, messages, pass, applied, collected, first>>

\* The connection closes or the server stops between two transactions.
SendDropped(k) ==
  /\ callers[k] # Idle
  /\ callers' = [callers EXCEPT ![k] = Idle]
  /\ UNCHANGED <<world, floor, rows, watermark, messages, pass, applied, collected, first, last>>

-----------------------------------------------------------------------------
(* The retention pass.                                                      *)

DueAt(now) == {c \in Commands : rows[c] # NoRow /\ rows[c].created <= now - TTL}

\* Mutant of PassStart: a row exactly at the cutoff is not due.
PassStartStrict ==
  /\ pass.pc = "idle" /\ DueAt(clock - 1) # {}
  /\ pass' = [pc |-> "gc", now |-> clock]
  /\ UNCHANGED <<world, floor, rows, watermark, messages, callers, applied, collected, first, last>>

\* run_pass reads the clock once and looks for an expired row.
PassStart ==
  /\ pass.pc = "idle" /\ DueAt(clock) # {}
  /\ pass' = [pc |-> "gc", now |-> clock]
  /\ UNCHANGED <<world, floor, rows, watermark, messages, callers, applied, collected, first, last>>

\* The rows one gc transaction deletes: the oldest, at most Batch of them.
Oldest(due, D) ==
  /\ D \subseteq due
  /\ Cardinality(D) = IF Cardinality(due) < Batch THEN Cardinality(due) ELSE Batch
  /\ \A c \in D, d \in due \ D : rows[c].created <= rows[d].created

Collect(D) ==
  /\ rows' = [c \in Commands |-> IF c \in D THEN NoRow ELSE rows[c]]
  /\ collected' = [c \in Commands |-> collected[c] + IF c \in D THEN 1 ELSE 0]
  /\ pass' = IF Cardinality(D) < Batch THEN [pc |-> "idle", now |-> 1] ELSE pass

\* Mutant of Gc: the rows go and the floor stays, so that only the clock remembers.
GcKeepsFloor ==
  /\ pass.pc = "gc"
  /\ \E D \in SUBSET DueAt(pass.now) : Oldest(DueAt(pass.now), D) /\ Collect(D)
  /\ UNCHANGED <<world, floor, watermark, messages, callers, applied, first, last>>

\* gc: the floor advances with the deletion, and a full batch is followed by
\* another.
Gc ==
  /\ pass.pc = "gc"
  /\ \E D \in SUBSET DueAt(pass.now) : Oldest(DueAt(pass.now), D) /\ Collect(D)
  /\ floor' = Larger(pass.now - TTL, floor)
  /\ UNCHANGED <<world, watermark, messages, callers, applied, first, last>>

\* Shutdown, a restart or a failed transaction between two batches.
PassStops ==
  /\ pass.pc = "gc"
  /\ pass' = [pc |-> "idle", now |-> 1]
  /\ UNCHANGED <<world, floor, rows, watermark, messages, callers, applied, collected, first, last>>

-----------------------------------------------------------------------------
(* The environment: the wall clock, and other changes of the entity.        *)

ClockJumps ==
  /\ clock' \in Times \ {clock}
  /\ UNCHANGED <<floor, rows, watermark, messages, version, issued, callers, pass,
                 applied, collected, first, last>>

EntityChanges ==
  /\ version < MaxVersion
  /\ version' = version + 1
  /\ UNCHANGED <<clock, floor, rows, watermark, messages, issued, callers, pass,
                 applied, collected, first, last>>

Next ==
  \/ \E c \in Commands, content \in Contents :
       \/ Refuse(c, content) \/ ExecuteSync(c, content) \/ ReplaySync(c, content)
       \/ AgentSend(c, content)
       \/ \E k \in Callers : SendBegin(k, c, content)
  \/ \E k \in Callers : SendMessage(k) \/ SendFinish(k) \/ SendDropped(k)
  \/ PassStart \/ Gc \/ PassStops
  \/ ClockJumps \/ EntityChanges

Spec == Init /\ [][Next]_vars

\* The pass runs every hour while the server is up, and not every pass is shut
\* down before its next batch.
Fairness == WF_vars(PassStart) /\ SF_vars(Gc)

FairSpec == Spec /\ Fairness

-----------------------------------------------------------------------------
(* Properties.                                                              *)

\* A command of a device, an owner or a peer changes the state at most once,
\* across repeats, two callers, a crash between the message and finish, garbage
\* collection of its row and a clock that jumps; an agent's command runs again
\* only when its row has outlived the replay window.
AppliedOnce ==
  \A c \in Commands :
    applied[c] <= 1 + IF c \in Trusted \ Sends THEN collected[c] ELSE 0

\* A repeated withdraw or stop is answered with the reference of its first run,
\* however much its entity has changed since.
RepeatGetsFirstReference ==
  \A c \in Commands \ Trusted :
    c \notin Sends /\ last.cmd = c /\ last.verdict \in {"Fresh", "Replay"}
      => last.ref = first[c]

\* A command is never forgotten inside the replay window: while its id is not
\* expired, an applied withdraw or stop still has its row.
RememberedInWindow ==
  \A c \in Commands \ (Sends \cup Trusted) :
    applied[c] > 0 /\ issued[c] > Larger(clock - TTL, floor) => rows[c] # NoRow

\* The other way round: a withdraw or stop that is refused as merely expired was
\* never applied, so a client may tell the two refusals apart.
ExpiredNotApplied ==
  \A c \in Commands \ (Sends \cup Trusted) :
    last.cmd = c /\ last.verdict = "Expired" => applied[c] = 0

\* "the command was applied once": what the refusal TooOld tells the caller.
TooOldWasApplied == last.verdict = "TooOld" => applied[last.cmd] > 0

\* Every expired row is collected, unless the clock is set back before.
ExpiredCollected ==
  \A c \in Commands : c \in DueAt(clock) ~> c \notin DueAt(clock)
=============================================================================
