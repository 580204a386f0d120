------------------------- MODULE CommandPathProofs -------------------------
(***************************************************************************)
(* The safety properties of CommandPath for every set of commands, every   *)
(* window and every clock.                                                 *)
(*                                                                         *)
(* The argument.  What an applied withdraw or stop leaves behind is either *)
(* its row, created at the id's own issue time, or a floor at or past that *)
(* time: gc raises the floor to the cutoff in the transaction that deletes *)
(* the row, and never lowers it.  Both refuse the id.  A send leaves its   *)
(* message, and a trusted command its row until it is collected.           *)
(***************************************************************************)
EXTENDS CommandPath, FiniteSetTheorems, TLAPS

\* A withdraw or stop of a client: never run, or run once and remembered.
Remembered(c) ==
  \/ applied[c] = 0 /\ rows[c] = NoRow /\ first[c] = NoRow
  \/ /\ applied[c] = 1 /\ first[c] \in References /\ Number[c] <= watermark
     /\ rows[c] # NoRow => rows[c].created = issued[c] /\ rows[c].ref = first[c]
     /\ rows[c] = NoRow => issued[c] <= floor

\* A withdraw or stop of an agent: every collected row allows one more run.
Counted(c) == applied[c] = collected[c] + IF rows[c] = NoRow THEN 0 ELSE 1

\* A send: its message is its receipt, and it never has a row.
Received(c) ==
  /\ rows[c] = NoRow
  /\ applied[c] = IF messages[c] = NoRow THEN 0 ELSE 1

ReceiptInv ==
  \A c \in Commands :
    /\ c \notin Sends /\ c \notin Trusted => Remembered(c)
    /\ c \notin Sends /\ c \in Trusted => Counted(c)
    /\ c \in Sends => Received(c)

IInv == TypeOK /\ ReceiptInv /\ RepeatGetsFirstReference /\ ExpiredNotApplied

-----------------------------------------------------------------------------
(* begin.                                                                   *)

\* The larger of two integers is one of them and bounds both.
LEMMA LargerType ==
  ASSUME NEW a \in Int, NEW b \in Int
  PROVE  /\ Larger(a, b) \in Int /\ Larger(a, b) >= a /\ Larger(a, b) >= b
         /\ Larger(a, b) \in {a, b}
  BY DEF Larger

\* A client's withdraw or stop begins fresh only when it never ran, and what
\* begin replays or refuses as expired agrees with its receipt.
LEMMA BeginAgrees ==
  ASSUME IInv, NEW c \in Commands \ (Sends \cup Trusted), NEW content \in Contents
  PROVE  /\ BeginVerdict(c, content) = "Fresh" => applied[c] = 0
         /\ BeginVerdict(c, content) = "Replay" => rows[c] # NoRow /\ rows[c].ref = first[c]
         /\ BeginVerdict(c, content) = "Expired" => applied[c] = 0
<1> DEFINE w == clock - TTL
<1>1. /\ issued[c] \in Int /\ floor \in Int /\ w \in Int /\ clock \in Int /\ Skew \in Int
      /\ watermark \in Int /\ Number[c] \in Int
  BY NumberAssumption, TimesAssumption DEF IInv, TypeOK, Times
<1>2. IssuedAt(c) = issued[c] /\ NumberOf(c) = Number[c] /\ IdentityFloor(c) = Larger(w, floor)
  BY DEF IssuedAt, NumberOf, IdentityFloor
<1>3. IdentityFloor(c) \in Int /\ IdentityFloor(c) >= w /\ IdentityFloor(c) >= floor
  BY <1>1, <1>2, LargerType
<1>4. Remembered(c)
  BY DEF IInv, ReceiptInv
<1>5. CASE issued[c] <= IdentityFloor(c)
  <2>1. BeginVerdict(c, content) = IF Number[c] <= watermark THEN "TooOld" ELSE "Expired"
    BY <1>1, <1>2, <1>3, <1>5 DEF BeginVerdict
  <2> QED BY <2>1, <1>4, <1>1 DEF Remembered
<1>6. CASE issued[c] > IdentityFloor(c) /\ issued[c] > clock + Skew
  BY <1>1, <1>2, <1>3, <1>6 DEF BeginVerdict
<1>7. CASE issued[c] > IdentityFloor(c) /\ issued[c] <= clock + Skew
  <2>1. CASE rows[c] = NoRow
    <3>1. BeginVerdict(c, content) = "Fresh"
      BY <1>1, <1>2, <1>3, <1>7, <2>1 DEF BeginVerdict
    <3> QED BY <3>1, <1>1, <1>3, <1>4, <1>7, <2>1 DEF Remembered
  <2>2. CASE rows[c] # NoRow
    <3>1. rows[c].created = issued[c] /\ rows[c].ref = first[c] /\ applied[c] = 1
      BY <2>2, <1>4 DEF Remembered
    <3>2. BeginVerdict(c, content) = IF rows[c].content # content THEN "Conflict" ELSE "Replay"
      BY <1>1, <1>2, <1>3, <1>7, <2>2, <3>1 DEF BeginVerdict
    <3> QED BY <3>1, <3>2, <2>2
  <2> QED BY <2>1, <2>2
<1> QED BY <1>1, <1>3, <1>5, <1>6, <1>7

\* A withdraw or stop begins fresh only when it has no row.
LEMMA FreshHasNoRow ==
  ASSUME IInv, NEW c \in Commands \ Sends, NEW content \in Contents,
         BeginVerdict(c, content) = "Fresh"
  PROVE  rows[c] = NoRow
<1>1. IssuedAt(c) \in Int /\ IdentityFloor(c) \in Int /\ NumberOf(c) \in Int /\ watermark \in Int
      /\ clock + Skew \in Int
  BY LargerType, NumberAssumption, TimesAssumption
     DEF IInv, TypeOK, Times, IssuedAt, IdentityFloor, NumberOf, Larger
<1> QED BY <1>1 DEF BeginVerdict

-----------------------------------------------------------------------------
(* The steps.                                                               *)

\* An empty database satisfies the inductive invariant: nothing was applied.
LEMMA InitIInv == Init => IInv
<1> SUFFICES ASSUME Init PROVE IInv
  OBVIOUS
<1>1. TypeOK
  BY TimesAssumption, BoundsAssumption DEF Init, TypeOK, Times, References, Idle, Verdict
<1>2. ReceiptInv
  BY DEF Init, ReceiptInv, Remembered, Counted, Received
<1>3. RepeatGetsFirstReference /\ ExpiredNotApplied
  BY DEF Init, RepeatGetsFirstReference, ExpiredNotApplied
<1> QED BY <1>1, <1>2, <1>3 DEF IInv

\* CommandWatermarks::advance keeps the watermark a number and never lowers it.
LEMMA FinishType ==
  ASSUME TypeOK, NEW n \in Nat, Finish(n)
  PROVE  watermark' \in Nat /\ watermark' >= watermark /\ watermark' >= n
  BY LargerType DEF TypeOK, Finish, Larger

\* A command always has a number and an issue time, whoever gave them.
LEMMA NumberType ==
  ASSUME TypeOK, NEW c \in Commands
  PROVE  NumberOf(c) \in Nat /\ IssuedAt(c) \in Times
  BY NumberAssumption DEF TypeOK, NumberOf, IssuedAt

\* A refusal and a replay write nothing: only the answer changes, and it is right.
LEMMA AnswerStep ==
  ASSUME IInv, NEW c \in Commands, NEW content \in Contents,
         Refuse(c, content) \/ ReplaySync(c, content)
  PROVE  IInv'
<1>1. UNCHANGED <<clock, floor, rows, watermark, messages, version, issued, callers, pass,
                  applied, collected, first>>
  BY DEF Refuse, ReplaySync, world
<1>2. ReceiptInv'
  BY <1>1 DEF IInv, ReceiptInv, Remembered, Counted, Received
<1> DEFINE v == BeginVerdict(c, content)
<1>3. v \in Verdict
  BY DEF BeginVerdict, Verdict
<1>4. CASE Refuse(c, content)
  <2>1. PICK u \in Verdict : /\ last' = [cmd |-> c, verdict |-> u, ref |-> NoRow]
                             /\ u \notin {"Fresh", "Replay"}
                             /\ u = "Expired" => v = "Expired"
    BY <1>3, <1>4 DEF Refuse, Answer, Verdict
  <2>2. TypeOK'
    BY <1>1, <2>1 DEF IInv, TypeOK
  <2>3. RepeatGetsFirstReference'
    BY <2>1 DEF RepeatGetsFirstReference
  <2>4. c \notin Sends /\ c \notin Trusted /\ v = "Expired" => applied[c] = 0
    BY BeginAgrees
  <2>5. ExpiredNotApplied'
    BY <1>1, <2>1, <2>4 DEF ExpiredNotApplied
  <2> QED BY <1>2, <2>2, <2>3, <2>5 DEF IInv
<1>5. CASE ReplaySync(c, content)
  <2>1. last' = [cmd |-> c, verdict |-> "Replay", ref |-> rows[c].ref] /\ v = "Replay"
        /\ c \notin Sends
    BY <1>5 DEF ReplaySync, Answer
  <2>2. rows[c] # NoRow
    BY <2>1 DEF BeginVerdict
  <2>3. rows[c].ref \in References
    BY <2>2 DEF IInv, TypeOK, Row
  <2>4. TypeOK'
    BY <1>1, <2>1, <2>3 DEF IInv, TypeOK, Verdict
  <2>5. c \notin Trusted => rows[c].ref = first[c]
    BY <2>1, BeginAgrees
  <2>6. RepeatGetsFirstReference' /\ ExpiredNotApplied'
    BY <1>1, <2>1, <2>5 DEF RepeatGetsFirstReference, ExpiredNotApplied
  <2> QED BY <1>2, <2>4, <2>6 DEF IInv
<1> QED BY <1>4, <1>5

\* A withdraw or stop in one transaction: change, row and watermark agree again.
LEMMA ExecuteStep ==
  ASSUME IInv, NEW c \in Commands, NEW content \in Contents, ExecuteSync(c, content)
  PROVE  IInv'
<1>1. /\ c \notin Sends
      /\ BeginVerdict(c, content) = "Fresh"
      /\ applied' = [applied EXCEPT ![c] = @ + 1]
      /\ first' = [first EXCEPT ![c] = IF @ = NoRow THEN version ELSE @]
      /\ rows' = [rows EXCEPT ![c] = [content |-> content, created |-> IssuedAt(c),
                                      ref |-> version]]
      /\ last' = [cmd |-> c, verdict |-> "Fresh", ref |-> version]
      /\ UNCHANGED <<clock, floor, messages, version, issued, callers, pass, collected>>
  BY DEF ExecuteSync, Commits, SettleReference, Answer, world
<1>2. watermark' \in Nat /\ watermark' >= watermark /\ watermark' >= NumberOf(c)
  BY FinishType, NumberType DEF ExecuteSync, IInv
<1>3. rows[c] = NoRow
  BY <1>1, FreshHasNoRow
<1>4. IssuedAt(c) \in Times /\ version \in References /\ applied[c] \in Nat
  BY NumberType DEF IInv, TypeOK
<1>5. TypeOK'
  <2>1. [content |-> content, created |-> IssuedAt(c), ref |-> version] \in Row
    BY <1>4 DEF Row
  <2> QED BY <1>1, <1>2, <1>4, <2>1 DEF IInv, TypeOK, Verdict
<1>6. rows'[c] # NoRow /\ rows'[c].created = IssuedAt(c) /\ rows'[c].ref = version
  BY <1>1, <1>4, NoRowAssumption DEF IInv, TypeOK, Row
<1>7. ReceiptInv'
  <2> SUFFICES ASSUME NEW d \in Commands
               PROVE  /\ d \notin Sends /\ d \notin Trusted => Remembered(d)'
                      /\ d \notin Sends /\ d \in Trusted => Counted(d)'
                      /\ d \in Sends => Received(d)'
    BY DEF ReceiptInv
  <2>1. CASE d # c
    <3>1. rows'[d] = rows[d] /\ applied'[d] = applied[d] /\ first'[d] = first[d]
      BY <1>1, <2>1 DEF IInv, TypeOK
    <3>2. Number[d] \in Nat /\ watermark \in Nat
      BY NumberAssumption DEF IInv, TypeOK
    <3> QED BY <3>1, <3>2, <1>1, <1>2 DEF IInv, ReceiptInv, Remembered, Counted, Received
  <2>2. CASE d = c /\ c \notin Trusted
    <3>1. applied[c] = 0
      BY <1>1, <2>2, BeginAgrees
    <3>2. first[c] = NoRow
      BY <1>1, <3>1, <2>2 DEF IInv, ReceiptInv, Remembered
    <3>3. applied'[c] = 1 /\ first'[c] = version
      BY <1>1, <3>1, <3>2 DEF IInv, TypeOK
    <3>4. IssuedAt(c) = issued'[c] /\ NumberOf(c) = Number[c]
      BY <1>1, <2>2 DEF IssuedAt, NumberOf
    <3>5. Remembered(c)'
      BY <3>3, <3>4, <1>2, <1>4, <1>6 DEF Remembered
    <3> QED BY <3>5, <2>2, <1>1
  <2>3. CASE d = c /\ c \in Trusted
    <3>1. applied[c] = collected[c] /\ collected[c] \in Nat
      BY <1>1, <1>3, <2>3 DEF IInv, TypeOK, ReceiptInv, Counted
    <3>2. applied'[c] = collected'[c] + 1
      BY <1>1, <3>1 DEF IInv, TypeOK
    <3>3. Counted(c)'
      BY <3>2, <1>6 DEF Counted
    <3> QED BY <3>3, <2>3, <1>1
  <2> QED BY <2>1, <2>2, <2>3
<1>8. RepeatGetsFirstReference' /\ ExpiredNotApplied'
  <2>1. c \notin Trusted => first'[c] = version
    <3>1. c \notin Trusted => applied[c] = 0
      BY <1>1, BeginAgrees
    <3>2. c \notin Trusted => first[c] = NoRow
      BY <1>1, <3>1 DEF IInv, ReceiptInv, Remembered
    <3> QED BY <1>1, <3>2 DEF IInv, TypeOK
  <2> QED BY <1>1, <2>1 DEF RepeatGetsFirstReference, ExpiredNotApplied
<1> QED BY <1>5, <1>7, <1>8 DEF IInv

\* A step that leaves every withdraw and stop alone and keeps a send's count equal
\* to its message keeps the receipts.
LEMMA SendsOnly ==
  ASSUME IInv, UNCHANGED <<rows, floor, issued, collected>>,
         watermark \in Nat, watermark' \in Nat, watermark' >= watermark,
         \A d \in Commands \ Sends : applied'[d] = applied[d] /\ first'[d] = first[d],
         \A d \in Sends : Received(d) => Received(d)'
  PROVE  ReceiptInv'
<1> SUFFICES ASSUME NEW d \in Commands
             PROVE  /\ d \notin Sends /\ d \notin Trusted => Remembered(d)'
                    /\ d \notin Sends /\ d \in Trusted => Counted(d)'
                    /\ d \in Sends => Received(d)'
  BY DEF ReceiptInv
<1>1. Number[d] \in Nat
  BY NumberAssumption
<1> QED BY <1>1 DEF IInv, ReceiptInv, Remembered, Counted

\* An agent's send writes its message at most once, repeats included.
LEMMA AgentSendStep ==
  ASSUME IInv, NEW c \in Commands, NEW content \in Contents, AgentSend(c, content)
  PROVE  IInv'
<1>1. /\ c \in Sends
      /\ messages[c] \in {NoRow, content}
      /\ last' = [cmd |-> c, verdict |-> "Fresh", ref |-> version]
      /\ UNCHANGED <<clock, floor, rows, version, issued, callers, pass, collected>>
  BY DEF AgentSend, Answer, world
<1>2. watermark' \in Nat /\ watermark' >= watermark /\ watermark \in Nat
  BY FinishType, NumberType DEF AgentSend, IInv, TypeOK
<1>3. \/ /\ messages[c] = NoRow
         /\ applied' = [applied EXCEPT ![c] = @ + 1]
         /\ first' = [first EXCEPT ![c] = IF @ = NoRow THEN version ELSE @]
         /\ messages' = [messages EXCEPT ![c] = content]
      \/ UNCHANGED <<applied, first, messages>>
  BY DEF AgentSend, Commits
<1>4. TypeOK'
  BY <1>1, <1>2, <1>3 DEF IInv, TypeOK, Verdict
<1>5. \A d \in Commands \ Sends : applied'[d] = applied[d] /\ first'[d] = first[d]
  BY <1>1, <1>3 DEF IInv, TypeOK
<1>6. \A d \in Sends : Received(d) => Received(d)'
  BY <1>1, <1>3, NoRowAssumption, CommandSets DEF Received, IInv, TypeOK
<1>7. ReceiptInv'
  BY <1>1, <1>2, <1>5, <1>6, SendsOnly
<1>8. RepeatGetsFirstReference' /\ ExpiredNotApplied'
  BY <1>1 DEF RepeatGetsFirstReference, ExpiredNotApplied
<1> QED BY <1>4, <1>7, <1>8 DEF IInv

\* The three transactions of a send over HTTP, interleaved with another caller's.
LEMMA SendStep ==
  ASSUME IInv,
         \/ \E k \in Callers, c \in Commands, content \in Contents : SendBegin(k, c, content)
         \/ \E k \in Callers : SendMessage(k) \/ SendFinish(k) \/ SendDropped(k)
  PROVE  IInv'
<1>1. CASE \E k \in Callers, c \in Commands, content \in Contents : SendBegin(k, c, content)
  <2>1. PICK k \in Callers, c \in Commands, content \in Contents : SendBegin(k, c, content)
    BY <1>1
  <2>2. UNCHANGED <<clock, floor, rows, watermark, messages, version, issued, pass,
                    applied, collected, first, last>>
    BY <2>1 DEF SendBegin, world
  <2>3. callers' = [callers EXCEPT ![k] = [pc |-> "begun", cmd |-> c, content |-> content]]
        /\ c \in Sends
    BY <2>1 DEF SendBegin
  <2>4. TypeOK'
    BY <2>2, <2>3 DEF IInv, TypeOK
  <2> QED BY <2>2, <2>4 DEF IInv, ReceiptInv, Remembered, Counted, Received,
            RepeatGetsFirstReference, ExpiredNotApplied
<1>2. CASE \E k \in Callers : SendDropped(k)
  <2>1. PICK k \in Callers : SendDropped(k)
    BY <1>2
  <2>2. UNCHANGED <<clock, floor, rows, watermark, messages, version, issued, pass,
                    applied, collected, first, last>>
    BY <2>1 DEF SendDropped, world
  <2>3. TypeOK'
    BY <2>1, <2>2 DEF SendDropped, IInv, TypeOK
  <2> QED BY <2>2, <2>3 DEF IInv, ReceiptInv, Remembered, Counted, Received,
            RepeatGetsFirstReference, ExpiredNotApplied
<1>3. CASE \E k \in Callers : SendFinish(k)
  <2>1. PICK k \in Callers : SendFinish(k)
    BY <1>3
  <2> DEFINE c == callers[k].cmd
  <2>2. c \in Sends /\ c \in Commands /\ Number[c] \in Nat
    BY <2>1, CommandSets, NumberAssumption DEF SendFinish, IInv, TypeOK, Idle
  <2>3. /\ last' = [cmd |-> c, verdict |-> "Fresh", ref |-> version]
        /\ callers' = [callers EXCEPT ![k] = Idle]
        /\ Finish(Number[c])
        /\ UNCHANGED <<clock, floor, rows, messages, version, issued, pass,
                       applied, collected, first>>
    BY <2>1 DEF SendFinish, Answer, world
  <2> HIDE DEF c
  <2>4. watermark' \in Nat /\ watermark' >= watermark /\ watermark \in Nat
    BY <2>2, <2>3, FinishType DEF IInv, TypeOK
  <2>5. TypeOK'
    BY <2>2, <2>3, <2>4 DEF IInv, TypeOK, Verdict
  <2>6. ReceiptInv'
    BY <2>3, <2>4, SendsOnly DEF Received
  <2>7. RepeatGetsFirstReference' /\ ExpiredNotApplied'
    BY <2>2, <2>3 DEF RepeatGetsFirstReference, ExpiredNotApplied
  <2> QED BY <2>5, <2>6, <2>7 DEF IInv
<1>4. CASE \E k \in Callers : SendMessage(k)
  <2>1. PICK k \in Callers : SendMessage(k)
    BY <1>4
  <2> DEFINE c == callers[k].cmd
             m == callers[k].content
  <2>2. c \in Sends /\ c \in Commands /\ m \in Contents
        /\ callers[k] \in [pc: {"begun", "sent"}, cmd: Sends, content: Contents]
    BY <2>1, CommandSets DEF SendMessage, IInv, TypeOK, Idle
  <2>3. UNCHANGED <<clock, floor, rows, watermark, version, issued, pass, collected>>
    BY <2>1 DEF SendMessage, world
  <2>4. \/ /\ messages[c] = NoRow
           /\ applied' = [applied EXCEPT ![c] = @ + 1]
           /\ first' = [first EXCEPT ![c] = IF @ = NoRow THEN version ELSE @]
           /\ messages' = [messages EXCEPT ![c] = m]
        \/ UNCHANGED <<applied, first, messages>>
    BY <2>1 DEF SendMessage, Commits
  <2>5. \/ last' = last /\ callers' = [callers EXCEPT ![k].pc = "sent"]
        \/ /\ last' = [cmd |-> c, verdict |-> "Conflict", ref |-> NoRow]
           /\ callers' = [callers EXCEPT ![k] = Idle]
    BY <2>1 DEF SendMessage, Answer
  <2>6. callers' \in [Callers -> {Idle} \cup [pc: {"begun", "sent"}, cmd: Sends, content: Contents]]
    <3>1. [callers[k] EXCEPT !.pc = "sent"] \in [pc: {"begun", "sent"}, cmd: Sends, content: Contents]
      BY <2>2
    <3> QED BY <2>5, <3>1 DEF IInv, TypeOK
  <2> HIDE DEF c, m
  <2>7. TypeOK'
    BY <2>2, <2>3, <2>4, <2>5, <2>6 DEF IInv, TypeOK, Verdict
  <2>8. \A d \in Commands \ Sends : applied'[d] = applied[d] /\ first'[d] = first[d]
    BY <2>2, <2>4 DEF IInv, TypeOK
  <2>9. \A d \in Sends : Received(d) => Received(d)'
    BY <2>2, <2>3, <2>4, NoRowAssumption, CommandSets DEF Received, IInv, TypeOK
  <2>10. watermark \in Nat /\ watermark' \in Nat /\ watermark' >= watermark
    BY <2>3 DEF IInv, TypeOK
  <2>11. ReceiptInv'
    BY <2>3, <2>8, <2>9, <2>10, SendsOnly
  <2>12. RepeatGetsFirstReference' /\ ExpiredNotApplied'
    BY <2>2, <2>5, <2>8 DEF IInv, RepeatGetsFirstReference, ExpiredNotApplied
  <2> QED BY <2>7, <2>11, <2>12 DEF IInv
<1> QED BY <1>1, <1>2, <1>3, <1>4

\* The floor reaches the issue time of every row that gc deletes.
LEMMA GcStep == IInv /\ Gc => IInv'
<1> SUFFICES ASSUME IInv, Gc PROVE IInv'
  OBVIOUS
<1> DEFINE cutoff == pass.now - TTL
<1>1. PICK D \in SUBSET DueAt(pass.now) : Collect(D)
  BY DEF Gc
<1>2. /\ floor' = Larger(cutoff, floor)
      /\ UNCHANGED <<clock, watermark, messages, version, issued, callers, applied, first, last>>
  BY DEF Gc, world
<1>3. pass.now \in Times /\ cutoff \in Int /\ cutoff <= MaxTime /\ floor \in 0..MaxTime
  BY TimesAssumption DEF Gc, IInv, TypeOK, Times
<1>4. floor' \in 0..MaxTime /\ floor' >= floor /\ floor' >= cutoff
  BY <1>2, <1>3, TimesAssumption DEF Larger
<1>5. /\ rows' = [c \in Commands |-> IF c \in D THEN NoRow ELSE rows[c]]
      /\ collected' = [c \in Commands |-> collected[c] + IF c \in D THEN 1 ELSE 0]
      /\ pass' \in {[pc |-> "idle", now |-> 1], pass}
  BY <1>1 DEF Collect
<1>6. TypeOK'
  BY <1>2, <1>4, <1>5 DEF IInv, TypeOK
<1>7. \A c \in D : c \in Commands /\ rows[c] # NoRow /\ rows[c].created <= cutoff
  BY DEF DueAt
<1>8. ReceiptInv'
  <2> SUFFICES ASSUME NEW d \in Commands
               PROVE  /\ d \notin Sends /\ d \notin Trusted => Remembered(d)'
                      /\ d \notin Sends /\ d \in Trusted => Counted(d)'
                      /\ d \in Sends => Received(d)'
    BY DEF ReceiptInv
  <2>0. (d \notin Trusted => issued[d] \in Int) /\ floor \in Int /\ floor' \in Int /\ collected[d] \in Nat
    BY <1>3, <1>4, TimesAssumption DEF IInv, TypeOK, Times
  <2>1. CASE d \notin D
    <3>1. rows'[d] = rows[d] /\ collected'[d] = collected[d]
      BY <1>5, <2>0, <2>1
    <3> QED BY <2>0, <3>1, <1>2, <1>4 DEF IInv, ReceiptInv, Remembered, Counted, Received
  <2>2. CASE d \in D
    <3>1. rows'[d] = NoRow /\ collected'[d] = collected[d] + 1
      BY <1>5, <2>2
    <3>2. rows[d] # NoRow /\ rows[d].created <= cutoff
      BY <1>7, <2>2
    <3>3. d \notin Sends
      BY <3>2 DEF IInv, ReceiptInv, Received
    <3>4. d \notin Trusted => Remembered(d)'
      <4>1. d \notin Trusted => /\ applied[d] = 1 /\ first[d] \in References
                                /\ Number[d] <= watermark /\ rows[d].created = issued[d]
        BY <3>2, <3>3 DEF IInv, ReceiptInv, Remembered
      <4>2. d \notin Trusted => issued[d] <= floor'
        BY <4>1, <3>2, <1>3, <1>4, <2>0
      <4> QED BY <4>1, <4>2, <3>1, <1>2 DEF Remembered
    <3>5. d \in Trusted => Counted(d)'
      BY <3>1, <3>2, <3>3, <2>0, <1>2 DEF IInv, ReceiptInv, Counted
    <3> QED BY <3>3, <3>4, <3>5
  <2> QED BY <2>1, <2>2
<1>9. RepeatGetsFirstReference' /\ ExpiredNotApplied'
  BY <1>2 DEF IInv, RepeatGetsFirstReference, ExpiredNotApplied
<1> QED BY <1>6, <1>8, <1>9 DEF IInv

\* The start and stop of a pass, the clock and foreign changes keep the invariant.
LEMMA OtherStep ==
  IInv /\ (PassStart \/ PassStops \/ ClockJumps \/ EntityChanges \/ UNCHANGED vars) => IInv'
<1> SUFFICES ASSUME IInv, PassStart \/ PassStops \/ ClockJumps \/ EntityChanges \/ UNCHANGED vars
             PROVE  IInv'
  OBVIOUS
<1>1. UNCHANGED <<floor, rows, watermark, messages, issued, callers, applied, collected,
                  first, last>>
  BY DEF PassStart, PassStops, ClockJumps, EntityChanges, vars, world
<1>2. clock' \in Times /\ version' \in References
  BY BoundsAssumption
     DEF IInv, TypeOK, PassStart, PassStops, ClockJumps, EntityChanges, vars, world, References
<1>3. pass' \in [pc: {"idle"}, now: {1}] \cup [pc: {"gc"}, now: Times]
  BY DEF IInv, TypeOK, PassStart, PassStops, ClockJumps, EntityChanges, vars
<1>4. TypeOK'
  BY <1>1, <1>2, <1>3 DEF IInv, TypeOK
<1>5. ReceiptInv'
  BY <1>1 DEF IInv, ReceiptInv, Remembered, Counted, Received
<1>6. RepeatGetsFirstReference' /\ ExpiredNotApplied'
  BY <1>1 DEF IInv, RepeatGetsFirstReference, ExpiredNotApplied
<1> QED BY <1>4, <1>5, <1>6 DEF IInv

\* Every step of the command path preserves the inductive invariant.
LEMMA NextIInv == IInv /\ [Next]_vars => IInv'
<1> SUFFICES ASSUME IInv, [Next]_vars PROVE IInv'
  OBVIOUS
<1>1. ASSUME NEW c \in Commands, NEW content \in Contents,
             Refuse(c, content) \/ ExecuteSync(c, content) \/ ReplaySync(c, content)
             \/ AgentSend(c, content)
      PROVE  IInv'
  BY <1>1, AnswerStep, ExecuteStep, AgentSendStep
<1> QED BY <1>1, SendStep, GcStep, OtherStep DEF Next

-----------------------------------------------------------------------------
(* The theorems.                                                            *)

\* The inductive invariant holds in every reachable state of the command path.
THEOREM CommandInvariant == Spec => []IInv
  BY InitIInv, NextIInv, PTL DEF Spec

\* Every stored row, message and pass is well formed.
THEOREM CommandTypes == Spec => []TypeOK
<1>1. IInv => TypeOK
  BY DEF IInv
<1> QED BY <1>1, CommandInvariant, PTL

\* A command is applied at most once, whatever the clock does and whenever its
\* row is collected.
THEOREM CommandsApplyOnce == Spec => []AppliedOnce
<1>1. IInv => AppliedOnce
  <2> SUFFICES ASSUME IInv, NEW c \in Commands
               PROVE  applied[c] <= 1 + IF c \in Trusted \ Sends THEN collected[c] ELSE 0
    BY DEF AppliedOnce
  <2>1. applied[c] \in Nat /\ collected[c] \in Nat
    BY DEF IInv, TypeOK
  <2> QED BY <2>1 DEF IInv, ReceiptInv, Remembered, Counted, Received
<1> QED BY <1>1, CommandInvariant, PTL

\* A repeat is answered with the first reference.
THEOREM RepeatsGetFirstReference == Spec => []RepeatGetsFirstReference
<1>1. IInv => RepeatGetsFirstReference
  BY DEF IInv
<1> QED BY <1>1, CommandInvariant, PTL

\* Inside the replay window an applied command still has its row.
THEOREM WindowRemembers == Spec => []RememberedInWindow
<1>1. IInv => RememberedInWindow
  <2> SUFFICES ASSUME IInv, NEW c \in Commands \ (Sends \cup Trusted),
                      applied[c] > 0, issued[c] > Larger(clock - TTL, floor)
               PROVE  rows[c] # NoRow
    BY DEF RememberedInWindow
  <2>1. issued[c] \in Int /\ floor \in Int /\ clock - TTL \in Int
    BY TimesAssumption DEF IInv, TypeOK, Times
  <2>2. issued[c] > floor
    BY <2>1 DEF Larger
  <2> QED BY <2>1, <2>2 DEF IInv, ReceiptInv, Remembered
<1> QED BY <1>1, CommandInvariant, PTL

\* A command refused as merely expired was never applied.
THEOREM ExpiredMeansNotApplied == Spec => []ExpiredNotApplied
<1>1. IInv => ExpiredNotApplied
  BY DEF IInv
<1> QED BY <1>1, CommandInvariant, PTL

-----------------------------------------------------------------------------
(* The retention pass: the part of ExpiredCollected that no fairness helps  *)
(* with.  A pass that runs to its end has missed no row, whatever commands  *)
(* ran between its batches, and no batch before the last is empty.          *)

\* The rows there are.  They are finitely many, of however many commands.
Present == {c \in Commands : rows[c] # NoRow}

\* A batch that ends the pass leaves no row that was due when the pass began; one
\* that does not has deleted a row.
PassStep ==
  Gc => /\ pass'.pc = "idle" =>
             \A c \in Commands : rows'[c] # NoRow => ~(rows'[c].created <= pass.now - TTL)
        /\ pass'.pc = "gc" => \E c \in Commands : rows[c] # NoRow /\ rows'[c] = NoRow

\* A command adds one row at most.
LEMMA PresentStep ==
  ASSUME TypeOK, IsFiniteSet(Present), [Next]_vars
  PROVE  IsFiniteSet(Present')
<1>1. CASE UNCHANGED rows
  BY <1>1 DEF Present
<1>2. ASSUME NEW c \in Commands, NEW content \in Contents, ExecuteSync(c, content)
      PROVE  IsFiniteSet(Present')
  <2>1. rows \in [Commands -> Row \cup {NoRow}] /\ SettleReference(c, content)
    BY <1>2 DEF TypeOK, ExecuteSync
  <2>2. \A d \in Commands \ {c} : rows'[d] = rows[d]
    BY <2>1 DEF SettleReference
  <2>3. Present' \in SUBSET (Present \cup {c})
    BY <2>2 DEF Present
  <2>4. IsFiniteSet(Present \cup {c})
    BY FS_AddElement
  <2> QED
    BY <2>3, <2>4, FS_Subset
<1>3. CASE Gc
  <2>1. \A c \in Commands : rows'[c] # NoRow => rows[c] # NoRow
    BY <1>3 DEF Gc, Collect
  <2>2. Present' \in SUBSET Present
    BY <2>1 DEF Present
  <2> QED
    BY <2>2, FS_Subset
<1>4. ASSUME NEW c \in Commands, NEW content \in Contents,
             \/ Refuse(c, content) \/ ReplaySync(c, content) \/ AgentSend(c, content)
             \/ \E k \in Callers : SendBegin(k, c, content)
      PROVE  UNCHANGED rows
  BY <1>4 DEF Refuse, ReplaySync, AgentSend, SendBegin
<1>5. ASSUME \/ \E k \in Callers : SendMessage(k) \/ SendFinish(k) \/ SendDropped(k)
             \/ PassStart \/ PassStops \/ ClockJumps \/ EntityChanges \/ UNCHANGED vars
      PROVE  UNCHANGED rows
  BY <1>5 DEF SendMessage, SendFinish, SendDropped, PassStart, PassStops, ClockJumps,
     EntityChanges, vars
<1> QED
  BY <1>1, <1>2, <1>3, <1>4, <1>5 DEF Next

\* A batch smaller than the limit is all that was due.
LEMMA GcCollects ==
  ASSUME TypeOK, IsFiniteSet(Present), Gc
  PROVE  PassStep
<1> DEFINE due == DueAt(pass.now)
<1>1. PICK D \in SUBSET due : Oldest(due, D) /\ Collect(D)
  BY DEF Gc
<1>2. due \in SUBSET Present
  BY DEF DueAt, Present
<1>3. IsFiniteSet(due)
  BY <1>2, FS_Subset
<1>4. /\ IsFiniteSet(D) /\ Cardinality(due) \in Nat /\ Cardinality(D) \in Nat
      /\ Cardinality(due) = Cardinality(D) => due = D
  BY <1>1, <1>3, FS_Subset, FS_CardinalityType
<1>5. Cardinality(D) = IF Cardinality(due) < Batch THEN Cardinality(due) ELSE Batch
  BY <1>1 DEF Oldest
<1>6. /\ rows' = [c \in Commands |-> IF c \in D THEN NoRow ELSE rows[c]]
      /\ pass' = IF Cardinality(D) < Batch THEN [pc |-> "idle", now |-> 1] ELSE pass
      /\ pass.pc = "gc"
  BY <1>1 DEF Collect, Gc
<1>7. ASSUME pass'.pc = "idle", NEW c \in Commands, rows'[c] # NoRow
      PROVE  ~(rows'[c].created <= pass.now - TTL)
  <2>1. Cardinality(D) < Batch
    BY <1>6, <1>7
  <2>2. due = D
    BY <1>4, <1>5, <2>1, BoundsAssumption
  <2>3. c \notin D /\ rows'[c] = rows[c]
    BY <1>6, <1>7
  <2> QED
    BY <1>7, <2>2, <2>3 DEF DueAt
<1>8. ASSUME pass'.pc = "gc"
      PROVE  \E c \in Commands : rows[c] # NoRow /\ rows'[c] = NoRow
  <2>1. Cardinality(D) # 0
    BY <1>4, <1>6, <1>8, BoundsAssumption
  <2>2. D # {}
    BY <2>1, FS_EmptySet
  <2>3. PICK c : c \in D
    BY <2>2
  <2>4. c \in Commands /\ rows[c] # NoRow
    BY <1>1, <2>3 DEF DueAt
  <2>5. rows'[c] = NoRow
    BY <1>6, <2>3, <2>4
  <2> QED
    BY <2>4, <2>5
<1> QED
  BY <1>7, <1>8 DEF PassStep

\* A pass that ends has collected every row that was due at its clock reading, and
\* every batch before the last makes progress, for any batch size and any number of
\* rows (run_pass, gc).
THEOREM PassCollects == Spec => [][PassStep]_vars
<1>1. Init => IsFiniteSet(Present)
  <2> SUFFICES ASSUME Init PROVE IsFiniteSet(Present)
    OBVIOUS
  <2>1. Present = {}
    BY DEF Init, Present
  <2> QED
    BY <2>1, FS_EmptySet
<1>2. TypeOK /\ IsFiniteSet(Present) /\ [Next]_vars => IsFiniteSet(Present')
  BY PresentStep
<1>3. Spec => []IsFiniteSet(Present)
  <2> DEFINE Finite == IsFiniteSet(Present)
  <2>1. Init => Finite
    BY <1>1
  <2>2. TypeOK /\ Finite /\ [Next]_vars => Finite'
    BY <1>2 DEF Present
  <2> HIDE DEF Finite
  <2>3. Spec => []Finite
    BY <2>1, <2>2, CommandTypes, PTL DEF Spec
  <2> QED
    BY <2>3 DEF Finite
<1>4. TypeOK /\ IsFiniteSet(Present) /\ [Next]_vars => [PassStep]_vars
  BY GcCollects DEF PassStep
<1> QED
  BY <1>3, <1>4, CommandTypes, PTL DEF Spec
=============================================================================
