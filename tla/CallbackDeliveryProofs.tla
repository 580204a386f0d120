----------------------- MODULE CallbackDeliveryProofs -----------------------
(***************************************************************************)
(* Proofs about CallbackDelivery, for every set of calls and answers and   *)
(* every number of attempts.                                               *)
(*                                                                         *)
(* The argument follows an attempt: it belongs to one call and to at most  *)
(* one frame, a frame that passed begin_frame has the current response or  *)
(* the completed one, and a call that learns "not sent" knows that no      *)
(* frame of its attempt is left.  The lifecycle gate is not used.          *)
(***************************************************************************)
EXTENDS CallbackDelivery, SequenceTheorems, TLAPS

\* The frames past begin_frame, and all frames there are.
Fenced == begun \cup wire \cup Received
Frames == queue \cup Fenced

\* No frame of the attempt x is left anywhere.
Gone(x) == \A f \in Frames : f.attempt # x

\* The response row, the owner and the card agree.
RowInv ==
  /\ row # NoRow =>
       /\ owner.reply = row.attempt /\ card.answer = row.answer
       /\ owner.status # "Completed"
       /\ row.attempt >= 1 /\ row.attempt <= issued
       /\ row.fingerprint => row.status # "Pending"
       /\ row.status = "Pending" =>
            owner.status = "Running" /\ (card.status = "Answering" \/ resolved)
  /\ card.status = "Pending" => row = NoRow /\ owner.status # "Completed"
  /\ card.status = "Answered" => owner.status = "Completed"
  /\ owner.status = "Completed" =>
       \E f \in Received : f.answer = card.answer /\ f.attempt = owner.reply

\* Frames have an attempt each, and one that is fenced its response.
FrameInv ==
  /\ \A f \in Frames : f.attempt >= 1 /\ f.attempt <= issued
  /\ \A f, g \in Frames : f.attempt = g.attempt => f = g
  /\ \A f \in queue : f \notin Fenced
  /\ \A f \in Frames : row # NoRow /\ row.attempt = f.attempt => row.answer = f.answer
  /\ \A f \in Fenced :
       \/ row # NoRow /\ row.attempt = f.attempt /\ row.fingerprint
       \/ owner.status = "Completed" /\ owner.reply = f.attempt
  /\ wire # {} => written = <<>>
  /\ Len(written) <= 1
  /\ \A x \in marked : \E f \in Received : f.attempt = x

\* A call that has not handed its reply over holds the current response.
Owns(p) == calls[p].at \in {"prepared", "ready", "orphan", "port"}


\* Each attempt belongs to one call.
AttemptInv ==
  /\ \A p \in Caller : calls[p].attempt <= issued
  /\ \A p, q \in Caller :
       calls[p].attempt = calls[q].attempt /\ calls[p].attempt # 0 => p = q

OwnsInv ==
  \A p \in Caller : Owns(p) =>
    /\ row # NoRow /\ row.attempt = calls[p].attempt /\ row.answer = calls[p].answer
    /\ Gone(calls[p].attempt)

\* A call that waits, or has a receipt, can believe it.
WaitInv ==
  \A p \in Caller :
    /\ calls[p].at \in {"waiting", "receipt"} =>
         /\ calls[p].attempt # 0
         /\ \A f \in Frames : f.attempt = calls[p].attempt => f.answer = calls[p].answer
    /\ calls[p].at = "receipt" /\ calls[p].outcome = "NotSent" => Gone(calls[p].attempt)
    /\ calls[p].at = "receipt" /\ calls[p].outcome = "Written" =>
         owner.status = "Completed" /\ card.answer = calls[p].answer

\* So can one that has returned.
ToldInv ==
  \A p \in Caller :
    /\ calls[p].told # "nothing" => calls[p].at = "idle"
    /\ calls[p].told = "rejected" => Gone(calls[p].attempt)
    /\ calls[p].told = "answered" =>
         resolved \/ \E f \in Received : f.answer = calls[p].answer

CallInv == AttemptInv /\ OwnsInv /\ WaitInv /\ ToldInv

IInv == TypeOK /\ RowInv /\ FrameInv /\ CallInv

-----------------------------------------------------------------------------
(* The frames the provider has. *)
LEMMA ReceivedType ==
  ASSUME TypeOK
  PROVE  /\ Received \subseteq Frame
         /\ written = <<>> <=> Received = {}
<1>1. \A i \in 1 .. Len(written) : written[i] \in Frame
  BY DEF TypeOK
<1>2. CASE written = <<>>
  BY <1>2 DEF Received
<1>3. CASE written # <<>>
  <2>1. 1 \in 1 .. Len(written)
    BY <1>3 DEF TypeOK
  <2>2. written[1] \in Received
    BY <2>1 DEF Received
  <2> QED
    BY <1>1, <1>3, <2>2 DEF Received
<1> QED
  BY <1>2, <1>3

LEMMA ReceivedSame ==
  ASSUME UNCHANGED written
  PROVE  UNCHANGED Received
BY DEF Received

LEMMA ReceivedMore ==
  ASSUME TypeOK, NEW f \in Frame, written' = Append(written, f)
  PROVE  Received' = Received \cup {f} /\ Len(written') = Len(written) + 1
<1>1. /\ Len(written') = Len(written) + 1
      /\ \A i \in 1 .. Len(written) : written'[i] = written[i]
      /\ written'[Len(written) + 1] = f
  BY DEF TypeOK
<1>2. Len(written) \in Nat
  BY DEF TypeOK
<1>3. Received' = {written'[i] : i \in 1 .. Len(written')}
  BY DEF Received
<1>4. \A i \in 1 .. Len(written') : i \in 1 .. Len(written) \/ i = Len(written) + 1
  BY <1>1, <1>2
<1>5. Received' \subseteq Received \cup {f}
  BY <1>1, <1>3, <1>4 DEF Received
<1>6. Len(written) + 1 \in 1 .. Len(written')
  BY <1>1, <1>2
<1>7. f \in Received'
  BY <1>1, <1>3, <1>6
<1>8. \A i \in 1 .. Len(written) : i \in 1 .. Len(written')
  BY <1>1, <1>2
<1>9. Received \subseteq Received'
  BY <1>1, <1>3, <1>8 DEF Received
<1> QED
  BY <1>1, <1>5, <1>7, <1>9

-----------------------------------------------------------------------------
(* Type correctness. *)
LEMMA BlankType == Blank \in Call
BY DEF Blank, Call, Answer, Outcome

LEMMA CallTypes ==
  ASSUME NEW c \in Call
  PROVE  /\ \A at \in {"ready", "orphan", "port", "waiting"} : [c EXCEPT !.at = at] \in Call
         /\ \A o \in Outcome : [c EXCEPT !.at = "receipt", !.outcome = o] \in Call
         /\ [Blank EXCEPT !.answer = c.answer, !.told = "answered"] \in Call
         /\ [Blank EXCEPT !.attempt = c.attempt, !.told = "rejected"] \in Call
<1>1. \A at \in {"ready", "orphan", "port", "waiting"} : [c EXCEPT !.at = at] \in Call
  BY DEF Call
<1>2. \A o \in Outcome : [c EXCEPT !.at = "receipt", !.outcome = o] \in Call
  BY DEF Call
<1>3. c.answer \in Answer /\ c.attempt \in Nat
  BY DEF Call
<1>4. [Blank EXCEPT !.answer = c.answer, !.told = "answered"] \in Call
  BY <1>3, BlankType DEF Call
<1>5. [Blank EXCEPT !.attempt = c.attempt, !.told = "rejected"] \in Call
  BY <1>3, BlankType DEF Call
<1> QED
  BY <1>1, <1>2, <1>4, <1>5

\* One call changes.
LEMMA CallsType ==
  ASSUME TypeOK, NEW p \in Caller, NEW c \in Call, calls' = [calls EXCEPT ![p] = c]
  PROVE  calls' \in [Caller -> Call]
BY DEF TypeOK

LEMMA ReplyType ==
  ASSUME TypeOK, NEW f \in Frame, NEW o \in Outcome, Reply(f, o)
  PROVE  calls' \in [Caller -> Call] /\ gate' \in Caller \cup {NoOne}
<1>1. CASE Waits(f)
  <2>1. f.caller \in Caller
    BY DEF Frame
  <2>2. calls[f.caller] \in Call
    BY <2>1 DEF TypeOK
  <2>3. [calls[f.caller] EXCEPT !.at = "receipt", !.outcome = o] \in Call
    BY <2>2, CallTypes
  <2>4. /\ calls' = [calls EXCEPT ![f.caller] =
                       [calls[f.caller] EXCEPT !.at = "receipt", !.outcome = o]]
        /\ gate' = NoOne
    BY <1>1 DEF Reply, Receipt
  <2> QED
    BY <2>1, <2>3, <2>4, CallsType
<1>2. CASE ~Waits(f)
  BY <1>2 DEF Reply, TypeOK
<1> QED
  BY <1>1, <1>2

LEMMA TypeInit == Init => TypeOK
<1> SUFFICES ASSUME Init PROVE TypeOK
  OBVIOUS
<1>1. calls \in [Caller -> Call]
  BY BlankType DEF Init
<1>2. card \in Card /\ owner \in Owner
  BY DEF Init, Card, CardStatus, Owner
<1>3. written \in Seq(Frame)
  BY DEF Init
<1>4. active \in BOOLEAN /\ alive \in BOOLEAN /\ resolved \in BOOLEAN
  BY Zenon DEF Init
<1>5. issued \in 0 .. MaxAttempts
  BY MaxAttemptsAssumption DEF Init
<1>6. /\ row \in Row \cup {NoRow} /\ gate \in Caller \cup {NoOne}
      /\ session \in {"none", "probing", "live"}
      /\ queue \subseteq Frame /\ begun \subseteq Frame /\ wire \subseteq Frame
      /\ marked \subseteq Nat
  BY DEF Init
<1> QED
  BY <1>1, <1>2, <1>3, <1>4, <1>5, <1>6, Zenon DEF TypeOK

\* The transition of an outcome keeps the types.
LEMMA MoveType ==
  ASSUME TypeOK, NEW x, NEW o, Deliver(x, o)
  PROVE  card' \in Card /\ owner' \in Owner /\ row' \in Row \cup {NoRow}
<1>1. CASE ~Moves(x, o)
  BY <1>1 DEF TypeOK, Deliver, db
<1>2. CASE Moves(x, o)
  <2>0. row \in Row
    BY <1>2 DEF TypeOK, Moves, Current
  <2>1. card' \in Card
    BY <1>2 DEF TypeOK, Deliver, Move, Card, CardStatus, Row
  <2>2. owner' \in Owner
    <3>1. owner \in Owner
      BY DEF TypeOK
    <3>2. CASE o = "Written"
      <4>1. owner' = [owner EXCEPT !.status = "Completed", !.fingerprint = TRUE]
        BY <1>2, <3>2 DEF Deliver, Move
      <4> QED
        BY <3>1, <4>1 DEF Owner
    <3>3. CASE o = "NotSent"
      <4>1. owner' = [owner EXCEPT !.status = "Queued", !.reply = 0]
        BY <1>2, <3>3 DEF Deliver, Move
      <4> QED
        BY <3>1, <4>1 DEF Owner
    <3>4. CASE o = "Unknown"
      <4>1. owner' = [owner EXCEPT !.status = "Unknown"]
        BY <1>2, <3>4 DEF Deliver, Move
      <4> QED
        BY <3>1, <4>1 DEF Owner
    <3>5. CASE o \notin {"Written", "NotSent", "Unknown"}
      <4>1. owner' = owner
        BY <1>2, <3>5 DEF Deliver, Move
      <4> QED
        BY <3>1, <4>1
    <3> QED
      BY <3>2, <3>3, <3>4, <3>5
  <2>3. row' \in Row \cup {NoRow}
    BY <1>2, <2>0 DEF TypeOK, Deliver, Move, Row
  <2> QED
    BY <2>1, <2>2, <2>3
<1> QED
  BY <1>1, <1>2

\* Every step keeps the types.
LEMMA TypeNext == TypeOK /\ [Next]_vars => TypeOK'
<1> SUFFICES ASSUME TypeOK, [Next]_vars
             PROVE  TypeOK'
  OBVIOUS
<1> USE DEF db, worker, world
<1>1. ASSUME NEW p \in Caller, NEW a \in Answer, NEW d \in BOOLEAN, Ask(p, a, d)
      PROVE  TypeOK'
  <2>1. [Blank EXCEPT !.at = "checked", !.answer = a, !.deleting = d] \in Call
    BY BlankType DEF Call
  <2>2. calls' \in [Caller -> Call]
    BY <1>1, <2>1 DEF TypeOK, Ask
  <2> QED
    BY <1>1, <2>2 DEF TypeOK, Ask
<1>2. ASSUME NEW p \in Caller, Prepare(p)
      PROVE  TypeOK'
  <2>1. calls[p] \in Call /\ calls[p].answer \in Answer /\ calls[p].deleting \in BOOLEAN
    BY DEF TypeOK, Call
  <2>2. issued' \in 0 .. MaxAttempts /\ issued' \in Nat
    BY <1>2, MaxAttemptsAssumption DEF TypeOK, Prepare
  <2>3. calls' \in [Caller -> Call]
    BY <1>2, <2>1, <2>2 DEF TypeOK, Prepare, Call
  <2>4. card' \in Card
    BY <1>2, <2>1 DEF Prepare, Card, CardStatus
  <2>5. owner' \in Owner
    BY <1>2, <2>2 DEF TypeOK, Prepare, Owner
  <2>6. row' \in Row
    BY <1>2, <2>1, <2>2 DEF Prepare, Row
  <2> QED
    BY <1>2, <2>2, <2>3, <2>4, <2>5, <2>6 DEF TypeOK, Prepare
<1>3. ASSUME NEW p \in Caller, PrepareReplays(p)
      PROVE  TypeOK'
  <2>1. calls' \in [Caller -> Call]
    BY <1>3, BlankType, CallTypes, CallsType DEF TypeOK, PrepareReplays, Answered, Outcome
  <2> QED
    BY <1>3, <2>1 DEF TypeOK, PrepareReplays
<1>4. ASSUME NEW p \in Caller, PrepareRefused(p)
      PROVE  TypeOK'
  <2>1. calls' \in [Caller -> Call]
    BY <1>4, BlankType DEF TypeOK, PrepareRefused, Failed
  <2> QED
    BY <1>4, <2>1 DEF TypeOK, PrepareRefused
<1>5. ASSUME NEW p \in Caller, DeleteState(p)
      PROVE  TypeOK'
  <2>1. calls' \in [Caller -> Call]
    BY <1>5, BlankType DEF TypeOK, DeleteState, Failed
  <2>2. card' \in Card
    BY <1>5 DEF TypeOK, DeleteState, Card, CardStatus
  <2> QED
    BY <1>5, <2>1, <2>2 DEF TypeOK, DeleteState
<1>6. ASSUME NEW p \in Caller, Ready(p)
      PROVE  TypeOK'
  <2>1. calls' \in [Caller -> Call] /\ gate' \in Caller \cup {NoOne}
    BY <1>6, BlankType, CallTypes, CallsType DEF TypeOK, Ready, To, Answered, Failed, Outcome
  <2> QED
    BY <1>6, <2>1 DEF TypeOK, Ready
<1>7. ASSUME NEW p \in Caller, Submit(p)
      PROVE  TypeOK'
  <2>1. calls' \in [Caller -> Call] /\ gate' \in Caller \cup {NoOne}
    BY <1>7, BlankType, CallTypes, CallsType DEF TypeOK, Submit, To, Answered, Failed, Outcome
  <2>2. card' \in Card /\ owner' \in Owner /\ row' \in Row \cup {NoRow}
    BY <1>7, MoveType DEF Submit
  <2> QED
    BY <1>7, <2>1, <2>2 DEF TypeOK, Submit
<1>8. ASSUME NEW p \in Caller, Enqueue(p)
      PROVE  TypeOK'
  <2>1. calls' \in [Caller -> Call]
    BY <1>8, BlankType, CallTypes, CallsType DEF TypeOK, Enqueue, To, Outcome
  <2>2. FrameOf(p) \in Frame
    BY <1>8 DEF TypeOK, FrameOf, Frame, Call
  <2> QED
    BY <1>8, <2>1, <2>2 DEF TypeOK, Enqueue
<1>9. ASSUME NEW p \in Caller, NotQueued(p)
      PROVE  TypeOK'
  <2>1. calls' \in [Caller -> Call]
    BY <1>9, BlankType, CallTypes, CallsType DEF TypeOK, NotQueued, Receipt, Outcome
  <2> QED
    BY <1>9, <2>1 DEF TypeOK, NotQueued, Receipt
<1>10. ASSUME NEW p \in Caller, TimesOut(p)
       PROVE  TypeOK'
  <2>1. calls' \in [Caller -> Call]
    BY <1>10, BlankType, CallTypes, CallsType DEF TypeOK, TimesOut, Receipt, Outcome
  <2> QED
    BY <1>10, <2>1 DEF TypeOK, TimesOut, Receipt
<1>11. ASSUME NEW p \in Caller, Settle(p)
       PROVE  TypeOK'
  <2>1. calls' \in [Caller -> Call]
    BY <1>11, BlankType, CallTypes, CallsType DEF TypeOK, Settle, Answered, Failed, Outcome
  <2>2. card' \in Card /\ owner' \in Owner /\ row' \in Row \cup {NoRow}
    BY <1>11, MoveType DEF Settle
  <2> QED
    BY <1>11, <2>1, <2>2 DEF TypeOK, Settle
<1>12. ASSUME NEW p \in Caller, Drop(p)
       PROVE  TypeOK'
  <2>1. calls' \in [Caller -> Call]
    BY <1>12, BlankType, CallTypes, CallsType DEF TypeOK, Drop, To, Failed, Outcome
  <2> QED
    BY <1>12, <2>1 DEF TypeOK, Drop
<1>13. ASSUME NEW f \in queue, Discard(f) \/ Begin(f)
       PROVE  TypeOK'
  <2>1. f \in Frame /\ f.caller \in Caller
    BY DEF TypeOK, Frame
  <2>2. \A o \in Outcome : Reply(f, o) =>
          calls' \in [Caller -> Call] /\ gate' \in Caller \cup {NoOne}
    BY <2>1, ReplyType
  <2>3. CASE Discard(f)
    BY <2>2, <2>3 DEF TypeOK, Discard, Outcome
  <2>4. CASE Begin(f)
    <3>1. Admission(f) \in {"Send", "Error"} \cup Outcome
      BY DEF Admission, Outcome
    <3>2. calls' \in [Caller -> Call] /\ gate' \in Caller \cup {NoOne}
      BY <2>2, <2>4, <3>1 DEF TypeOK, Begin
    <3>3. row' \in Row \cup {NoRow}
      <4>1. CASE Admission(f) = "Send"
        <5>1. row \in Row
          BY <4>1 DEF TypeOK, Admission
        <5>2. row' = [row EXCEPT !.fingerprint = TRUE, !.status = "Submitted"]
          BY <2>4, <4>1 DEF Begin
        <5> QED
          BY <5>1, <5>2 DEF Row
      <4>2. CASE Admission(f) # "Send"
        BY <2>4, <4>2 DEF Begin, TypeOK
      <4> QED
        BY <4>1, <4>2
    <3>4. /\ session' \in {"none", "probing", "live"}
          /\ queue' \subseteq Frame /\ begun' \subseteq Frame /\ wire' \subseteq Frame
      BY <2>1, <2>4 DEF TypeOK, Begin, WorkerEnds
    <3> QED
      BY <2>4, <3>2, <3>3, <3>4 DEF TypeOK, Begin
  <2> QED
    BY <1>13, <2>3, <2>4
<1>14. ASSUME NEW f \in begun, NEW o \in Outcome, FrameOutcome(f, o)
       PROVE  TypeOK'
  <2>1. f \in Frame /\ f.caller \in Caller
    BY DEF TypeOK, Frame
  <2>2. calls' \in [Caller -> Call] /\ gate' \in Caller \cup {NoOne}
    BY <1>14, <2>1, ReplyType DEF TypeOK, FrameOutcome
  <2>3. card' \in Card /\ owner' \in Owner /\ row' \in Row \cup {NoRow}
    BY <1>14, MoveType DEF FrameOutcome, TypeOK
  <2>4. /\ session' \in {"none", "probing", "live"}
        /\ queue' \subseteq Frame /\ begun' \subseteq Frame /\ wire' \subseteq Frame
    BY <1>14 DEF TypeOK, FrameOutcome, WorkerEnds
  <2> QED
    BY <1>14, <2>2, <2>3, <2>4 DEF TypeOK, FrameOutcome
<1>15. CASE Detach
  BY <1>15 DEF TypeOK, Detach, WorkerEnds
<1>16. CASE Attach
  BY <1>16 DEF TypeOK, Attach
<1>17. CASE Probe
  <2>1. card' \in Card /\ owner' \in Owner /\ row' \in Row \cup {NoRow}
    BY <1>17, MoveType DEF Probe, TypeOK
  <2> QED
    BY <1>17, <2>1 DEF TypeOK, Probe
<1>18. CASE ExpireEnded
  <2>1. card' \in Card
    BY <1>18 DEF TypeOK, ExpireEnded, Card, CardStatus
  <2>2. owner' \in Owner
    <3>1. owner' = [owner EXCEPT !.status = "Unknown"] \/ owner' = owner
      BY <1>18 DEF ExpireEnded
    <3> QED
      BY <3>1 DEF TypeOK, Owner
  <2>3. row' \in Row \cup {NoRow}
    <3>1. (row # NoRow /\ row' = [row EXCEPT !.status = "Unknown"]) \/ row' = row
      BY <1>18 DEF ExpireEnded
    <3> QED
      BY <3>1 DEF TypeOK, Row
  <2> QED
    BY <1>18, <2>1, <2>2, <2>3 DEF TypeOK, ExpireEnded
<1>19. CASE Resolve
  <2>1. card' \in Card
    BY <1>19 DEF TypeOK, Resolve, Card, CardStatus
  <2>2. resolved' \in BOOLEAN
    BY <1>19, Zenon DEF Resolve
  <2> QED
    BY <1>19, <2>1, <2>2 DEF TypeOK, Resolve
<1>20. ASSUME NEW clean \in BOOLEAN, Restart(clean)
       PROVE  TypeOK'
  <2>1. calls' \in [Caller -> Call]
    BY <1>20, BlankType DEF Restart
  <2>2. CASE Hold
    <3>1. card' \in Card
      BY <2>2 DEF TypeOK, Hold, Card, CardStatus
    <3>2. owner' = [owner EXCEPT !.status = "Unknown"] \/ owner' = owner
      BY <2>2 DEF Hold
    <3>3. owner' \in Owner
      BY <3>2 DEF TypeOK, Owner
    <3>4. (row # NoRow /\ row' = [row EXCEPT !.status = "Unknown"]) \/ row' = row
      BY <2>2 DEF Hold
    <3>5. row' \in Row \cup {NoRow}
      BY <3>4 DEF TypeOK, Row
    <3> QED
      BY <1>20, <2>1, <3>1, <3>3, <3>5 DEF TypeOK, Restart, WorkerEnds
  <2>3. CASE UNCHANGED db
    BY <1>20, <2>1, <2>3 DEF TypeOK, Restart, WorkerEnds
  <2> QED
    BY <1>20, <2>2, <2>3 DEF Restart
<1>21. ASSUME NEW f \in wire, Write(f)
       PROVE  TypeOK'
  <2>1. written' \in Seq(Frame)
    BY <1>21 DEF TypeOK, Write
  <2> QED
    BY <1>21, <2>1 DEF TypeOK, Write
<1>22. ASSUME NEW f \in Received, Mark(f)
       PROVE  TypeOK'
  <2>1. f.attempt \in Nat
    BY ReceivedType DEF Frame
  <2> QED
    BY <1>22, <2>1 DEF TypeOK, Mark
<1>23. CASE ProviderEnds
  <2>1. alive' \in BOOLEAN
    BY <1>23, Zenon DEF ProviderEnds
  <2> QED
    BY <1>23, <2>1 DEF TypeOK, ProviderEnds
<1>24. CASE TurnEnds
  <2>1. active' \in BOOLEAN
    BY <1>24, Zenon DEF TurnEnds
  <2> QED
    BY <1>24, <2>1 DEF TypeOK, TurnEnds
<1>25. CASE UNCHANGED vars
  BY <1>25 DEF TypeOK, vars
<1> QED
  <2>1. \A a \in UserAnswer : a \in Answer
    BY DEF Answer
  <2>2. Cancel \in Answer
    BY DEF Answer
  <2> QED
    BY <1>1, <1>2, <1>3, <1>4, <1>5, <1>6, <1>7, <1>8, <1>9, <1>10, <1>11, <1>12, <1>13,
       <1>14, <1>15, <1>16, <1>17, <1>18, <1>19, <1>20, <1>21, <1>22, <1>23, <1>24, <1>25,
       <2>1, <2>2, Zenon DEF Next, CallStep

-----------------------------------------------------------------------------
(* The inductive invariant: initially, and steps that change only calls. *)
LEMMA BlankIs ==
  /\ Blank.at = "idle" /\ Blank.attempt = 0 /\ Blank.told = "nothing"
BY DEF Blank

LEMMA InvInit == Init => IInv
<1> SUFFICES ASSUME Init PROVE IInv
  OBVIOUS
<1>1. TypeOK
  BY TypeInit
<1>2. Received = {}
  BY <1>1, ReceivedType DEF Init
<1>3. Frames = {} /\ Fenced = {}
  BY <1>2 DEF Frames, Fenced, Init
<1>4. RowInv
  BY <1>2, <1>3 DEF RowInv, Init
<1>5. FrameInv
  BY <1>2, <1>3 DEF FrameInv, Init
<1>6. CallInv
  <2>1. \A p \in Caller : calls[p] = Blank
    BY DEF Init
  <2> QED
    BY <2>1, BlankIs DEF CallInv, AttemptInv, OwnsInv, WaitInv, ToldInv, Owns, Init
<1> QED
  BY <1>1, <1>4, <1>5, <1>6 DEF IInv

delivery == <<card, owner, row, issued, queue, begun, wire, written, marked, resolved>>

LEMMA Still ==
  ASSUME RowInv, FrameInv, UNCHANGED delivery
  PROVE  RowInv' /\ FrameInv' /\ UNCHANGED Frames /\ UNCHANGED Received
<1>1. UNCHANGED Received
  BY ReceivedSame DEF delivery
<1>2. UNCHANGED Fenced /\ UNCHANGED Frames
  BY <1>1 DEF Fenced, Frames, delivery
<1>3. RowInv'
  BY <1>1 DEF RowInv, delivery
<1>4. FrameInv'
  BY <1>1, <1>2 DEF FrameInv, delivery
<1> QED
  BY <1>1, <1>2, <1>3, <1>4

\* What a call may become while the delivery stands still.
May(p, c) ==
  /\ c.attempt = 0 \/ c.attempt = calls[p].attempt
  /\ c.at \in {"prepared", "ready", "orphan", "port"} =>
       Owns(p) /\ c.attempt = calls[p].attempt /\ c.answer = calls[p].answer
  /\ c.at \in {"waiting", "receipt"} =>
       /\ Owns(p) \/ calls[p].at = "waiting"
       /\ c.attempt = calls[p].attempt /\ c.answer = calls[p].answer
       /\ c.outcome = "NotSent" => Gone(c.attempt)
       /\ c.outcome # "Written"
  /\ c.told # "nothing" => c.at = "idle"
  /\ c.told = "rejected" => Gone(c.attempt)
  /\ c.told = "answered" => resolved \/ \E f \in Received : f.answer = c.answer

LEMMA StillCalls ==
  ASSUME IInv, UNCHANGED delivery, NEW p \in Caller, NEW c, May(p, c),
         calls' = [calls EXCEPT ![p] = c]
  PROVE  RowInv' /\ FrameInv' /\ CallInv'
<1>1. /\ RowInv' /\ FrameInv' /\ UNCHANGED Frames /\ UNCHANGED Received
  BY Still DEF IInv
<1>2. /\ calls'[p] = c
      /\ \A q \in Caller : q # p => calls'[q] = calls[q]
  BY DEF IInv, TypeOK
<1>3. UNCHANGED <<issued, row, owner, card, resolved>>
  BY DEF delivery
<1>4. AttemptInv'
  BY <1>2, <1>3 DEF IInv, TypeOK, CallInv, AttemptInv, May
<1>5. \A x : Gone(x)' = Gone(x)
  BY <1>1 DEF Gone
<1>6. OwnsInv'
  BY <1>2, <1>3, <1>5 DEF IInv, CallInv, OwnsInv, Owns, May
<1>7. WaitInv'
  <2> SUFFICES ASSUME NEW q \in Caller
               PROVE  WaitInv!(q)'
    BY DEF WaitInv
  <2>1. CASE q # p
    BY <1>1, <1>2, <1>3, <1>5, <2>1 DEF IInv, CallInv, WaitInv
  <2>2. CASE q = p
    <3>1. Owns(p) => calls[p].attempt # 0
      BY DEF IInv, CallInv, OwnsInv, RowInv
    <3>2. Owns(p) => \A f \in Frames : f.attempt # calls[p].attempt
      BY DEF IInv, CallInv, OwnsInv, Gone
    <3>3. calls[p].at = "waiting" =>
            /\ calls[p].attempt # 0
            /\ \A f \in Frames : f.attempt = calls[p].attempt => f.answer = calls[p].answer
      BY DEF IInv, CallInv, WaitInv
    <3> QED
      BY <1>1, <1>2, <1>3, <1>5, <2>2, <3>1, <3>2, <3>3 DEF May
  <2> QED
    BY <2>1, <2>2
<1>8. ToldInv'
  BY <1>1, <1>2, <1>3, <1>5 DEF IInv, CallInv, ToldInv, May
<1> QED
  BY <1>1, <1>4, <1>6, <1>7, <1>8 DEF CallInv

LEMMA BlankMay ==
  ASSUME NEW p \in Caller
  PROVE  May(p, Blank)
BY BlankIs DEF May

LEMMA AskInv ==
  ASSUME IInv, NEW p \in Caller, NEW a, NEW d, Ask(p, a, d)
  PROVE  RowInv' /\ FrameInv' /\ CallInv'
<1> DEFINE c == [Blank EXCEPT !.at = "checked", !.answer = a, !.deleting = d]
<1>1. c.at = "checked" /\ c.attempt = 0 /\ c.told = "nothing"
  BY DEF Blank
<1>2. May(p, c)
  BY <1>1 DEF May
<1>3. UNCHANGED delivery /\ calls' = [calls EXCEPT ![p] = c]
  BY DEF Ask, delivery, db, worker, world
<1> QED
  BY <1>2, <1>3, StillCalls

LEMMA ReplaysInv ==
  ASSUME IInv, NEW p \in Caller, PrepareReplays(p)
  PROVE  RowInv' /\ FrameInv' /\ CallInv'
<1> DEFINE c == [Blank EXCEPT !.answer = calls[p].answer, !.told = "answered"]
<1>1. c.at = "idle" /\ c.attempt = 0 /\ c.told = "answered" /\ c.answer = calls[p].answer
  BY DEF Blank
<1>2. \E f \in Received : f.answer = calls[p].answer
  BY DEF PrepareReplays, IInv, RowInv
<1>3. May(p, c)
  BY <1>1, <1>2 DEF May
<1>4. UNCHANGED delivery /\ calls' = [calls EXCEPT ![p] = c]
  BY DEF PrepareReplays, Answered, delivery, db, worker, world
<1> QED
  BY <1>3, <1>4, StillCalls

LEMMA RefusedInv ==
  ASSUME IInv, NEW p \in Caller, PrepareRefused(p)
  PROVE  RowInv' /\ FrameInv' /\ CallInv'
<1>1. UNCHANGED delivery /\ calls' = [calls EXCEPT ![p] = Blank]
  BY DEF PrepareRefused, Failed, delivery, db, worker, world
<1> QED
  BY <1>1, BlankMay, StillCalls

LEMMA ReadyInv ==
  ASSUME IInv, NEW p \in Caller, Ready(p)
  PROVE  RowInv' /\ FrameInv' /\ CallInv'
<1>1. UNCHANGED delivery
  BY DEF Ready, delivery, db, worker, world
<1>2. calls[p].at = "prepared" /\ Owns(p) /\ calls[p].told = "nothing"
  BY DEF Ready, Owns, IInv, CallInv, ToldInv
<1>3. CASE To(p, "ready")
  <2> DEFINE c == [calls[p] EXCEPT !.at = "ready"]
  <2>1. /\ c.at = "ready" /\ c.attempt = calls[p].attempt /\ c.answer = calls[p].answer
        /\ c.told = "nothing"
    BY <1>2 DEF IInv, TypeOK, Call
  <2>2. May(p, c)
    BY <1>2, <2>1 DEF May
  <2>3. calls' = [calls EXCEPT ![p] = c]
    BY <1>3 DEF To
  <2> QED
    BY <1>1, <2>2, <2>3, StillCalls
<1>4. CASE /\ Answered(p)
           /\ \/ row.status = "Pending" /\ card.status # "Answering"
              \/ owner.status = "Completed"
  <2> DEFINE c == [Blank EXCEPT !.answer = calls[p].answer, !.told = "answered"]
  <2>1. c.at = "idle" /\ c.attempt = 0 /\ c.told = "answered" /\ c.answer = calls[p].answer
    BY DEF Blank
  <2>2. resolved
    BY <1>2, <1>4 DEF IInv, CallInv, OwnsInv, RowInv
  <2>3. May(p, c)
    BY <2>1, <2>2 DEF May
  <2>4. calls' = [calls EXCEPT ![p] = c]
    BY <1>4 DEF Answered
  <2> QED
    BY <1>1, <2>3, <2>4, StillCalls
<1>5. CASE Failed(p)
  BY <1>1, <1>5, BlankMay, StillCalls DEF Failed
<1> QED
  BY <1>3, <1>4, <1>5 DEF Ready

LEMMA NotQueuedInv ==
  ASSUME IInv, NEW p \in Caller, NotQueued(p)
  PROVE  RowInv' /\ FrameInv' /\ CallInv'
<1> DEFINE c == [calls[p] EXCEPT !.at = "receipt", !.outcome = "NotSent"]
<1>1. /\ c.at = "receipt" /\ c.outcome = "NotSent" /\ c.told = calls[p].told
      /\ c.attempt = calls[p].attempt /\ c.answer = calls[p].answer
  BY DEF IInv, TypeOK, Call
<1>2. Owns(p) /\ Gone(calls[p].attempt) /\ calls[p].told = "nothing"
  BY DEF NotQueued, Owns, IInv, CallInv, OwnsInv, ToldInv
<1>3. May(p, c)
  BY <1>1, <1>2 DEF May
<1>4. UNCHANGED delivery /\ calls' = [calls EXCEPT ![p] = c]
  BY DEF NotQueued, Receipt, delivery, db, worker, world
<1> QED
  BY <1>3, <1>4, StillCalls

LEMMA TimesOutInv ==
  ASSUME IInv, NEW p \in Caller, TimesOut(p)
  PROVE  RowInv' /\ FrameInv' /\ CallInv'
<1> DEFINE c == [calls[p] EXCEPT !.at = "receipt", !.outcome = "Unknown"]
<1>1. /\ c.at = "receipt" /\ c.outcome = "Unknown" /\ c.told = calls[p].told
      /\ c.attempt = calls[p].attempt /\ c.answer = calls[p].answer
  BY DEF IInv, TypeOK, Call
<1>2. calls[p].at = "waiting" /\ calls[p].told = "nothing"
  BY DEF TimesOut, IInv, CallInv, ToldInv
<1>3. May(p, c)
  BY <1>1, <1>2 DEF May
<1>4. UNCHANGED delivery /\ calls' = [calls EXCEPT ![p] = c]
  BY DEF TimesOut, Receipt, delivery, db, worker, world
<1> QED
  BY <1>3, <1>4, StillCalls

LEMMA DropInv ==
  ASSUME IInv, NEW p \in Caller, Drop(p)
  PROVE  RowInv' /\ FrameInv' /\ CallInv'
<1>1. UNCHANGED delivery
  BY DEF Drop, delivery, db, worker, world
<1>2. CASE calls[p].at = "ready"
  <2> DEFINE c == [calls[p] EXCEPT !.at = "orphan"]
  <2>1. /\ c.at = "orphan" /\ c.attempt = calls[p].attempt /\ c.answer = calls[p].answer
        /\ c.told = calls[p].told
    BY DEF IInv, TypeOK, Call
  <2>2. Owns(p) /\ calls[p].told = "nothing"
    BY <1>2 DEF Owns, IInv, CallInv, ToldInv
  <2>3. May(p, c)
    BY <2>1, <2>2 DEF May
  <2>4. calls' = [calls EXCEPT ![p] = c]
    BY <1>2 DEF Drop, To
  <2> QED
    BY <1>1, <2>3, <2>4, StillCalls
<1>3. CASE calls[p].at # "ready"
  BY <1>1, <1>3, BlankMay, StillCalls DEF Drop, Failed
<1> QED
  BY <1>2, <1>3

\* The worker, the provider and the turn may change alone.
LEMMA StillInv ==
  ASSUME IInv, UNCHANGED <<delivery, calls>>
  PROVE  RowInv' /\ FrameInv' /\ CallInv'
<1>1. /\ RowInv' /\ FrameInv' /\ UNCHANGED Frames /\ UNCHANGED Received
  BY Still DEF IInv
<1>2. UNCHANGED <<calls, issued, row, owner, card, resolved>>
  BY DEF delivery
<1>3. AttemptInv' /\ OwnsInv'
  BY <1>1, <1>2 DEF IInv, CallInv, AttemptInv, OwnsInv, Owns, Gone
<1>4. WaitInv' /\ ToldInv'
  BY <1>1, <1>2 DEF IInv, CallInv, WaitInv, ToldInv, Gone
<1> QED
  BY <1>1, <1>3, <1>4 DEF CallInv

-----------------------------------------------------------------------------
(* Steps that change the delivery. *)
LEMMA MoveIs ==
  ASSUME NEW o, Move(o)
  PROVE  /\ o = "Written" =>
              /\ card' = [card EXCEPT !.status = IF row.deleting THEN "Deleted" ELSE "Answered"]
              /\ owner' = [owner EXCEPT !.status = "Completed", !.fingerprint = TRUE]
              /\ row' = NoRow
         /\ o = "NotSent" =>
              /\ card' = [status |-> "Pending", answer |-> NoAnswer]
              /\ owner' = [owner EXCEPT !.status = "Queued", !.reply = 0]
              /\ row' = NoRow
         /\ o = "Unknown" =>
              /\ card' = [card EXCEPT !.status = "Uncertain"]
              /\ owner' = [owner EXCEPT !.status = "Unknown"]
              /\ row' = [row EXCEPT !.status = "Unknown"]
         /\ o = "Submitted" =>
              /\ card' = [card EXCEPT !.status = "Answering"]
              /\ owner' = owner
              /\ row' = [row EXCEPT !.status = "Submitted"]
BY DEF Move

LEMMA RowFields ==
  ASSUME TypeOK
  PROVE  /\ row # NoRow => row \in Row
         /\ \A s \in {"Submitted", "Unknown"} : row # NoRow =>
              LET r == [row EXCEPT !.status = s]
              IN /\ r # NoRow
                 /\ r.status = s /\ r.attempt = row.attempt /\ r.answer = row.answer
                 /\ r.fingerprint = row.fingerprint
<1>1. row # NoRow => row \in Row
  BY DEF TypeOK
<1>2. \A s \in {"Submitted", "Unknown"} : row \in Row => [row EXCEPT !.status = s] \in Row
  BY DEF Row
<1> QED
  BY <1>1, <1>2, NoRowAssumption DEF Row

\* What is true of one call.
Fine(q) ==
  /\ Owns(q) =>
       /\ row # NoRow /\ row.attempt = calls[q].attempt /\ row.answer = calls[q].answer
       /\ Gone(calls[q].attempt)
  /\ calls[q].at \in {"waiting", "receipt"} =>
       /\ calls[q].attempt # 0
       /\ \A f \in Frames : f.attempt = calls[q].attempt => f.answer = calls[q].answer
  /\ calls[q].at = "receipt" /\ calls[q].outcome = "NotSent" => Gone(calls[q].attempt)
  /\ calls[q].at = "receipt" /\ calls[q].outcome = "Written" =>
       owner.status = "Completed" /\ card.answer = calls[q].answer
  /\ calls[q].told # "nothing" => calls[q].at = "idle"
  /\ calls[q].told = "rejected" => Gone(calls[q].attempt)
  /\ calls[q].told = "answered" =>
       resolved \/ \E f \in Received : f.answer = calls[q].answer

LEMMA AllFine ==
  (\A q \in Caller : Fine(q)) <=> OwnsInv /\ WaitInv /\ ToldInv
BY DEF Fine, OwnsInv, WaitInv, ToldInv

LEMMA BlankFine ==
  ASSUME NEW q, calls[q] = Blank
  PROVE  Fine(q)
BY BlankIs DEF Fine, Owns

\* The response that a call owns is kept.
RowKept == row' # NoRow /\ row'.attempt = row.attempt /\ row'.answer = row.answer

\* A step that takes frames away and completes nothing anew keeps a call fine.
LEMMA KeepsFine ==
  ASSUME NEW q, Fine(q), calls'[q] = calls[q], Owns(q) => RowKept,
         Frames' \subseteq Frames, Received \subseteq Received', resolved => resolved',
         owner.status = "Completed" =>
           owner'.status = "Completed" /\ card'.answer = card.answer
  PROVE  Fine(q)'
<1>1. \A x : Gone(x) => Gone(x)'
  BY DEF Gone
<1>2. Owns(q)' <=> Owns(q)
  BY DEF Owns
<1>3. calls[q].told = "answered" =>
        resolved' \/ \E f \in Received' : f.answer = calls[q].answer
  BY DEF Fine
<1> QED
  BY <1>1, <1>2, <1>3 DEF Fine, RowKept

LEMMA Shift ==
  ASSUME IInv, TypeOK', UNCHANGED issued,
         \A q \in Caller : calls'[q].attempt \in {0, calls[q].attempt} /\ Fine(q)'
  PROVE  CallInv'
<1>1. AttemptInv'
  BY DEF IInv, TypeOK, CallInv, AttemptInv
<1>2. OwnsInv' /\ WaitInv' /\ ToldInv'
  <2>1. ((\A q \in Caller : Fine(q)) => OwnsInv /\ WaitInv /\ ToldInv)'
    BY AllFine, PTL
  <2> QED
    BY <2>1
<1> QED
  BY <1>1, <1>2 DEF CallInv

LEMMA BlankFineNext ==
  ASSUME NEW q, calls'[q] = Blank
  PROVE  Fine(q)'
BY BlankIs DEF Fine, Owns, Blank

LEMMA NowFine ==
  ASSUME IInv, NEW q \in Caller
  PROVE  Fine(q)
BY AllFine DEF IInv, CallInv

LEMMA DeleteStateInv ==
  ASSUME IInv, TypeOK', NEW p \in Caller, DeleteState(p)
  PROVE  RowInv' /\ FrameInv' /\ CallInv'
<1>1. UNCHANGED <<owner, row, issued, queue, begun, wire, written, marked, resolved>>
  BY DEF DeleteState, worker, world
<1>2. /\ card'.status = "Deleted" /\ card'.answer = card.answer
      /\ card.status \in {"Answered", "Expired", "Resolved"}
  BY DEF DeleteState, IInv, TypeOK, Card
<1>3. UNCHANGED Received /\ UNCHANGED Fenced /\ UNCHANGED Frames
  BY <1>1, ReceivedSame DEF Fenced, Frames
<1>4. RowInv'
  BY <1>1, <1>2, <1>3 DEF IInv, RowInv
<1>5. FrameInv'
  BY <1>1, <1>3 DEF IInv, FrameInv
<1>6. \A q \in Caller : q # p => calls'[q] = calls[q]
  BY DEF DeleteState, Failed, IInv, TypeOK
<1>7. calls'[p] = Blank
  BY DEF DeleteState, Failed, IInv, TypeOK
<1>8. \A q \in Caller : Owns(q) => RowKept
  BY <1>1 DEF RowKept, IInv, CallInv, OwnsInv
<1>9. \A q \in Caller : Fine(q)'
  BY <1>1, <1>2, <1>3, <1>6, <1>7, <1>8, NowFine, KeepsFine, BlankFineNext
<1>10. CallInv'
  BY <1>1, <1>6, <1>7, <1>9, BlankIs, Shift
<1> QED
  BY <1>4, <1>5, <1>10

LEMMA ResolveInv ==
  ASSUME IInv, TypeOK', Resolve
  PROVE  RowInv' /\ FrameInv' /\ CallInv'
<1>1. UNCHANGED <<owner, row, issued, calls, queue, begun, wire, written, marked>> /\ resolved'
  BY DEF Resolve, worker, world
<1>2. card'.status = "Resolved" /\ card'.answer = card.answer
  BY DEF Resolve, IInv, TypeOK, Card
<1>3. UNCHANGED Received /\ UNCHANGED Fenced /\ UNCHANGED Frames
  BY <1>1, ReceivedSame DEF Fenced, Frames
<1>4. RowInv'
  BY <1>1, <1>2, <1>3 DEF IInv, RowInv
<1>5. FrameInv'
  BY <1>1, <1>3 DEF IInv, FrameInv
<1>6. \A q \in Caller : Owns(q) => RowKept
  BY <1>1 DEF RowKept, IInv, CallInv, OwnsInv
<1>7. \A q \in Caller : Fine(q)'
  BY <1>1, <1>2, <1>3, <1>6, NowFine, KeepsFine
<1>8. CallInv'
  BY <1>1, <1>7, Shift
<1> QED
  BY <1>4, <1>5, <1>8

LEMMA ExpireEndedInv ==
  ASSUME IInv, TypeOK', ExpireEnded
  PROVE  RowInv' /\ FrameInv' /\ CallInv'
<1>1. UNCHANGED <<issued, calls, queue, begun, wire, written, marked, resolved>>
  BY DEF ExpireEnded, worker, world
<1>2. /\ card'.answer = card.answer
      /\ card'.status \in {"Expired", "Uncertain"}
  BY DEF ExpireEnded, IInv, TypeOK, Card
<1>3. UNCHANGED Received /\ UNCHANGED Fenced /\ UNCHANGED Frames
  BY <1>1, ReceivedSame DEF Fenced, Frames
<1>4. /\ owner'.reply = owner.reply
      /\ owner'.status \in {"Unknown", owner.status}
      /\ owner'.status = "Completed" <=> owner.status = "Completed"
  BY DEF ExpireEnded, IInv, TypeOK, Owner
<1>5. row = NoRow => row' = NoRow
  BY DEF ExpireEnded
<1>6. row # NoRow =>
        /\ RowKept /\ row'.fingerprint = row.fingerprint
        /\ row'.status = "Unknown" \/ (row' = row /\ row.status # "Pending")
  <2>1. row # NoRow /\ row.status = "Pending" => owner.status = "Running"
    BY DEF IInv, RowInv
  <2> QED
    BY <2>1, RowFields DEF ExpireEnded, RowKept, IInv
<1>7. RowInv'
  BY <1>1, <1>2, <1>3, <1>4, <1>5, <1>6 DEF IInv, RowInv, RowKept
<1>8. FrameInv'
  BY <1>1, <1>3, <1>4, <1>5, <1>6 DEF IInv, FrameInv, RowKept
<1>9. \A q \in Caller : Owns(q) => RowKept
  BY <1>6 DEF IInv, CallInv, OwnsInv
<1>10. \A q \in Caller : Fine(q)'
  BY <1>1, <1>2, <1>3, <1>4, <1>9, NowFine, KeepsFine
<1>11. CallInv'
  BY <1>1, <1>10, Shift
<1> QED
  BY <1>7, <1>8, <1>11

LEMMA MarkInv ==
  ASSUME IInv, TypeOK', NEW f \in Received, Mark(f)
  PROVE  RowInv' /\ FrameInv' /\ CallInv'
<1>1. UNCHANGED <<card, owner, row, issued, calls, queue, begun, wire, written, resolved>>
  BY DEF Mark, db, worker
<1>2. UNCHANGED Received /\ UNCHANGED Fenced /\ UNCHANGED Frames
  BY <1>1, ReceivedSame DEF Fenced, Frames
<1>3. RowInv'
  BY <1>1, <1>2 DEF IInv, RowInv
<1>4. FrameInv'
  BY <1>1, <1>2 DEF IInv, FrameInv, Mark
<1>5. \A q \in Caller : Owns(q) => RowKept
  BY <1>1 DEF RowKept, IInv, CallInv, OwnsInv
<1>6. \A q \in Caller : Fine(q)'
  BY <1>1, <1>2, <1>5, NowFine, KeepsFine
<1>7. CallInv'
  BY <1>1, <1>6, Shift
<1> QED
  BY <1>3, <1>4, <1>7

\* Frames that are lost make nothing untrue.
LEMMA LoseFrames ==
  ASSUME IInv, UNCHANGED <<owner, row, issued, written, marked>>, card'.answer = card.answer,
         queue' \subseteq queue, begun' \subseteq begun, wire' \subseteq wire
  PROVE  FrameInv' /\ Frames' \subseteq Frames /\ UNCHANGED Received
<1>1. UNCHANGED Received
  BY ReceivedSame
<1>2. Frames' \subseteq Frames /\ Fenced' \subseteq Fenced
  BY <1>1 DEF Frames, Fenced
<1>3. FrameInv'
  BY <1>1, <1>2 DEF IInv, FrameInv
<1> QED
  BY <1>1, <1>2, <1>3

LEMMA DetachInv ==
  ASSUME IInv, TypeOK', Detach
  PROVE  RowInv' /\ FrameInv' /\ CallInv'
<1>1. UNCHANGED <<card, owner, row, issued, calls, written, marked, resolved>>
  BY DEF Detach, db
<1>2. queue' \subseteq queue /\ begun' \subseteq begun /\ wire' \subseteq wire
  BY DEF Detach, WorkerEnds
<1>3. FrameInv' /\ Frames' \subseteq Frames /\ UNCHANGED Received
  BY <1>1, <1>2, LoseFrames
<1>4. RowInv'
  BY <1>1, <1>3 DEF IInv, RowInv
<1>5. \A q \in Caller : Owns(q) => RowKept
  BY <1>1 DEF RowKept, IInv, CallInv, OwnsInv
<1>6. \A q \in Caller : Fine(q)'
  BY <1>1, <1>3, <1>5, NowFine, KeepsFine
<1>7. CallInv'
  BY <1>1, <1>6, Shift
<1> QED
  BY <1>3, <1>4, <1>7

LEMMA RestartInv ==
  ASSUME IInv, TypeOK', NEW clean, Restart(clean)
  PROVE  RowInv' /\ FrameInv' /\ CallInv'
<1>1. UNCHANGED <<issued, written, marked, resolved>>
  BY DEF Restart
<1>2. queue' = {} /\ begun' = {} /\ wire' \subseteq wire
  BY DEF Restart, WorkerEnds
<1>3. UNCHANGED Received
  BY <1>1, ReceivedSame
<1>4. Frames' \subseteq Frames /\ Fenced' \subseteq Fenced
  BY <1>2, <1>3 DEF Frames, Fenced
<1>5. ASSUME UNCHANGED db PROVE RowInv' /\ FrameInv'
  <2>1. UNCHANGED <<card, owner, row>>
    BY <1>5 DEF db
  <2> QED
    <3>1. RowInv'
      BY <1>1, <1>3, <2>1 DEF IInv, RowInv
    <3>2. FrameInv'
      BY <1>1, <1>2, <1>3, <1>4, <2>1 DEF IInv, FrameInv
    <3> QED
      BY <3>1, <3>2
<1>6. ASSUME row # NoRow, row.status = "Pending", Hold
      PROVE  RowInv' /\ FrameInv'
  <2>1. /\ card'.status = "Uncertain" /\ card'.answer = card.answer
        /\ owner'.status = "Unknown" /\ owner'.reply = owner.reply
    BY <1>6 DEF Hold, IInv, TypeOK, Card, Owner
  <2>2. RowKept /\ row'.status = "Unknown" /\ row'.fingerprint = row.fingerprint
    BY <1>6, RowFields DEF Hold, RowKept, IInv
  <2>3. RowInv'
    BY <1>1, <1>3, <1>6, <2>1, <2>2 DEF IInv, RowInv, RowKept
  <2>4. FrameInv'
    BY <1>1, <1>2, <1>3, <1>4, <1>6, <2>1, <2>2 DEF IInv, FrameInv, RowInv, RowKept
  <2> QED
    BY <2>3, <2>4
<1>7. RowInv' /\ FrameInv'
  BY <1>5, <1>6 DEF Restart, Hold
<1>8. \A q \in Caller : calls'[q] = Blank
  BY DEF Restart
<1>9. CallInv'
  BY <1>1, <1>8, BlankIs, BlankFineNext, Shift
<1> QED
  BY <1>7, <1>9

LEMMA PrepareInv ==
  ASSUME IInv, TypeOK', NEW p \in Caller, Prepare(p)
  PROVE  RowInv' /\ FrameInv' /\ CallInv'
<1>1. UNCHANGED <<queue, begun, wire, written, marked, resolved>>
  BY DEF Prepare, worker, world
<1>2. UNCHANGED Received /\ UNCHANGED Fenced /\ UNCHANGED Frames
  BY <1>1, ReceivedSame DEF Fenced, Frames
<1>3. row = NoRow /\ owner.status # "Completed" /\ calls[p].at = "checked"
  BY DEF Prepare, Answerable
<1>4. issued \in Nat /\ issued' = issued + 1
  BY DEF Prepare, IInv, TypeOK
<1>5. /\ row' \in Row /\ row' # NoRow
      /\ row'.attempt = issued' /\ row'.answer = calls[p].answer
      /\ row'.status = "Pending" /\ ~row'.fingerprint
  <2>1. calls[p].answer \in Answer /\ calls[p].deleting \in BOOLEAN /\ issued' \in Nat
    BY <1>4 DEF IInv, TypeOK, Call
  <2>2. row' = [status |-> "Pending", attempt |-> issued', answer |-> calls[p].answer,
                fingerprint |-> FALSE, deleting |-> calls[p].deleting]
    BY DEF Prepare
  <2>3. row' \in Row
    BY <2>1, <2>2 DEF Row
  <2> QED
    BY <2>2, <2>3, NoRowAssumption
<1>6. /\ card'.status = "Answering" /\ card'.answer = calls[p].answer
      /\ owner'.status = "Running" /\ owner'.reply = issued'
  BY DEF Prepare, IInv, TypeOK, Owner
<1>7. Fenced = {} /\ Received = {}
  BY <1>3 DEF IInv, FrameInv, Fenced
<1>8. \A f \in Frames : f.attempt >= 1 /\ f.attempt <= issued
  BY DEF IInv, FrameInv
<1>9. RowInv'
  BY <1>1, <1>2, <1>4, <1>5, <1>6 DEF RowInv
<1>10. Frames \subseteq Frame
  BY ReceivedType DEF IInv, TypeOK, Frames, Fenced
<1>11. \A f \in Frames : f.attempt \in Nat /\ f.attempt # issued'
  BY <1>4, <1>8, <1>10 DEF Frame
<1>12. FrameInv'
  BY <1>1, <1>2, <1>4, <1>5, <1>7, <1>8, <1>11 DEF IInv, FrameInv
<1>13. /\ calls'[p].at = "prepared" /\ calls'[p].attempt = issued'
       /\ calls'[p].answer = calls[p].answer /\ calls'[p].told = calls[p].told
       /\ \A q \in Caller : q # p => calls'[q] = calls[q]
  BY DEF Prepare, IInv, TypeOK, Call
<1>14. \A q \in Caller : ~Owns(q)
  BY <1>3 DEF IInv, CallInv, OwnsInv
<1>15. Gone(issued)'
  BY <1>2, <1>11 DEF Gone
<1>16. Fine(p)'
  <2>1. calls[p].told = "nothing"
    BY <1>3 DEF IInv, CallInv, ToldInv
  <2> QED
    BY <1>5, <1>13, <1>15, <2>1 DEF Fine
<1>17. \A q \in Caller : q # p => Fine(q)'
  BY <1>1, <1>2, <1>3, <1>13, <1>14, NowFine, KeepsFine
<1>18. AttemptInv'
  <2>1. \A q \in Caller : calls[q].attempt \in Nat /\ calls[q].attempt <= issued
    BY DEF IInv, TypeOK, Call, CallInv, AttemptInv
  <2>2. \A q \in Caller : q # p => calls'[q].attempt <= issued /\ calls'[q].attempt \in Nat
    BY <1>13, <2>1
  <2>3. \A q \in Caller : calls'[q].attempt <= issued'
    BY <1>4, <1>13, <2>2
  <2>4. \A q, r \in Caller : q # p /\ r # p /\ calls'[q].attempt = calls'[r].attempt
                               /\ calls'[q].attempt # 0 => q = r
    BY <1>13 DEF IInv, CallInv, AttemptInv
  <2>5. \A q \in Caller : q # p => calls'[q].attempt # calls'[p].attempt
    BY <1>4, <1>13, <2>2
  <2> QED
    BY <2>3, <2>4, <2>5 DEF AttemptInv
<1>19. OwnsInv' /\ WaitInv' /\ ToldInv'
  BY <1>16, <1>17 DEF Fine, OwnsInv, WaitInv, ToldInv
<1> QED
  BY <1>9, <1>12, <1>18, <1>19 DEF CallInv

LEMMA EnqueueInv ==
  ASSUME IInv, TypeOK', NEW p \in Caller, Enqueue(p)
  PROVE  RowInv' /\ FrameInv' /\ CallInv'
<1> DEFINE f == FrameOf(p)
<1>1. UNCHANGED <<card, owner, row, issued, begun, wire, written, marked, resolved>>
  BY DEF Enqueue, db, world
<1>2. UNCHANGED Received /\ UNCHANGED Fenced /\ Frames' = Frames \cup {f}
  BY <1>1, ReceivedSame DEF Fenced, Frames, Enqueue
<1>3. f.attempt = calls[p].attempt /\ f.answer = calls[p].answer
  BY DEF FrameOf
<1>4. /\ row # NoRow /\ row.attempt = f.attempt /\ row.answer = f.answer
      /\ \A g \in Frames : g.attempt # f.attempt
      /\ calls[p].told = "nothing"
  BY <1>3 DEF Enqueue, Owns, IInv, CallInv, OwnsInv, ToldInv, Gone
<1>5. f.attempt >= 1 /\ f.attempt <= issued
  BY <1>4 DEF IInv, RowInv
<1>6. RowInv'
  BY <1>1, <1>2 DEF IInv, RowInv
<1>7. Fenced \subseteq Frames /\ queue' = queue \cup {f}
  BY DEF Frames, Enqueue
<1> HIDE DEF f
<1>8. FrameInv'
  BY <1>1, <1>2, <1>4, <1>5, <1>7 DEF IInv, FrameInv
<1>9. /\ calls'[p].at = "waiting" /\ calls'[p].attempt = calls[p].attempt
      /\ calls'[p].answer = calls[p].answer /\ calls'[p].told = calls[p].told
      /\ \A q \in Caller : q # p => calls'[q] = calls[q]
  BY DEF Enqueue, To, IInv, TypeOK, Call
<1>10. calls[p].attempt \in Nat \ {0}
  BY <1>3, <1>5 DEF IInv, TypeOK, Call
<1>11. Fine(p)'
  BY <1>2, <1>3, <1>4, <1>9, <1>10 DEF Fine, Owns
<1>12. \A q \in Caller : q # p => Fine(q)'
  <2> TAKE q \in Caller
  <2> SUFFICES ASSUME q # p
               PROVE  Fine(q)'
    OBVIOUS
  <2>1. calls[q].attempt # f.attempt
    BY <1>3, <1>10 DEF IInv, CallInv, AttemptInv
  <2>2. Gone(calls[q].attempt) => Gone(calls[q].attempt)'
    BY <1>2, <1>9, <2>1 DEF Gone
  <2>3. Fine(q) /\ calls'[q] = calls[q]
    BY <1>9, NowFine
  <2> QED
    BY <1>1, <1>2, <2>1, <2>2, <2>3 DEF Fine, Owns, Gone
<1>13. CallInv'
  BY <1>1, <1>9, <1>11, <1>12, Shift
<1> QED
  BY <1>6, <1>8, <1>13

LEMMA WriteInv ==
  ASSUME IInv, TypeOK', NEW f \in wire, Write(f)
  PROVE  RowInv' /\ FrameInv' /\ CallInv'
<1>1. UNCHANGED <<card, owner, row, issued, calls, queue, begun, marked, resolved>>
  BY DEF Write, db, worker
<1>2. f \in Frame /\ Received' = Received \cup {f} /\ Len(written') = Len(written) + 1
  BY ReceivedMore DEF Write, IInv, TypeOK
<1>3. written = <<>> /\ Received = {}
  BY ReceivedType DEF IInv, FrameInv
<1>4. owner.status # "Completed"
  BY <1>3 DEF IInv, RowInv
<1>5. f \in Fenced /\ wire \subseteq Fenced /\ Fenced \subseteq Frames
  BY DEF Fenced, Frames
<1>6. wire = {f}
  BY <1>4, <1>5 DEF IInv, FrameInv
<1>7. wire' = {} /\ Len(written') = 1
  BY <1>2, <1>3, <1>6 DEF Write
<1>8. Fenced' = Fenced /\ Frames' = Frames
  BY <1>1, <1>2, <1>3, <1>5, <1>6, <1>7 DEF Fenced, Frames
<1>9. RowInv'
  BY <1>1, <1>2, <1>4 DEF IInv, RowInv
<1>10. FrameInv'
  BY <1>1, <1>2, <1>7, <1>8 DEF IInv, FrameInv
<1>11. \A q \in Caller : Owns(q) => RowKept
  BY <1>1 DEF RowKept, IInv, CallInv, OwnsInv
<1>12. \A q \in Caller : Fine(q)'
  BY <1>1, <1>2, <1>8, <1>11, NowFine, KeepsFine
<1>13. CallInv'
  BY <1>1, <1>12, Shift
<1> QED
  BY <1>9, <1>10, <1>13

-----------------------------------------------------------------------------
(* Outcomes: what delivery_in does with each that can be true. *)
framing == <<issued, queue, begun, wire, written, marked, resolved>>

\* A submission or an unknown outcome changes the status of the current response.
LEMMA MoveStatus ==
  ASSUME IInv, TypeOK', NEW x, NEW o \in {"Submitted", "Unknown"}, Moves(x, o), Move(o),
         UNCHANGED framing
  PROVE  /\ RowInv' /\ FrameInv' /\ RowKept
         /\ UNCHANGED Frames /\ UNCHANGED Received
<1>1. UNCHANGED <<issued, queue, begun, wire, written, marked, resolved>>
  BY DEF framing
<1>2. UNCHANGED Received /\ UNCHANGED Fenced /\ UNCHANGED Frames
  BY <1>1, ReceivedSame DEF Fenced, Frames
<1>3. row # NoRow /\ owner.status # "Completed"
  BY DEF Moves, Current
<1>4. RowKept /\ row'.status = o /\ row'.fingerprint = row.fingerprint
  BY <1>3, MoveIs, RowFields DEF RowKept, IInv
<1>5. /\ card'.status \in {"Answering", "Uncertain"} /\ card'.answer = card.answer
      /\ owner'.reply = owner.reply /\ owner'.status # "Completed"
  BY <1>3, MoveIs DEF IInv, TypeOK, Card, Owner
<1>6. RowInv'
  BY <1>1, <1>2, <1>3, <1>4, <1>5 DEF IInv, RowInv, RowKept
<1>7. FrameInv'
  BY <1>1, <1>2, <1>3, <1>4, <1>5 DEF IInv, FrameInv, RowKept
<1> QED
  BY <1>2, <1>4, <1>6, <1>7

\* An unsent reply reopens the card; no fenced frame may be left.
LEMMA MoveNotSent ==
  ASSUME IInv, TypeOK', Move("NotSent"), Fenced' = {},
         UNCHANGED <<issued, written, marked, queue>>
  PROVE  RowInv' /\ FrameInv'
<1>1. UNCHANGED Received
  BY ReceivedSame
<1>2. card'.status = "Pending" /\ row' = NoRow /\ owner'.status = "Queued"
  <2>1. /\ card' = [status |-> "Pending", answer |-> NoAnswer]
        /\ owner' = [owner EXCEPT !.status = "Queued", !.reply = 0]
        /\ row' = NoRow
    BY MoveIs
  <2> QED
    BY <2>1 DEF IInv, TypeOK, Owner
<1>3. RowInv'
  BY <1>1, <1>2 DEF RowInv
<1>4. Frames' \subseteq Frames /\ wire' = {}
  BY DEF Frames, Fenced
<1>5. FrameInv'
  BY <1>1, <1>2, <1>4 DEF IInv, FrameInv
<1> QED
  BY <1>3, <1>5

\* A written reply completes the owner with what the provider has.
LEMMA MoveWritten ==
  ASSUME IInv, TypeOK', NEW f \in Received, row # NoRow, row.attempt = f.attempt,
         Move("Written"),
         begun' \subseteq begun, UNCHANGED <<issued, queue, wire, written, marked>>
  PROVE  /\ RowInv' /\ FrameInv' /\ Frames' \subseteq Frames /\ UNCHANGED Received
         /\ owner'.status = "Completed" /\ card'.answer = f.answer
<1>1. UNCHANGED Received
  BY ReceivedSame
<1>2. Frames' \subseteq Frames /\ Fenced' \subseteq Fenced /\ f \in Frames
  BY <1>1 DEF Frames, Fenced
<1>3. /\ card'.status \in {"Deleted", "Answered"} /\ card'.answer = card.answer
      /\ owner'.status = "Completed" /\ owner'.reply = owner.reply /\ row' = NoRow
  BY MoveIs DEF IInv, TypeOK, Card, Owner
<1>4. card'.answer = f.answer /\ owner'.reply = f.attempt
  BY <1>2, <1>3 DEF IInv, RowInv, FrameInv
<1>5. RowInv'
  BY <1>1, <1>3, <1>4 DEF RowInv
<1>6. owner.status # "Completed"
  BY DEF IInv, RowInv
<1>7. FrameInv'
  BY <1>1, <1>2, <1>3, <1>4, <1>6 DEF IInv, FrameInv
<1> QED
  BY <1>1, <1>2, <1>3, <1>4, <1>5, <1>7

LEMMA SubmitInv ==
  ASSUME IInv, TypeOK', NEW p \in Caller, Submit(p)
  PROVE  RowInv' /\ FrameInv' /\ CallInv'
<1> DEFINE x == calls[p].attempt
<1>1. UNCHANGED framing
  BY DEF Submit, framing, worker, world
<1>2. /\ row # NoRow /\ row.attempt = x /\ row.answer = calls[p].answer /\ Gone(x)
      /\ calls[p].told = "nothing" /\ owner.status # "Completed"
  BY DEF Submit, Owns, IInv, CallInv, OwnsInv, ToldInv, RowInv
<1>3. CASE Moves(x, "Submitted")
  <2>1. Move("Submitted")
    BY <1>3 DEF Submit, Deliver
  <2>2. /\ RowInv' /\ FrameInv' /\ RowKept /\ UNCHANGED Frames /\ UNCHANGED Received
    BY <1>1, <1>3, <2>1, MoveStatus
  <2>3. To(p, "port") \/ Failed(p)
    BY <1>3 DEF Submit
  <2>4. \A q \in Caller : q # p => calls'[q] = calls[q]
    BY <2>3 DEF To, Failed, IInv, TypeOK
  <2>5. \/ calls'[p] = Blank
        \/ /\ calls'[p].at = "port" /\ calls'[p].attempt = x
           /\ calls'[p].answer = calls[p].answer /\ calls'[p].told = "nothing"
    BY <1>2, <2>3 DEF To, Failed, IInv, TypeOK, Call
  <2>6. Fine(p)'
    BY <1>2, <2>2, <2>5, BlankFineNext DEF Fine, RowKept, Gone
  <2>7. \A q \in Caller : q # p => Fine(q)'
    BY <1>1, <1>2, <2>2, <2>4, NowFine, KeepsFine DEF framing
  <2>8. CallInv'
    BY <1>1, <2>4, <2>5, <2>6, <2>7, BlankIs, Shift DEF framing
  <2> QED
    BY <2>2, <2>8
<1>4. CASE ~Moves(x, "Submitted")
  <2>1. ~Kept(x, "Submitted")
    BY <1>2 DEF Kept
  <2>2. Failed(p) /\ UNCHANGED db
    BY <1>4, <2>1 DEF Submit, Deliver
  <2>3. UNCHANGED delivery /\ calls' = [calls EXCEPT ![p] = Blank]
    BY <1>1, <2>2 DEF delivery, framing, db, Failed
  <2> QED
    BY <2>3, BlankMay, StillCalls
<1> QED
  BY <1>3, <1>4

LEMMA ProbeInv ==
  ASSUME IInv, TypeOK', Probe
  PROVE  RowInv' /\ FrameInv' /\ CallInv'
<1>1. UNCHANGED <<calls, issued, queue, begun, wire, written, marked, resolved>>
  BY DEF Probe, world
<1>2. CASE UNCHANGED db
  BY <1>1, <1>2, StillInv DEF delivery, db
<1>3. CASE row # NoRow /\ row.attempt \in marked /\ Moves(row.attempt, "Written") /\ Move("Written")
  <2>1. PICK f \in Received : f.attempt = row.attempt
    BY <1>3 DEF IInv, FrameInv
  <2>2. /\ RowInv' /\ FrameInv' /\ Frames' \subseteq Frames /\ UNCHANGED Received
    BY <1>1, <1>3, <2>1, MoveWritten
  <2>3. owner.status # "Completed"
    BY <1>3 DEF IInv, RowInv
  <2>4. \A q \in Caller : ~Owns(q)
    BY <2>1 DEF IInv, CallInv, OwnsInv, Gone, Frames, Fenced
  <2>5. \A q \in Caller : Fine(q)'
    BY <1>1, <2>2, <2>3, <2>4, NowFine, KeepsFine
  <2>6. CallInv'
    BY <1>1, <2>5, Shift
  <2> QED
    BY <2>2, <2>6
<1> QED
  BY <1>2, <1>3 DEF Probe, Deliver

LEMMA SettleInv ==
  ASSUME IInv, TypeOK', NEW p \in Caller, Settle(p)
  PROVE  RowInv' /\ FrameInv' /\ CallInv'
<1> DEFINE x == calls[p].attempt
           o == calls[p].outcome
<1>1. UNCHANGED framing /\ calls[p].at = "receipt" /\ o \in Outcome
  BY DEF Settle, framing, worker, world, IInv, TypeOK, Call
<1>2. /\ x # 0
      /\ o = "NotSent" => Gone(x)
      /\ o = "Written" => owner.status = "Completed" /\ card.answer = calls[p].answer
  BY <1>1 DEF IInv, CallInv, WaitInv
<1>3. /\ RowInv' /\ FrameInv' /\ UNCHANGED Frames /\ UNCHANGED Received
      /\ \A q \in Caller : q # p /\ Owns(q) => RowKept
      /\ owner.status = "Completed" => UNCHANGED <<card, owner>>
  <2>1. CASE ~Moves(x, o)
    <3>1. UNCHANGED db
      BY <2>1 DEF Settle, Deliver
    <3>2. UNCHANGED delivery
      BY <1>1, <3>1 DEF delivery, db, framing
    <3>3. UNCHANGED <<card, owner, row>>
      BY <3>1 DEF db
    <3>4. \A q \in Caller : Owns(q) => RowKept
      BY <3>3 DEF RowKept, IInv, CallInv, OwnsInv
    <3> QED
      BY <3>2, <3>3, <3>4, Still DEF IInv
  <2>2. ASSUME Moves(x, o)
        PROVE  /\ Move(o) /\ row # NoRow /\ row.attempt = x /\ owner.status # "Completed"
               /\ o # "Written"
    BY <1>2, <2>2 DEF Settle, Deliver, Moves, Current
  <2>3. CASE Moves(x, o) /\ o = "Unknown"
    <3>1. Move("Unknown") /\ Moves(x, "Unknown")
      BY <2>2, <2>3
    <3> QED
      BY <1>1, <2>2, <2>3, <3>1, MoveStatus
  <2>4. CASE Moves(x, o) /\ o = "NotSent"
    <3>1. Move("NotSent")
      BY <2>2, <2>4
    <3>2. UNCHANGED <<issued, queue, begun, wire, written, marked, resolved>>
      BY <1>1 DEF framing
    <3>3. UNCHANGED Received /\ UNCHANGED Fenced /\ UNCHANGED Frames
      BY <3>2, ReceivedSame DEF Fenced, Frames
    <3>4. Fenced \subseteq Frames
      BY DEF Frames
    <3>5. Fenced = {}
      BY <1>2, <2>2, <2>4, <3>4 DEF IInv, FrameInv, Gone
    <3>6. RowInv' /\ FrameInv'
      BY <3>1, <3>2, <3>3, <3>5, MoveNotSent
    <3>7. \A q \in Caller : q # p => ~Owns(q)
      BY <1>2, <2>2, <2>4 DEF IInv, CallInv, OwnsInv, AttemptInv
    <3> QED
      BY <2>2, <2>4, <3>3, <3>6, <3>7
  <2> QED
    BY <1>1, <2>1, <2>2, <2>3, <2>4 DEF Outcome
<1>4. \/ calls' = [calls EXCEPT ![p] = Blank]
      \/ /\ o = "Written"
         /\ calls' = [calls EXCEPT ![p] = [Blank EXCEPT !.answer = calls[p].answer, !.told = "answered"]]
      \/ /\ o = "NotSent"
         /\ calls' = [calls EXCEPT ![p] = [Blank EXCEPT !.attempt = x, !.told = "rejected"]]
  BY <1>1 DEF Settle, Failed, Answered, Outcome
<1>5. \A q \in Caller : q # p => calls'[q] = calls[q]
  BY <1>4 DEF IInv, TypeOK
<1>6. \/ calls'[p] = Blank
      \/ /\ o = "Written" /\ calls'[p].at = "idle" /\ calls'[p].attempt = 0
         /\ calls'[p].told = "answered" /\ calls'[p].answer = calls[p].answer
      \/ /\ o = "NotSent" /\ calls'[p].at = "idle" /\ calls'[p].attempt = x
         /\ calls'[p].told = "rejected"
  BY <1>4 DEF Blank, IInv, TypeOK
<1>7. Fine(p)'
  <2>1. o = "Written" => \E f \in Received' : f.answer = calls[p].answer
    BY <1>2, <1>3 DEF IInv, RowInv
  <2>2. o = "NotSent" => \A f \in Frames' : f.attempt # x
    BY <1>2, <1>3 DEF Gone
  <2> QED
    BY <1>6, <2>1, <2>2, BlankFineNext DEF Fine, Owns, Gone
<1>8. \A q \in Caller : q # p => Fine(q)'
  BY <1>1, <1>3, <1>5, NowFine, KeepsFine DEF framing
<1>9. CallInv'
  BY <1>1, <1>5, <1>6, <1>7, <1>8, BlankIs, Shift DEF framing
<1> QED
  BY <1>3, <1>9

\* The receipt of a frame that says what is true keeps every call fine.
LEMMA ReplyFine ==
  ASSUME IInv, TypeOK', UNCHANGED issued,
         NEW f \in Frames, NEW o \in Outcome, Reply(f, o),
         Frames' \subseteq Frames, Received \subseteq Received', resolved => resolved',
         owner.status = "Completed" => owner'.status = "Completed" /\ card'.answer = card.answer,
         \A q \in Caller : Owns(q) => RowKept,
         o = "NotSent" => Gone(f.attempt)',
         o = "Written" => owner'.status = "Completed" /\ card'.answer = f.answer
  PROVE  CallInv'
<1>1. f \in Frame
  BY ReceivedType DEF IInv, TypeOK, Frames, Fenced
<1>2. f.caller \in Caller
  BY <1>1 DEF Frame
<1>3. CASE ~Waits(f)
  <2>1. UNCHANGED calls
    BY <1>3 DEF Reply
  <2>2. \A q \in Caller : Fine(q)'
    BY <2>1, NowFine, KeepsFine
  <2> QED
    BY <2>1, <2>2, Shift
<1>4. CASE Waits(f)
  <2> DEFINE p == f.caller
  <2>1. /\ calls[p].at = "waiting" /\ calls[p].attempt = f.attempt
        /\ calls[p].attempt # 0 /\ calls[p].answer = f.answer /\ calls[p].told = "nothing"
    BY <1>2, <1>4 DEF Waits, IInv, CallInv, WaitInv, ToldInv
  <2>2. /\ calls'[p].at = "receipt" /\ calls'[p].outcome = o
        /\ calls'[p].attempt = f.attempt /\ calls'[p].answer = f.answer
        /\ calls'[p].told = "nothing"
        /\ \A q \in Caller : q # p => calls'[q] = calls[q]
    <3>1. calls' = [calls EXCEPT ![p] = [calls[p] EXCEPT !.at = "receipt", !.outcome = o]]
      BY <1>4 DEF Reply, Receipt
    <3>2. p \in Caller /\ calls \in [Caller -> Call] /\ calls[p] \in Call
      BY <1>2 DEF IInv, TypeOK
    <3> HIDE DEF p
    <3>3. /\ calls'[p] = [calls[p] EXCEPT !.at = "receipt", !.outcome = o]
          /\ \A q \in Caller : q # p => calls'[q] = calls[q]
      BY <3>1, <3>2
    <3> QED
      BY <2>1, <3>2, <3>3 DEF Call
  <2>3. \A g \in Frames' : g.attempt = f.attempt => g.answer = f.answer
    BY DEF IInv, FrameInv
  <2>4. Fine(p)'
    BY <2>1, <2>2, <2>3 DEF Fine, Owns, Gone
  <2>5. \A q \in Caller : q # p => Fine(q)'
    BY <2>2, NowFine, KeepsFine
  <2>6. \A q \in Caller : calls'[q].attempt \in {0, calls[q].attempt}
    BY <2>1, <2>2
  <2> QED
    BY <2>4, <2>5, <2>6, Shift
<1> QED
  BY <1>3, <1>4

LEMMA DiscardInv ==
  ASSUME IInv, TypeOK', NEW f \in queue, Discard(f)
  PROVE  RowInv' /\ FrameInv' /\ CallInv'
<1>1. UNCHANGED <<card, owner, row, issued, begun, wire, written, marked, resolved>>
  BY DEF Discard, db, world
<1>2. queue' = queue \ {f}
  BY DEF Discard
<1>3. FrameInv' /\ Frames' \subseteq Frames /\ UNCHANGED Received
  BY <1>1, <1>2, LoseFrames
<1>4. RowInv'
  BY <1>1, <1>3 DEF IInv, RowInv
<1>5. f \in Frames /\ f \notin Frames'
  BY <1>1, <1>2, <1>3 DEF Frames, Fenced, IInv, FrameInv
<1>6. Gone(f.attempt)'
  BY <1>3, <1>5 DEF IInv, FrameInv, Gone
<1>7. \A q \in Caller : Owns(q) => RowKept
  BY <1>1 DEF RowKept, IInv, CallInv, OwnsInv
<1>8. CallInv'
  BY <1>1, <1>3, <1>5, <1>6, <1>7, ReplyFine DEF Discard, Outcome
<1> QED
  BY <1>3, <1>4, <1>8

LEMMA BeginInv ==
  ASSUME IInv, TypeOK', NEW f \in queue, Begin(f)
  PROVE  RowInv' /\ FrameInv' /\ CallInv'
<1>1. UNCHANGED <<card, owner, issued, written, marked, resolved>> /\ UNCHANGED Received
  BY ReceivedSame DEF Begin
<1>2. f \in Frames /\ f \notin Fenced
  BY DEF Frames, IInv, FrameInv
<1>3. CASE Admission(f) = "Send"
  <2>1. /\ row # NoRow /\ row.attempt = f.attempt /\ ~row.fingerprint
        /\ UNCHANGED calls
        /\ row' = [row EXCEPT !.fingerprint = TRUE, !.status = "Submitted"]
        /\ queue' = queue \ {f} /\ begun' = begun \cup {f} /\ wire' = wire \cup {f}
    BY <1>3 DEF Admission, Begin
  <2>2. row' \in Row /\ row' # NoRow
    <3>1. row \in Row
      BY <2>1 DEF IInv, TypeOK
    <3>2. row' \in Row
      BY <2>1, <3>1 DEF Row
    <3> QED
      BY <3>2, NoRowAssumption
  <2>3. /\ row'.attempt = row.attempt /\ row'.answer = row.answer
        /\ row'.fingerprint /\ row'.status = "Submitted"
    BY <2>1 DEF IInv, TypeOK, Row
  <2>4. owner.status # "Completed"
    BY <2>1 DEF IInv, RowInv
  <2>5. Fenced = {}
    BY <2>1, <2>4 DEF IInv, FrameInv
  <2>6. Received = {} /\ written = <<>>
    BY <2>5, ReceivedType DEF Fenced, IInv
  <2>7. Fenced' = {f} /\ Frames' = Frames
    BY <1>1, <2>1, <2>5 DEF Fenced, Frames
  <2>8. RowInv'
    BY <1>1, <2>1, <2>2, <2>3 DEF IInv, RowInv
  <2>9. FrameInv'
    BY <1>1, <1>2, <2>1, <2>2, <2>3, <2>6, <2>7 DEF IInv, FrameInv
  <2>10. \A q \in Caller : Owns(q) => RowKept
    BY <2>2, <2>3 DEF RowKept
  <2>11. \A q \in Caller : Fine(q)'
    BY <1>1, <2>1, <2>7, <2>10, NowFine, KeepsFine
  <2>12. CallInv'
    BY <1>1, <2>1, <2>11, Shift
  <2> QED
    BY <2>8, <2>9, <2>12
<1>4. ASSUME Admission(f) # "Send"
      PROVE  /\ UNCHANGED <<row, wire>> /\ RowInv' /\ FrameInv' /\ Frames' \subseteq Frames
             /\ \A q \in Caller : Owns(q) => RowKept
  <2>1. UNCHANGED <<row, wire>> /\ queue' \subseteq queue /\ begun' \subseteq begun
    BY <1>4 DEF Begin, WorkerEnds
  <2>2. FrameInv' /\ Frames' \subseteq Frames
    BY <1>1, <2>1, LoseFrames
  <2>3. RowInv'
    BY <1>1, <2>1 DEF IInv, RowInv
  <2>4. \A q \in Caller : Owns(q) => RowKept
    BY <2>1 DEF RowKept, IInv, CallInv, OwnsInv
  <2> QED
    BY <2>1, <2>2, <2>3, <2>4
<1>5. CASE Admission(f) = "Error"
  <2>1. UNCHANGED calls
    BY <1>5 DEF Begin
  <2>2. \A q \in Caller : Fine(q)'
    BY <1>1, <1>4, <1>5, <2>1, NowFine, KeepsFine
  <2>3. CallInv'
    BY <1>1, <2>1, <2>2, Shift
  <2> QED
    BY <1>4, <1>5, <2>3
<1>6. CASE Admission(f) \in {"Written", "Unknown"}
  <2>1. Reply(f, Admission(f)) /\ Admission(f) \in Outcome /\ Admission(f) # "NotSent"
    BY <1>6 DEF Begin, Outcome
  <2>2. Admission(f) = "Written" => owner.status = "Completed" /\ owner.reply = f.attempt
    BY DEF Admission
  <2>3. Received \subseteq Frames
    BY DEF Frames, Fenced
  <2>4. Admission(f) = "Written" => owner'.status = "Completed" /\ card'.answer = f.answer
    BY <1>1, <1>2, <2>2, <2>3 DEF IInv, RowInv, FrameInv
  <2>5. CallInv'
    BY <1>1, <1>2, <1>4, <1>6, <2>1, <2>4, ReplyFine
  <2> QED
    BY <1>4, <1>6, <2>5
<1> QED
  BY <1>3, <1>5, <1>6 DEF Admission

LEMMA FrameOutcomeInv ==
  ASSUME IInv, TypeOK', NEW f \in begun, NEW o \in Outcome, FrameOutcome(f, o)
  PROVE  RowInv' /\ FrameInv' /\ CallInv'
<1>1. UNCHANGED <<issued, written, marked, resolved>> /\ UNCHANGED Received
  BY ReceivedSame DEF FrameOutcome
<1>2. f \in Frames /\ f \in Fenced /\ f \notin queue
  BY DEF Frames, Fenced, IInv, FrameInv
<1>3. wire' \subseteq wire
  BY DEF FrameOutcome
<1>4. CASE row = NoRow \/ row.attempt # f.attempt
  <2>1. UNCHANGED <<card, owner, row, calls>> /\ queue' \subseteq queue /\ begun' \subseteq begun
    BY <1>4 DEF FrameOutcome, WorkerEnds, db
  <2>2. FrameInv' /\ Frames' \subseteq Frames
    BY <1>1, <1>3, <2>1, LoseFrames
  <2>3. RowInv'
    BY <1>1, <2>1 DEF IInv, RowInv
  <2>4. \A q \in Caller : Owns(q) => RowKept
    BY <2>1 DEF RowKept, IInv, CallInv, OwnsInv
  <2>5. \A q \in Caller : Fine(q)'
    BY <1>1, <2>1, <2>2, <2>4, NowFine, KeepsFine
  <2>6. CallInv'
    BY <1>1, <2>1, <2>5, Shift
  <2> QED
    BY <2>2, <2>3, <2>6
<1>5. CASE row # NoRow /\ row.attempt = f.attempt
  <2>1. /\ Deliver(f.attempt, o) /\ Reply(f, o)
        /\ begun' = begun \ {f} /\ UNCHANGED queue
    BY <1>5 DEF FrameOutcome
  <2>2. row.fingerprint /\ row.status # "Pending" /\ owner.status # "Completed"
    BY <1>2, <1>5 DEF IInv, RowInv, FrameInv
  <2>3. \A q \in Caller : ~Owns(q)
    BY <1>2, <1>5 DEF IInv, CallInv, OwnsInv, Gone
  <2>4. \A g \in Fenced : g = f
    BY <1>2, <1>5, <2>2 DEF IInv, FrameInv, Frames
  <2>5. Frames' \subseteq Frames
    BY <1>1, <1>3, <2>1 DEF Frames, Fenced
  <2>6. /\ RowInv' /\ FrameInv'
        /\ o = "Written" => owner'.status = "Completed" /\ card'.answer = f.answer
        /\ o = "NotSent" => f \notin Frames'
    <3>1. CASE o = "Written"
      <4>1. f \in Received /\ UNCHANGED wire
        BY <3>1 DEF FrameOutcome, Possible
      <4>2. Moves(f.attempt, "Written")
        <5>1. row.status \in {"Submitted", "Unknown"}
          BY <1>5, <2>2 DEF IInv, TypeOK, Row
        <5> QED
          BY <1>5, <2>2, <5>1 DEF Moves, Current
      <4>3. Move("Written")
        BY <2>1, <3>1, <4>2 DEF Deliver
      <4> QED
        BY <1>1, <1>5, <2>1, <3>1, <4>1, <4>3, MoveWritten
    <3>2. CASE o = "NotSent"
      <4>1. f \in wire /\ wire' = wire \ {f}
        BY <3>2 DEF FrameOutcome, Possible
      <4>2. Received = {}
        BY <4>1, ReceivedType DEF IInv, FrameInv
      <4>3. Fenced' = {}
        BY <1>1, <2>1, <2>4, <4>1, <4>2 DEF Fenced
      <4>4. f \notin Frames'
        BY <1>2, <2>1, <4>3 DEF Frames
      <4>5. CASE Move("NotSent")
        BY <1>1, <2>1, <3>2, <4>3, <4>4, <4>5, MoveNotSent
      <4>6. CASE UNCHANGED db
        <5>1. UNCHANGED <<card, owner, row>>
          BY <4>6 DEF db
        <5>2. FrameInv'
          BY <1>1, <1>3, <2>1, <5>1, LoseFrames
        <5>3. RowInv'
          BY <1>1, <5>1 DEF IInv, RowInv
        <5> QED
          BY <3>2, <4>4, <5>2, <5>3
      <4> QED
        BY <2>1, <3>2, <4>5, <4>6 DEF Deliver
    <3>3. CASE o = "Unknown"
      <4>1. UNCHANGED wire
        BY <3>3 DEF FrameOutcome
      <4>2. \/ UNCHANGED db
            \/ Move("Unknown")
        BY <2>1, <3>3 DEF Deliver
      <4>3. /\ card'.answer = card.answer
            /\ card'.status \in {"Uncertain", card.status}
            /\ owner'.reply = owner.reply /\ owner'.status \in {"Unknown", owner.status}
        BY <4>2, MoveIs DEF db, IInv, TypeOK, Card, Owner
      <4>4. /\ RowKept /\ row'.fingerprint = row.fingerprint
            /\ row'.status \in {"Unknown", row.status}
        BY <1>5, <4>2, MoveIs, RowFields DEF db, RowKept, IInv
      <4>5. RowInv'
        BY <1>1, <1>5, <2>2, <4>3, <4>4 DEF IInv, RowInv, RowKept
      <4>6. Fenced' \subseteq Fenced
        BY <1>1, <2>1, <4>1 DEF Fenced
      <4>7. FrameInv'
        BY <1>1, <1>5, <2>1, <2>2, <2>5, <4>1, <4>3, <4>4, <4>6 DEF IInv, FrameInv, RowKept
      <4> QED
        BY <3>3, <4>5, <4>7
    <3> QED
      BY <3>1, <3>2, <3>3 DEF Outcome
  <2>7. o = "NotSent" => Gone(f.attempt)'
    BY <1>2, <2>5, <2>6 DEF IInv, FrameInv, Gone
  <2>8. CallInv'
    BY <1>1, <1>2, <2>1, <2>2, <2>3, <2>5, <2>6, <2>7, ReplyFine
  <2> QED
    BY <2>6, <2>8
<1> QED
  BY <1>4, <1>5

-----------------------------------------------------------------------------
LEMMA InvNext == IInv /\ [Next]_vars => IInv'
<1> SUFFICES ASSUME IInv, [Next]_vars
             PROVE  IInv'
  OBVIOUS
<1>1. TypeOK'
  BY TypeNext DEF IInv
<1>2. RowInv' /\ FrameInv' /\ CallInv'
  <2>1. ASSUME NEW p \in Caller, CallStep(p)
        PROVE  RowInv' /\ FrameInv' /\ CallInv'
    BY <1>1, <2>1, PrepareInv, ReplaysInv, RefusedInv, DeleteStateInv, ReadyInv, SubmitInv,
       EnqueueInv, NotQueuedInv, TimesOutInv, SettleInv, Zenon DEF CallStep
  <2>2. CASE Attach
    BY <2>2, StillInv DEF Attach, delivery, db, world
  <2>3. CASE ProviderEnds
    BY <2>3, StillInv DEF ProviderEnds, delivery, db, worker
  <2>4. CASE TurnEnds
    BY <2>4, StillInv DEF TurnEnds, delivery, db, worker, world
  <2>5. CASE UNCHANGED vars
    BY <2>5, StillInv DEF vars, delivery
  <2>6. CASE \E p \in Caller :
               (\E a \in UserAnswer : Ask(p, a, FALSE)) \/ Ask(p, Cancel, TRUE) \/ Drop(p)
    BY <2>6, AskInv, DropInv, Zenon
  <2>7. CASE \E f \in queue : Discard(f) \/ Begin(f)
    BY <1>1, <2>7, DiscardInv, BeginInv, Zenon
  <2>8. CASE \E f \in begun, o \in Outcome : FrameOutcome(f, o)
    BY <1>1, <2>8, FrameOutcomeInv, Zenon
  <2>9. CASE (\E f \in wire : Write(f)) \/ (\E f \in Received : Mark(f))
    BY <1>1, <2>9, WriteInv, MarkInv, Zenon
  <2>10. CASE Detach \/ Probe \/ ExpireEnded \/ Resolve \/ \E clean \in BOOLEAN : Restart(clean)
    BY <1>1, <2>10, DetachInv, ProbeInv, ExpireEndedInv, ResolveInv, RestartInv, Zenon
  <2> QED
    BY <2>1, <2>2, <2>3, <2>4, <2>5, <2>6, <2>7, <2>8, <2>9, <2>10, Zenon DEF Next
<1> QED
  BY <1>1, <1>2 DEF IInv

LEMMA InvAlways == Spec => []IInv
<1> QED
  BY InvInit, InvNext, PTL DEF Spec

(* Every reachable state is well typed. *)
THEOREM TypeCorrect == Spec => []TypeOK
<1>1. IInv => TypeOK
  BY DEF IInv
<1> QED
  BY <1>1, InvAlways, PTL

(* The provider receives at most one reply: begin_frame fences the only     *)
(* frame of the current attempt, and no other attempt is prepared until it  *)
(* is known that this one was not sent.                                     *)
THEOREM AtMostOneReply == Spec => []WrittenOnce
<1>1. IInv => WrittenOnce
  BY DEF IInv, FrameInv, WrittenOnce
<1> QED
  BY <1>1, InvAlways, PTL

(* delivery_in completes the owner and answers the card only with the       *)
(* answer the provider has.                                                 *)
THEOREM AnsweredIsTrue == Spec => []AnsweredTrue
<1>1. IInv => AnsweredTrue
  BY DEF IInv, RowInv, AnsweredTrue
<1> QED
  BY <1>1, InvAlways, PTL

LEMMA WaitingFact == IInv => WaitingUnsent
<1> SUFFICES ASSUME IInv, card.status = "Pending"
             PROVE  written = <<>> /\ wire = {} /\ begun = {}
  BY DEF WaitingUnsent
<1>1. row = NoRow /\ owner.status # "Completed"
  BY DEF IInv, RowInv
<1>2. Fenced = {}
  BY <1>1 DEF IInv, FrameInv
<1> QED
  BY <1>2, ReceivedType DEF Fenced, IInv

(* A card is put before the user, or back, only when no reply of its        *)
(* request was written or still can be.                                     *)
THEOREM WaitingIsUnsent == Spec => []WaitingUnsent
BY WaitingFact, InvAlways, PTL

(* "answered" and "rejected before submission" stay true for the HTTP call  *)
(* that was told them.                                                      *)
THEOREM ToldIsTrue == Spec => []ToldTrue
<1>1. IInv => ToldTrue
  <2> SUFFICES ASSUME IInv
               PROVE  ToldTrue
    OBVIOUS
  <2>1. Received \cup wire \cup queue \subseteq Frames
    BY DEF Frames, Fenced
  <2> QED
    BY <2>1 DEF IInv, CallInv, ToldInv, Gone, ToldTrue
<1> QED
  BY <1>1, InvAlways, PTL

-----------------------------------------------------------------------------
(* The refinement of AnswerSlot. *)

\* A step that does not write: the response stays, or is given back, or the
\* provider has its reply already.
LEMMA SlotMove ==
  ASSUME IInv, IInv', UNCHANGED written,
         \/ /\ row # NoRow => RowKept
            /\ row = NoRow => row' = NoRow /\ (card'.status = "Pending" => card.status = "Pending")
         \/ row # NoRow /\ card'.status = "Pending"
         \/ written # <<>>
  PROVE  [Slot!Next]_AnswerState
<1>1. CASE written # <<>>
  BY <1>1 DEF AnswerState
<1>2. CASE written = <<>> /\ row # NoRow /\ RowKept
  BY <1>2 DEF AnswerState, RowKept
<1>3. CASE written = <<>> /\ row # NoRow /\ card'.status = "Pending"
  <2>1. row' = NoRow
    BY <1>3 DEF IInv, RowInv
  <2>2. AnswerState.is = "claimed" /\ AnswerState' = [is |-> "open", by |-> NoAnswer]
    BY <1>3, <2>1 DEF AnswerState
  <2> QED
    BY <2>2 DEF Slot!Next, Slot!Release
<1>4. CASE written = <<>> /\ row = NoRow /\ row' = NoRow
           /\ (card'.status = "Pending" <=> card.status = "Pending")
  BY <1>4 DEF AnswerState
<1>5. CASE written = <<>> /\ row = NoRow /\ row' = NoRow
           /\ card.status = "Pending" /\ card'.status # "Pending"
  <2>1. AnswerState.is = "open" /\ AnswerState' = [is |-> "closed", by |-> NoAnswer]
    BY <1>5 DEF AnswerState
  <2> QED
    BY <2>1 DEF Slot!Next, Slot!Close
<1> QED
  BY <1>1, <1>2, <1>3, <1>4, <1>5

\* An outcome of the current response moves the slot.
LEMMA SlotDeliver ==
  ASSUME IInv, IInv', UNCHANGED written, NEW x, NEW o \in {"Submitted"} \cup Outcome,
         Deliver(x, o), o = "Written" => written # <<>>
  PROVE  [Slot!Next]_AnswerState
<1>1. CASE ~Moves(x, o)
  <2>1. UNCHANGED <<card, row>>
    BY <1>1 DEF Deliver, db
  <2>2. row # NoRow => RowKept
    BY <2>1 DEF RowKept
  <2> QED
    BY <2>1, <2>2, SlotMove
<1>2. CASE Moves(x, o) /\ o \in {"Submitted", "Unknown"}
  <2>1. row # NoRow /\ Move(o)
    BY <1>2 DEF Deliver, Moves, Current
  <2>2. RowKept
    BY <1>2, <2>1, MoveIs, RowFields DEF RowKept, IInv
  <2> QED
    BY <2>1, <2>2, SlotMove
<1>3. CASE Moves(x, o) /\ o = "NotSent"
  <2>1. row # NoRow /\ Move("NotSent")
    BY <1>3 DEF Deliver, Moves, Current
  <2>2. card'.status = "Pending"
    BY <2>1, MoveIs
  <2> QED
    BY <2>1, <2>2, SlotMove
<1>4. CASE o = "Written"
  BY <1>4, SlotMove
<1> QED
  BY <1>1, <1>2, <1>3, <1>4 DEF Outcome

LEMMA SlotStill ==
  ASSUME IInv, IInv', UNCHANGED <<card, row, written>>
  PROVE  [Slot!Next]_AnswerState
<1>1. row # NoRow => RowKept
  BY DEF RowKept
<1> QED
  BY <1>1, SlotMove

LEMMA PrepareClaims ==
  ASSUME IInv, NEW p \in Caller, Prepare(p), TypeOK'
  PROVE  Slot!Claim
<1>1. card.status = "Pending" /\ row = NoRow
  BY DEF Prepare, Answerable
<1>2. written = <<>> /\ written' = <<>>
  BY <1>1, WaitingFact DEF WaitingUnsent, Prepare, world
<1>3. calls[p].answer \in Answer /\ calls[p].deleting \in BOOLEAN /\ issued' \in Nat
  BY DEF IInv, TypeOK, Call, Prepare
<1>4. row' = [status |-> "Pending", attempt |-> issued', answer |-> calls[p].answer,
              fingerprint |-> FALSE, deleting |-> calls[p].deleting]
  BY DEF Prepare
<1>5. row' \in Row
  BY <1>3, <1>4 DEF Row
<1>6. row' # NoRow /\ row'.answer = calls[p].answer
  BY <1>4, <1>5, NoRowAssumption
<1>7. /\ AnswerState = [is |-> "open", by |-> NoAnswer]
      /\ AnswerState' = [is |-> "claimed", by |-> calls[p].answer]
  BY <1>1, <1>2, <1>6 DEF AnswerState
<1> QED
  BY <1>3, <1>7 DEF Slot!Claim

LEMMA WriteFills ==
  ASSUME IInv, NEW f \in wire, Write(f)
  PROVE  Slot!Fill
<1>1. written = <<>> /\ written' = Append(written, f) /\ f \in Frame
  BY DEF IInv, FrameInv, TypeOK, Write
<1>2. written' # <<>> /\ written'[1] = f
  BY <1>1
<1>3. owner.status # "Completed"
  BY <1>1, ReceivedType DEF IInv, RowInv
<1>4. f \in Fenced /\ f \in Frames
  BY DEF Fenced, Frames
<1>5. row # NoRow /\ row.answer = f.answer
  BY <1>3, <1>4 DEF IInv, FrameInv
<1>6. /\ AnswerState = [is |-> "claimed", by |-> f.answer]
      /\ AnswerState' = [is |-> "filled", by |-> f.answer]
  BY <1>1, <1>2, <1>5 DEF AnswerState
<1> QED
  BY <1>6 DEF Slot!Fill

LEMMA SlotStep == IInv /\ IInv' /\ [Next]_vars => [Slot!Next]_AnswerState
<1> SUFFICES ASSUME IInv, IInv', [Next]_vars
             PROVE  [Slot!Next]_AnswerState
  OBVIOUS
<1> USE DEF db, world
<1>1. ASSUME NEW p \in Caller, CallStep(p) \/ Drop(p)
      PROVE  [Slot!Next]_AnswerState
  <2>1. CASE Prepare(p)
    BY <2>1, PrepareClaims DEF IInv, Slot!Next
  <2>2. CASE DeleteState(p)
    <3>1. UNCHANGED <<row, written>> /\ card'.status = "Deleted"
      BY <2>2 DEF DeleteState, IInv, TypeOK, Card
    <3>2. row # NoRow => RowKept
      BY <3>1 DEF RowKept
    <3> QED
      BY <3>1, <3>2, SlotMove
  <2>3. CASE Submit(p)
    BY <2>3, SlotDeliver DEF Submit
  <2>4. CASE Settle(p)
    <3>1. UNCHANGED written /\ Deliver(calls[p].attempt, calls[p].outcome)
          /\ calls[p].outcome \in Outcome /\ calls[p].at = "receipt"
      BY <2>4 DEF Settle, IInv, TypeOK, Call
    <3>2. calls[p].outcome = "Written" => written # <<>>
      BY <3>1, ReceivedType DEF IInv, CallInv, WaitInv, RowInv
    <3> QED
      BY <3>1, <3>2, SlotDeliver
  <2>5. CASE PrepareReplays(p) \/ PrepareRefused(p) \/ Ready(p) \/ Enqueue(p)
             \/ NotQueued(p) \/ TimesOut(p) \/ Drop(p)
    BY <2>5, SlotStill
       DEF PrepareReplays, PrepareRefused, Ready, Enqueue, NotQueued, TimesOut, Drop
  <2> QED
    BY <1>1, <2>1, <2>2, <2>3, <2>4, <2>5, Zenon DEF CallStep
<1>2. ASSUME NEW p \in Caller, NEW a, NEW d, Ask(p, a, d)
      PROVE  [Slot!Next]_AnswerState
  BY <1>2, SlotStill DEF Ask
<1>3. ASSUME NEW f \in queue, Discard(f) \/ Begin(f)
      PROVE  [Slot!Next]_AnswerState
  <2>1. CASE Discard(f)
    BY <2>1, SlotStill DEF Discard
  <2>2. CASE Begin(f)
    <3>1. UNCHANGED <<card, written>>
      BY <2>2 DEF Begin
    <3>2. CASE Admission(f) = "Send"
      <4>1. row # NoRow /\ row' = [row EXCEPT !.fingerprint = TRUE, !.status = "Submitted"]
        BY <2>2, <3>2 DEF Begin, Admission
      <4>2. row \in Row
        BY <4>1 DEF IInv, TypeOK
      <4>3. row' \in Row
        BY <4>1, <4>2 DEF Row
      <4>4. RowKept
        BY <4>1, <4>2, <4>3, NoRowAssumption DEF RowKept, Row
      <4> QED
        BY <3>1, <4>1, <4>4, SlotMove
    <3>3. CASE Admission(f) # "Send"
      BY <2>2, <3>1, <3>3, SlotStill DEF Begin
    <3> QED
      BY <3>2, <3>3
  <2> QED
    BY <1>3, <2>1, <2>2
<1>4. ASSUME NEW f \in begun, NEW o \in Outcome, FrameOutcome(f, o)
      PROVE  [Slot!Next]_AnswerState
  <2>1. UNCHANGED written /\ (o = "Written" => written # <<>>)
    BY <1>4, ReceivedType DEF FrameOutcome, Possible, IInv
  <2>2. Deliver(f.attempt, o) \/ UNCHANGED <<card, row>>
    BY <1>4 DEF FrameOutcome
  <2> QED
    BY <2>1, <2>2, SlotDeliver, SlotStill
<1>5. ASSUME NEW f \in wire, Write(f)
      PROVE  [Slot!Next]_AnswerState
  BY <1>5, WriteFills DEF Slot!Next
<1>6. CASE Probe
  <2>1. UNCHANGED written
    BY <1>6 DEF Probe
  <2>2. CASE UNCHANGED <<card, row>>
    BY <2>1, <2>2, SlotStill
  <2>3. CASE row # NoRow /\ row.attempt \in marked /\ Deliver(row.attempt, "Written")
    <3>1. written # <<>>
      BY <2>3, ReceivedType DEF IInv, FrameInv
    <3> QED
      BY <2>1, <2>3, <3>1, SlotDeliver DEF Outcome
  <2> QED
    BY <1>6, <2>2, <2>3 DEF Probe
<1>7. CASE ExpireEnded
  <2>1. UNCHANGED written /\ card'.status # "Pending" /\ (row = NoRow => row' = NoRow)
    BY <1>7 DEF ExpireEnded, IInv, TypeOK, Card
  <2>2. row # NoRow => RowKept
    BY <1>7, RowFields DEF ExpireEnded, RowKept, IInv
  <2> QED
    BY <2>1, <2>2, SlotMove
<1>8. CASE Resolve
  <2>1. UNCHANGED <<row, written>> /\ card'.status # "Pending"
    BY <1>8 DEF Resolve, IInv, TypeOK, Card
  <2>2. row # NoRow => RowKept
    BY <2>1 DEF RowKept
  <2> QED
    BY <2>1, <2>2, SlotMove
<1>9. ASSUME NEW clean, Restart(clean)
      PROVE  [Slot!Next]_AnswerState
  <2>1. UNCHANGED written
    BY <1>9 DEF Restart
  <2>2. CASE UNCHANGED <<card, row>>
    BY <2>1, <2>2, SlotStill
  <2>3. CASE row # NoRow /\ row' = [row EXCEPT !.status = "Unknown"]
    <3>1. RowKept
      BY <2>3, RowFields DEF RowKept, IInv
    <3> QED
      BY <2>1, <2>3, <3>1, SlotMove
  <2> QED
    BY <1>9, <2>2, <2>3 DEF Restart, Hold
<1>10. CASE (\E f \in Received : Mark(f)) \/ Detach \/ Attach \/ ProviderEnds \/ TurnEnds
  BY <1>10, SlotStill DEF Mark, Detach, Attach, ProviderEnds, TurnEnds
<1>11. CASE UNCHANGED vars
  BY <1>11, SlotStill DEF vars
<1> QED
  BY <1>1, <1>2, <1>3, <1>4, <1>5, <1>6, <1>7, <1>8, <1>9, <1>10, <1>11, Zenon DEF Next

(* The delivery of an answer implements the slot: one answer claims it, a   *)
(* claim is given up only while nothing was written, and what is written is *)
(* the claimed answer and stays.                                            *)
THEOREM DeliveryImplementsSlot == Spec => SlotSpec
<1>1. Init => Slot!Init
  BY DEF Init, Slot!Init, AnswerState
<1>2. IInv /\ IInv' /\ [Next]_vars => [Slot!Next]_AnswerState
  BY SlotStep
<1> QED
  BY <1>1, <1>2, InvAlways, PTL DEF Spec, SlotSpec, Slot!Spec

-----------------------------------------------------------------------------
(* The lifecycle gate: the part of CallsReturn that no fairness helps with. *)
(* A gate that outlived its call would stop every later delivery.           *)

\* The parts of deliver that run under the gate.
Holds(p) == calls[p].at \in {"ready", "port", "waiting"}

GateInv == \A p \in Caller : Holds(p) <=> gate = p

\* A call that is not under the gate after its step has given it back.
LEMMA GateGiven ==
  ASSUME GateInv, NEW p \in Caller, ~Holds(p)',
         \A q \in Caller \ {p} : calls'[q].at = calls[q].at,
         gate' = (IF gate = p THEN NoOne ELSE gate)
  PROVE  GateInv'
<1>1. ASSUME NEW q \in Caller
      PROVE  Holds(q)' <=> gate' = q
  <2>1. CASE q = p
    BY <2>1, NoOneAssumption
  <2>2. CASE q # p
    <3>1. Holds(q)' <=> gate = q
      BY <2>2 DEF GateInv, Holds
    <3> QED
      BY <2>2, <3>1, NoOneAssumption
  <2> QED
    BY <2>1, <2>2
<1> QED
  BY <1>1 DEF GateInv

\* A call that is under the gate after its step found it free, or its own.
LEMMA GateTaken ==
  ASSUME GateInv, NEW p \in Caller, Holds(p)',
         \A q \in Caller \ {p} : calls'[q].at = calls[q].at,
         gate \in {NoOne, p}, gate' = p
  PROVE  GateInv'
<1>1. ASSUME NEW q \in Caller
      PROVE  Holds(q)' <=> gate' = q
  <2>1. q # p => ~Holds(q)
    BY NoOneAssumption DEF GateInv
  <2> QED
    BY <2>1 DEF Holds
<1> QED
  BY <1>1 DEF GateInv

LEMMA GateStill ==
  ASSUME GateInv, UNCHANGED <<calls, gate>>
  PROVE  GateInv'
  BY DEF GateInv, Holds

\* Where a call is after its step; the others stay.
LEMMA AtIs ==
  ASSUME TypeOK, NEW p \in Caller
  PROVE  /\ Answered(p) \/ Failed(p) => calls'[p].at = "idle"
         /\ \A at : To(p, at) => calls'[p].at = at
         /\ \A o : Receipt(p, o) => calls'[p].at = "receipt" /\ gate' = NoOne
         /\ (\/ Answered(p) \/ Failed(p) \/ (\E at : To(p, at)) \/ (\E o : Receipt(p, o))) =>
              \A q \in Caller \ {p} : calls'[q].at = calls[q].at
<1>1. calls \in [Caller -> Call] /\ calls[p] \in Call
  BY DEF TypeOK
<1>2. Blank.at = "idle"
  BY DEF Blank
<1>3. Answered(p) \/ Failed(p) => calls'[p].at = "idle"
  BY <1>1, <1>2, BlankType DEF Answered, Failed, Blank
<1>4. ASSUME NEW at, To(p, at) PROVE calls'[p].at = at
  BY <1>1, <1>4 DEF To, Call
<1>5. ASSUME NEW o, Receipt(p, o) PROVE calls'[p].at = "receipt" /\ gate' = NoOne
  BY <1>1, <1>5 DEF Receipt, Call
<1>6. ASSUME NEW q \in Caller \ {p},
             \/ Answered(p) \/ Failed(p) \/ (\E at : To(p, at)) \/ (\E o : Receipt(p, o))
      PROVE  calls'[q].at = calls[q].at
  BY <1>1, <1>6 DEF Answered, Failed, To, Receipt
<1> QED
  BY <1>3, <1>4, <1>5, <1>6

\* The receipt of a frame frees the gate of the call that waits for it.
LEMMA GateReply ==
  ASSUME TypeOK, GateInv, NEW f \in Frame, NEW o, Reply(f, o)
  PROVE  GateInv'
<1>1. f.caller \in Caller
  BY DEF Frame
<1>2. CASE Waits(f)
  <2>1. gate = f.caller /\ Receipt(f.caller, o)
    BY <1>1, <1>2 DEF GateInv, Holds, Waits, Reply
  <2>2. calls'[f.caller].at = "receipt" /\ gate' = NoOne
        /\ \A q \in Caller \ {f.caller} : calls'[q].at = calls[q].at
    BY <1>1, <2>1, AtIs
  <2> QED
    BY <1>1, <2>1, <2>2, GateGiven DEF Holds
<1>3. CASE ~Waits(f)
  BY <1>3, GateStill DEF Reply
<1> QED
  BY <1>2, <1>3

\* The steps of one call.
LEMMA GateCall ==
  ASSUME TypeOK, GateInv, NEW p \in Caller,
         \/ \E a, deleting : Ask(p, a, deleting)
         \/ CallStep(p) \/ Drop(p)
  PROVE  GateInv'
<1> DEFINE Others == \A q \in Caller \ {p} : calls'[q].at = calls[q].at
<1>0. /\ calls \in [Caller -> Call] /\ calls[p] \in Call
      /\ Holds(p) <=> gate = p
      /\ calls[p].at \notin {"ready", "port", "waiting"} => gate # p
  BY DEF TypeOK, GateInv, Holds
<1>1. CASE gate # p /\ gate' = gate /\ calls'[p].at \notin {"ready", "port", "waiting"} /\ Others
  BY <1>1, GateGiven DEF Holds
<1>2. ASSUME NEW a, NEW deleting, Ask(p, a, deleting)
      PROVE  GateInv'
  <2>1. calls'[p].at = "checked" /\ Others /\ gate # p /\ gate' = gate
    BY <1>0, <1>2 DEF Ask, Blank
  <2> QED
    BY <1>1, <2>1
<1>3. ASSUME PrepareReplays(p) \/ PrepareRefused(p) \/ DeleteState(p)
      PROVE  GateInv'
  <2>1. calls'[p].at = "idle" /\ Others /\ gate' = gate
    BY <1>3, AtIs DEF PrepareReplays, PrepareRefused, DeleteState
  <2>2. gate # p
    BY <1>0, <1>3 DEF PrepareReplays, PrepareRefused, DeleteState
  <2> QED
    BY <1>1, <2>1, <2>2
<1>4. CASE Prepare(p)
  <2>1. calls' = [calls EXCEPT ![p].at = "prepared", ![p].attempt = issued'] /\ gate' = gate
        /\ gate # p
    BY <1>0, <1>4 DEF Prepare
  <2>2. calls'[p].at = "prepared" /\ Others
    BY <1>0, <2>1 DEF Call
  <2> QED
    BY <1>1, <2>1, <2>2
<1>5. CASE Ready(p)
  <2>1. gate = NoOne /\ gate # p
    BY <1>0, <1>5, NoOneAssumption DEF Ready
  <2>2. CASE gate' = p /\ To(p, "ready")
    BY <2>1, <2>2, AtIs, GateTaken DEF Holds
  <2>3. CASE gate' = gate /\ (Answered(p) \/ Failed(p))
    <3>1. calls'[p].at = "idle" /\ Others
      BY <2>3, AtIs
    <3> QED
      BY <1>1, <2>1, <2>3, <3>1
  <2> QED
    BY <1>5, <2>2, <2>3 DEF Ready
<1>6. CASE Submit(p)
  <2>1. CASE calls[p].at = "orphan" /\ Failed(p) /\ gate' = gate
    <3>1. calls'[p].at = "idle" /\ Others
      BY <2>1, AtIs
    <3> QED
      BY <1>0, <1>1, <2>1, <3>1
  <2>2. CASE calls[p].at = "ready" /\ To(p, "port") /\ gate' = gate
    BY <1>0, <2>2, AtIs, GateTaken DEF Holds
  <2>3. CASE calls[p].at = "ready" /\ gate' = NoOne /\ (Answered(p) \/ Failed(p))
    <3>1. calls'[p].at = "idle" /\ Others
      BY <2>3, AtIs
    <3> QED
      BY <1>0, <2>3, <3>1, GateGiven DEF Holds
  <2> QED
    BY <1>6, <2>1, <2>2, <2>3 DEF Submit
<1>7. CASE Enqueue(p)
  BY <1>0, <1>7, AtIs, GateTaken DEF Enqueue, Holds
<1>8. ASSUME NotQueued(p) \/ TimesOut(p)
      PROVE  GateInv'
  <2>1. gate = p /\ \E o : Receipt(p, o)
    BY <1>0, <1>8 DEF NotQueued, TimesOut, Holds
  <2>2. calls'[p].at = "receipt" /\ gate' = NoOne /\ Others
    BY <2>1, AtIs
  <2> QED
    BY <2>1, <2>2, GateGiven DEF Holds
<1>9. CASE Settle(p)
  <2>1. gate' = gate /\ gate # p
    BY <1>0, <1>9 DEF Settle
  <2>2. CASE Answered(p) \/ Failed(p)
    <3>1. calls'[p].at = "idle" /\ Others
      BY <2>2, AtIs
    <3> QED
      BY <1>1, <2>1, <3>1
  <2>3. CASE calls' = [calls EXCEPT ![p] =
                         [Blank EXCEPT !.attempt = calls[p].attempt, !.told = "rejected"]]
    <3>1. calls'[p].at = "idle" /\ Others
      BY <1>0, <2>3 DEF Blank
    <3> QED
      BY <1>1, <2>1, <3>1
  <2> QED
    BY <1>9, <2>2, <2>3 DEF Settle
<1>10. CASE Drop(p)
  <2>1. calls'[p].at \in {"idle", "orphan"} /\ Others
    BY <1>10, AtIs DEF Drop
  <2>2. gate' = IF gate = p THEN NoOne ELSE gate
    BY <1>10 DEF Drop
  <2> QED
    BY <2>1, <2>2, GateGiven DEF Holds
<1>11. CASE CallStep(p)
  BY <1>3, <1>4, <1>5, <1>6, <1>7, <1>8, <1>9, <1>11, Zenon DEF CallStep
<1> QED
  BY <1>2, <1>10, <1>11, Zenon

\* The gate is held by exactly the call that delivers under it: two never do, and
\* a call that returned, timed out or was dropped holds it no longer (deliver).
THEOREM GateHeld ==
  Spec => [](\A p \in Caller : calls[p].at \in {"ready", "port", "waiting"} <=> gate = p)
<1>1. Init => GateInv
  <2> SUFFICES ASSUME Init, NEW p \in Caller
               PROVE  ~Holds(p) /\ gate # p
    BY DEF GateInv
  <2>1. calls[p] = Blank /\ gate = NoOne
    BY DEF Init
  <2> QED
    BY <2>1, BlankIs, NoOneAssumption DEF Holds
<1>2. TypeOK /\ GateInv /\ [Next]_vars => GateInv'
  <2> SUFFICES ASSUME TypeOK, GateInv, [Next]_vars
               PROVE  GateInv'
    OBVIOUS
  <2>1. CASE UNCHANGED <<calls, gate>>
    BY <2>1, GateStill
  <2>2. ASSUME NEW p \in Caller,
               \/ \E a \in UserAnswer : Ask(p, a, FALSE)
               \/ Ask(p, Cancel, TRUE)
               \/ CallStep(p) \/ Drop(p)
        PROVE  GateInv'
    BY <2>2, GateCall
  <2>3. ASSUME NEW f \in queue, Discard(f) \/ Begin(f)
        PROVE  GateInv'
    <3>1. f \in Frame
      BY DEF TypeOK
    <3>2. UNCHANGED <<calls, gate>> \/ \E o : Reply(f, o)
      BY <2>3 DEF Discard, Begin
    <3> QED
      BY <2>1, <3>1, <3>2, GateReply
  <2>4. ASSUME NEW f \in begun, NEW o \in Outcome, FrameOutcome(f, o)
        PROVE  GateInv'
    <3>1. f \in Frame
      BY DEF TypeOK
    <3>2. UNCHANGED <<calls, gate>> \/ Reply(f, o)
      BY <2>4 DEF FrameOutcome
    <3> QED
      BY <2>1, <3>1, <3>2, GateReply
  <2>5. ASSUME NEW clean \in BOOLEAN, Restart(clean)
        PROVE  GateInv'
    BY <2>5, NoOneAssumption DEF Restart, GateInv, Holds, Blank
  <2>6. CASE \/ \E f \in wire : Write(f)
             \/ \E f \in Received : Mark(f)
             \/ Detach \/ Attach \/ Probe \/ ExpireEnded \/ Resolve
             \/ ProviderEnds \/ TurnEnds \/ UNCHANGED vars
    BY <2>1, <2>6 DEF Write, Mark, Detach, Attach, Probe, ExpireEnded, Resolve, ProviderEnds,
       TurnEnds, vars
  <2> QED
    BY <2>2, <2>3, <2>4, <2>5, <2>6 DEF Next
<1>3. Spec => []GateInv
  BY <1>1, <1>2, TypeCorrect, PTL DEF Spec
<1> QED
  BY <1>3 DEF GateInv, Holds
=============================================================================
