------------------------- MODULE ToolRequestsProofs -------------------------
(***************************************************************************)
(* The safety properties of ToolRequests for every set of callbacks and    *)
(* every context.                                                          *)
(*                                                                         *)
(* The argument.  A receipt leaves Reserved once, so one callback at most  *)
(* ever executes (EffectInv).  What it is about to record is true, since   *)
(* nobody else can act (OperationInv).  An uncertain receipt always has a  *)
(* result, and every writer but the executor writes only an open receipt   *)
(* without one (RecordInv): the first result wins.                         *)
(***************************************************************************)
EXTENDS ToolRequests, TLAPS

-----------------------------------------------------------------------------
(* The inductive invariant.                                                 *)

\* The stage and the outcome of a receipt agree.
WellFormed(rec) ==
  /\ rec.stage \in {"queued", "running"} <=> rec.outcome = "pending"
  /\ rec.stage = "cancelled" => rec.outcome = "not_applied"

\* A result is inline exactly while the receipt is uncertain, and in
\* request_results only when it is settled.
RecordInv ==
  /\ record # NoRecord =>
       /\ WellFormed(record)
       /\ Classify(record) # "Unknown" => record.result = NoResult
       /\ Classify(record) = "Unknown" =>
            /\ record.result \in {"reported", "unknown", "interrupted"}
            /\ record.result = "reported" => record.certainty = "written"
  /\ row # NoResult => record # NoRecord /\ Terminal(record)

\* A dropped callback has only its transaction left, and one that has passed
\* admission has a receipt.
ThreadInv ==
  /\ \A d \in Callbacks :
       /\ ~threads[d].alive => threads[d].pc \in InTransaction
       /\ threads[d].pc = "reply" => threads[d].answer \in Result \cup {"pending"}
       /\ threads[d].pc \notin {"idle", "admit", "done"} => record # NoRecord
  /\ gate # NoOne => threads[gate].pc # "admit"
  /\ ~up => /\ gate = NoOne /\ guards = {}
            /\ \A d \in Callbacks : threads[d].pc \in {"idle", "done"}

\* A dispatch that will still read the receipt finds it claimed and open, or
\* uncertain.
Claimed == record # NoRecord /\ Classify(record) \in {"Dispatched", "CancelRequested", "Unknown"}

\* One callback at most executes, and it acts before it records.
EffectInv ==
  /\ record = NoRecord \/ Classify(record) = "Reserved" =>
       /\ effects = 0 /\ guards = {}
       /\ \A d \in Callbacks : service[d] = "none" /\ threads[d].pc \notin Armed
  /\ \A d \in Callbacks :
       /\ threads[d].pc \in Armed \ {"settle"} => Claimed
       /\ threads[d].pc \in Armed => \A e \in Callbacks \ {d} : threads[e].pc \notin Armed
       /\ threads[d].pc \in {"run", "local"} => effects = 0 /\ \A e \in Callbacks : service[e] = "none"
       /\ service[d] # "none" => /\ effects = IF service[d] = "applied" THEN 1 ELSE 0
                                 /\ \A e \in Callbacks \ {d} : service[e] = "none"
  /\ effects <= 1

\* Nothing took place and nothing is left that could still do it.
Quiet == effects = 0 /\ \A d \in Callbacks : service[d] # "running"

\* What a callback is about to record is true.
OperationInv ==
  \A d \in Callbacks : threads[d].pc \in {"finish", "settle"} =>
    /\ threads[d].op = Applied => effects > 0
    /\ threads[d].op.kind \in {"Rejected", "NotSent"} => Quiet

\* A guard is the only one left to settle its claim.
GuardInv ==
  guards # {} => /\ record # NoRecord
                 /\ \A d \in Callbacks : threads[d].pc \in Armed => ~threads[d].alive

\* A result that a callback was or will be given.
Given(a) == a \in answers \/ \E d \in Callbacks : threads[d].pc = "reply" /\ threads[d].answer = a

AnswerInv ==
  \A a \in Result : Given(a) =>
    /\ record # NoRecord /\ Classify(record) \notin Open
    /\ Classify(record) = "Unknown" => record.result = a
    /\ row # NoResult => row = a
    /\ \A b \in Result : Given(b) => a = b

IInv == /\ TypeOK /\ RecordInv /\ ThreadInv /\ EffectInv /\ OperationInv
        /\ GuardInv /\ AnswerInv /\ ReceiptTrue

-----------------------------------------------------------------------------
(* The receipt as an operation.                                             *)

\* The events this code makes of a receipt.
Kinds == {"ClaimDispatch", "Cancel", "ServerRestarted", "DefinitiveRejection",
          "AppliedResponse", "CommittedOperationReceipt", "Failure"}

\* The state an event of the receipt itself leads to.
NextState(state, kind) ==
  IF Absorbs(state, kind) \/ Target(state, kind) = "None" THEN state ELSE Target(state, kind)

\* Every receipt is in one of the seven lifecycle states (classify).
LEMMA ClassifyType ==
  ASSUME NEW rec \in Record
  PROVE  Classify(rec) \in OperationState
  BY DEF Classify, OperationState

\* transition never refuses an event that is made from the record it is applied
\* to: it is absorbed, invalid, or moves the receipt to its target.
LEMMA DecideState ==
  ASSUME NEW rec \in Record, NEW kind \in Kinds
  PROVE  /\ Decide(rec, kind).slot.state = NextState(Classify(rec), kind)
         /\ Decide(rec, kind).kind = "Transitioned" =>
              NextState(Classify(rec), kind) = Target(Classify(rec), kind)
         /\ Decide(rec, kind).kind = "Transitioned" => Target(Classify(rec), kind) # "None"
<1> DEFINE s == State(rec)
           e == [expected |-> s.revision, identity |-> Request, attempt |-> s.attempt,
                 content |-> rec.content, kind |-> kind, proof |-> "ExactPreWriteRejection"]
<1>1. Classify(rec) \in OperationState
  BY ClassifyType
<1>2. /\ s.state = Classify(rec) /\ s.compacted = FALSE /\ s.identity = Request
      /\ s.revision \in 0..3 /\ s.revision # MaxRevision
  BY MaxRevisionAssumption, RevisionsAssumption DEF State
<1>3. /\ e.expected = s.revision /\ e.identity = Request /\ e.attempt = s.attempt
      /\ e.kind = kind /\ e.proof = "ExactPreWriteRejection"
  OBVIOUS
<1>4. AttemptError(s, e) = "None"
  BY <1>3 DEF AttemptError
<1>5. ~Unsupported(s.state, e)
  BY <1>3 DEF Unsupported
<1>6. Decide(rec, kind) = TransitionOccupied(s, e)
  BY <1>1, <1>2 DEF Decide, Transition, IsEmpty, OperationState
<1> HIDE DEF s, e
<1>7. TransitionOccupied(s, e) =
        IF Absorbs(s.state, kind) THEN NoEffect(s) ELSE TransitionChecked(s, e)
  BY <1>2, <1>3, <1>4 DEF TransitionOccupied, Kinds
<1>8. TransitionChecked(s, e) =
        IF Target(s.state, kind) = "None" THEN Reject(s, "InvalidTransition")
        ELSE Transitioned(s, Target(s.state, kind), s.identity, s.content,
                          NextAttempt(s, e), Intent(s.state, kind))
  BY <1>3, <1>5 DEF TransitionChecked
<1>9. /\ NoEffect(s).slot.state = s.state /\ NoEffect(s).kind = "NoEffect"
      /\ Reject(s, "InvalidTransition").slot.state = s.state
      /\ Reject(s, "InvalidTransition").kind = "Rejected"
  BY DEF NoEffect, Reject, Unchanged
<1>10. Transitioned(s, Target(s.state, kind), s.identity, s.content, NextAttempt(s, e),
                    Intent(s.state, kind)).slot.state = Target(s.state, kind)
  BY <1>2 DEF Transitioned
<1>11. CASE Absorbs(s.state, kind)
  BY <1>2, <1>6, <1>7, <1>9, <1>11 DEF NextState
<1>12. CASE ~Absorbs(s.state, kind) /\ Target(s.state, kind) = "None"
  BY <1>2, <1>6, <1>7, <1>8, <1>9, <1>12 DEF NextState
<1>13. CASE ~Absorbs(s.state, kind) /\ Target(s.state, kind) # "None"
  BY <1>2, <1>6, <1>7, <1>8, <1>10, <1>13 DEF NextState
<1> QED
  BY <1>11, <1>12, <1>13

\* apply writes the pair that classify reads back, and nothing else.
LEMMA PersistState ==
  ASSUME NEW rec \in Record, WellFormed(rec), NEW state \in OperationState
  PROVE  /\ Persist(rec, state) \in Record /\ WellFormed(Persist(rec, state))
         /\ Classify(Persist(rec, state)) = state
         /\ Persist(rec, state).result = rec.result
         /\ Persist(rec, state).certainty = rec.certainty
         /\ Classify(rec) = state => Persist(rec, state) = rec
<1>1. CASE Classify(rec) = state
  BY <1>1 DEF Persist
<1>2. CASE Classify(rec) # state
  <2> DEFINE p == Persist(rec, state)
  <2>1. /\ p \in Record
        /\ p.result = rec.result /\ p.certainty = rec.certainty
        /\ p.stage = CASE state = "Reserved" -> "queued"
                       [] state \in {"Dispatched", "CancelRequested"} -> "running"
                       [] state = "CancelledBeforeDispatch" -> "cancelled"
                       [] state = "Applied" -> "completed"
                       [] OTHER -> "failed"
        /\ p.outcome = CASE state \in Open -> "pending"
                         [] state = "Applied" -> "applied"
                         [] state = "Unknown" -> "unknown"
                         [] OTHER -> "not_applied"
        /\ state = "Dispatched" => p.cancelRequested = FALSE
        /\ state = "CancelRequested" => p.cancelRequested = TRUE
    BY <1>2 DEF Persist, Record, Open
  <2> HIDE DEF p
  <2>2. WellFormed(p) /\ Classify(p) = state
    BY <2>1 DEF WellFormed, Classify, OperationState, Open
  <2> QED
    BY <1>2, <2>1, <2>2 DEF p
<1> QED
  BY <1>1, <1>2

\* The receipt after an event of its own.
LEMMA AfterState ==
  ASSUME NEW rec \in Record, WellFormed(rec), NEW kind \in Kinds
  PROVE  /\ After(rec, kind) \in Record /\ WellFormed(After(rec, kind))
         /\ Classify(After(rec, kind)) = NextState(Classify(rec), kind)
         /\ After(rec, kind).result = rec.result
         /\ After(rec, kind).certainty = rec.certainty
         /\ NextState(Classify(rec), kind) = Classify(rec) => After(rec, kind) = rec
<1>1. NextState(Classify(rec), kind) \in OperationState
  BY ClassifyType DEF NextState, Target, OperationState
<1> QED
  BY <1>1, DecideState, PersistState DEF After

\* The stages of the lifecycle states.
LEMMA StageOf ==
  ASSUME NEW rec \in Record, WellFormed(rec)
  PROVE  /\ Classify(rec) = "Reserved" <=> rec.stage = "queued"
         /\ Classify(rec) \in {"Dispatched", "CancelRequested"} <=> rec.stage = "running"
         /\ Classify(rec) = "CancelledBeforeDispatch" <=> rec.stage = "cancelled"
  BY DEF Record, WellFormed, Classify

\* An uncertain receipt has the outcome unknown.
LEMMA UnknownOutcome ==
  ASSUME NEW rec \in Record, WellFormed(rec), Classify(rec) = "Unknown"
  PROVE  rec.outcome = "unknown"
  BY DEF Record, WellFormed, Classify

\* A saved result is not part of the lifecycle state.
LEMMA ResultApart ==
  ASSUME NEW rec \in Record, WellFormed(rec), NEW v \in Result \cup {NoResult}
  PROVE  LET r == [rec EXCEPT !.result = v]
         IN /\ r \in Record /\ WellFormed(r) /\ Classify(r) = Classify(rec)
            /\ r.result = v /\ r.certainty = rec.certainty /\ r.stage = rec.stage
<1> DEFINE r == [rec EXCEPT !.result = v]
<1>1. /\ r \in Record /\ r.result = v /\ r.certainty = rec.certainty
      /\ r.stage = rec.stage /\ r.outcome = rec.outcome /\ r.cancelRequested = rec.cancelRequested
  BY DEF Record
<1> HIDE DEF r
<1>2. WellFormed(r) /\ Classify(r) = Classify(rec)
  BY <1>1 DEF WellFormed, Classify
<1> QED
  BY <1>1, <1>2 DEF r

\* saved_result of an open receipt, of an uncertain one and of a settled one.
LEMMA SavedResultIs ==
  ASSUME RecordInv, record \in Record, row \in Result \cup {NoResult}, record # NoRecord
  PROVE  /\ Classify(record) \in Open => SavedResult = NoResult /\ row = NoResult
         /\ Classify(record) = "Unknown" =>
              SavedResult = record.result /\ SavedResult \in Result /\ row = NoResult
         /\ Terminal(record) => SavedResult = IF row # NoResult /\ aged THEN "expired" ELSE row
         /\ SavedResult \in Result \cup {NoResult, "expired"}
         /\ SavedResult \in Result /\ Classify(record) # "Unknown" =>
              row = SavedResult /\ Terminal(record)
<1>1. Classify(record) \in OperationState
  BY ClassifyType
<1>2. CASE Classify(record) \in Open
  BY <1>2, NoResultAssumption DEF RecordInv, SavedResult, Terminal, Open, Settled
<1>3. CASE Classify(record) = "Unknown"
  BY <1>3, NoResultAssumption DEF RecordInv, SavedResult, Terminal, Open, Settled, Result
<1>4. CASE Classify(record) \in Settled
  BY <1>4, NoResultAssumption DEF RecordInv, SavedResult, Terminal, Open, Settled, Result
<1> QED
  BY <1>1, <1>2, <1>3, <1>4 DEF OperationState, Open, Settled

-----------------------------------------------------------------------------
(* The writes of the receipt.                                               *)

\* The first result v is saved for an open receipt, which becomes c.
Saves(v, c) ==
  /\ record \in Record /\ record # NoRecord /\ Classify(record) \in Open /\ row = NoResult
  /\ v \in Result /\ c \in Settled \cup {"Unknown"}
  /\ record' \in Record /\ WellFormed(record') /\ Classify(record') = c
  /\ c \in Settled => record'.result = NoResult /\ row' = v
  /\ c = "Unknown" => /\ record'.result = v /\ row' = NoResult
                      /\ v \in {"reported", "unknown", "interrupted"}
                      /\ v = "reported" => record'.certainty = "written"

\* Writing a receipt with its result saves it.
LEMMA WriteSaves ==
  ASSUME NEW rec \in Record, WellFormed(rec), Write(rec), NEW v \in Result, rec.result = v,
         record \in Record, record # NoRecord, Classify(record) \in Open, row = NoResult,
         NEW c \in Settled \cup {"Unknown"}, Classify(rec) = c,
         c = "Unknown" => /\ v \in {"reported", "unknown", "interrupted"}
                          /\ v = "reported" => rec.certainty = "written"
  PROVE  Saves(v, c)
<1> DEFINE r == [rec EXCEPT !.result = NoResult]
<1>1. r \in Record /\ WellFormed(r) /\ Classify(r) = c /\ r.result = NoResult
  BY ResultApart
<1> HIDE DEF r
<1>2. CASE c \in Settled
  <2>1. record' = r /\ row' = v
    BY <1>2 DEF Write, Terminal, r
  <2> QED
    BY <1>1, <1>2, <2>1 DEF Saves, Settled
<1>3. CASE c = "Unknown"
  <2>1. record' = rec /\ row' = NoResult
    BY <1>3 DEF Write, Terminal, Settled
  <2> QED
    BY <1>3, <2>1 DEF Saves, Settled
<1> QED
  BY <1>2, <1>3

\* The rows of the transition table that this code uses.
LEMMA NextStates ==
  /\ \A st \in {"Dispatched", "CancelRequested"} :
       /\ NextState(st, "DefinitiveRejection") = "NotApplied"
       /\ NextState(st, "AppliedResponse") = "Applied"
       /\ NextState(st, "CommittedOperationReceipt") = "Unknown"
       /\ NextState(st, "Failure") = "Unknown"
       /\ NextState(st, "ServerRestarted") = "Unknown"
       /\ NextState(st, "Cancel") = "CancelRequested"
  /\ NextState("Reserved", "Cancel") = "CancelledBeforeDispatch"
  /\ NextState("Reserved", "ServerRestarted") = "CancelledBeforeDispatch"
  /\ \A st \in Settled \cup {"Unknown"} : NextState(st, "Cancel") = st
  /\ NextState("Unknown", "Failure") = "Unknown"
  /\ NextState("Unknown", "CommittedOperationReceipt") = "Unknown"
  /\ \A st \in OperationState :
       Target(st, "ClaimDispatch") # "None" =>
         st = "Reserved" /\ Target(st, "ClaimDispatch") = "Dispatched"
  BY DEF NextState, Absorbs, Target, Open, Settled, OperationState

\* The state that recording an operation leads to.
Records(op) ==
  CASE op = Applied -> "Applied"
    [] op.kind \in {"Rejected", "NotSent"} -> "NotApplied"
    [] OTHER -> "Unknown"

\* The four kinds of a dispatched operation with their results.
LEMMA Operations ==
  ASSUME NEW op \in DispatchedOperation
  PROVE  \/ op = Applied /\ op.kind = "Applied" /\ op.result = "applied"
         \/ op # Applied /\ op.kind = "Applied" /\ op.result = "reported"
         \/ op # Applied /\ op.kind \in {"Rejected", "NotSent"} /\ op.result = "refused"
         \/ op # Applied /\ op.kind = "Unknown" /\ op.result = "unknown"
  BY DEF DispatchedOperation, Applied

\* The event that each result is settled with (decide_settlement).
LEMMA SettlesWith ==
  /\ \A b \in BOOLEAN :
       SettlementKind(ClassifyResult(Evidence("applied")), TRUE, b, FALSE) = "AppliedResponse"
  /\ SettlementKind(ClassifyResult(Evidence("reported")), TRUE, TRUE, FALSE)
       = "CommittedOperationReceipt"
  /\ \A v \in {"unknown", "interrupted"}, b \in BOOLEAN :
       SettlementKind(ClassifyResult(Evidence(v)), TRUE, b, FALSE) = "Failure"
  BY DEF SettlementKind, ClassifyResult, Evidence

\* finalize_dispatched of a running claim saves the operation's result.
LEMMA FinalizeSaves ==
  ASSUME record \in Record, record # NoRecord, WellFormed(record), row = NoResult,
         Classify(record) \in {"Dispatched", "CancelRequested"},
         NEW op \in DispatchedOperation, Write(Finalize(record, op))
  PROVE  Saves(op.result, Records(op))
<1> DEFINE word == CASE op.kind \in {"Applied", "Rejected"} -> "written"
                     [] op.kind = "NotSent" -> "not_sent"
                     [] OTHER -> "unknown"
           known == [record EXCEPT !.certainty = word]
           settled == IF op.kind \in {"Rejected", "NotSent"} THEN Refused(known)
                      ELSE Settle(known, op.result, TRUE)
           rec == [settled EXCEPT !.result = op.result]
<1>1. Finalize(record, op) = rec
  BY DEF Finalize
<1>2. word \in {"written", "not_sent", "unknown"} /\ (op.kind = "Applied" => word = "written")
  BY Operations
<1> HIDE DEF word
<1>3. /\ known \in Record /\ known.certainty = word /\ known.stage = record.stage
      /\ known.outcome = record.outcome /\ known.cancelRequested = record.cancelRequested
  BY <1>2 DEF Record
<1> HIDE DEF known
<1>4. WellFormed(known) /\ Classify(known) = Classify(record)
  BY <1>3 DEF WellFormed, Classify
<1>5. op.result \in Result
  BY Operations DEF Result
<1>6. /\ settled \in Record /\ WellFormed(settled) /\ Classify(settled) = Records(op)
      /\ settled.certainty = word
  <2>1. CASE op = Applied
    <3>1. settled = After(known, "AppliedResponse")
      BY <2>1, Operations, SettlesWith DEF Settle
    <3>2. NextState(Classify(known), "AppliedResponse") = "Applied"
      BY <1>4, NextStates
    <3>3. Records(op) = "Applied"
      BY <2>1, Operations DEF Records
    <3> HIDE DEF settled
    <3> QED
      BY <3>1, <3>2, <3>3, <1>3, <1>4, AfterState DEF Kinds
  <2>2. CASE op # Applied /\ op.kind = "Applied"
    <3>1. settled = After(known, "CommittedOperationReceipt")
      BY <2>2, Operations, SettlesWith DEF Settle
    <3>2. NextState(Classify(known), "CommittedOperationReceipt") = "Unknown"
      BY <1>4, NextStates
    <3>3. Records(op) = "Unknown"
      BY <2>2 DEF Records
    <3> HIDE DEF settled
    <3> QED
      BY <3>1, <3>2, <3>3, <1>3, <1>4, AfterState DEF Kinds
  <2>3. CASE op # Applied /\ op.kind \in {"Rejected", "NotSent"}
    <3>1. settled = After(known, "DefinitiveRejection")
      BY <2>3 DEF Refused
    <3>2. NextState(Classify(known), "DefinitiveRejection") = "NotApplied"
      BY <1>4, NextStates
    <3>3. Records(op) = "NotApplied"
      BY <2>3 DEF Records
    <3> HIDE DEF settled
    <3> QED
      BY <3>1, <3>2, <3>3, <1>3, <1>4, AfterState DEF Kinds
  <2>4. CASE op # Applied /\ op.kind = "Unknown"
    <3>1. settled = After(known, "Failure")
      BY <2>4, Operations, SettlesWith DEF Settle
    <3>2. NextState(Classify(known), "Failure") = "Unknown"
      BY <1>4, NextStates
    <3>3. Records(op) = "Unknown"
      BY <2>4 DEF Records
    <3> HIDE DEF settled
    <3> QED
      BY <3>1, <3>2, <3>3, <1>3, <1>4, AfterState DEF Kinds
  <2> QED
    BY <2>1, <2>2, <2>3, <2>4, Operations
<1> HIDE DEF settled
<1>7. /\ rec \in Record /\ WellFormed(rec) /\ Classify(rec) = Records(op)
      /\ rec.result = op.result /\ rec.certainty = word
  BY <1>5, <1>6, ResultApart
<1>8. /\ Records(op) \in Settled \cup {"Unknown"}
      /\ Records(op) = "Unknown" => /\ op.result \in {"reported", "unknown", "interrupted"}
                                    /\ op.result = "reported" => word = "written"
  BY <1>2, Operations DEF Records, Settled
<1> HIDE DEF rec
<1> QED
  BY <1>1, <1>5, <1>7, <1>8, WriteSaves DEF Open

\* Deciding an event and attaching the first result saves it.
LEMMA AfterSaves ==
  ASSUME record \in Record, record # NoRecord, WellFormed(record), row = NoResult,
         Classify(record) \in Open, NEW kind \in Kinds, NEW v \in Result,
         NEW c \in Settled \cup {"Unknown"}, NextState(Classify(record), kind) = c,
         c = "Unknown" => v \in {"unknown", "interrupted"},
         Write([After(record, kind) EXCEPT !.result = v])
  PROVE  Saves(v, c)
<1> DEFINE next == After(record, kind)
           rec == [next EXCEPT !.result = v]
<1>1. next \in Record /\ WellFormed(next) /\ Classify(next) = c
  BY AfterState
<1> HIDE DEF next
<1>2. rec \in Record /\ WellFormed(rec) /\ Classify(rec) = c /\ rec.result = v
  BY <1>1, ResultApart
<1>3. Write(rec)
  BY DEF next
<1> HIDE DEF rec
<1> QED
  BY <1>2, <1>3, WriteSaves

\* settle_claim saves the result of a running claim that has none, or nothing.
LEMMA SettleClaimWrites ==
  ASSUME RecordInv, record \in Record, record # NoRecord, row \in Result \cup {NoResult},
         NEW op \in DispatchedOperation, SettleClaim(op)
  PROVE  Keep \/ Saves(op.result, Records(op))
<1>1. CASE SavedResult = NoResult /\ record.stage = "running" /\ record.outcome = "pending"
  <2>1. WellFormed(record) /\ Classify(record) \in {"Dispatched", "CancelRequested"}
    BY <1>1, StageOf DEF RecordInv
  <2>2. row = NoResult
    BY <2>1, SavedResultIs DEF Open
  <2>3. Write(Finalize(record, op))
    BY <1>1 DEF SettleClaim
  <2> QED
    BY <2>1, <2>2, <2>3, FinalizeSaves
<1>2. CASE ~(SavedResult = NoResult /\ record.stage = "running" /\ record.outcome = "pending")
  BY <1>2 DEF SettleClaim
<1> QED
  BY <1>1, <1>2

\* A dispatch that finds no result finds its claim running.
LEMMA RunningClaim ==
  ASSUME RecordInv, Claimed, record \in Record, row \in Result \cup {NoResult},
         SavedResult = NoResult
  PROVE  /\ Classify(record) \in {"Dispatched", "CancelRequested"} /\ row = NoResult
         /\ WellFormed(record) /\ record # NoRecord
<1>1. record # NoRecord /\ Classify(record) \in {"Dispatched", "CancelRequested", "Unknown"}
  BY DEF Claimed
<1>2. Classify(record) # "Unknown"
  BY <1>1, SavedResultIs, NoResultAssumption
<1> QED
  BY <1>1, <1>2, SavedResultIs DEF RecordInv, Open

\* execute_once saves what it applied or refused.
LEMMA ExecuteOnceSaves ==
  ASSUME RecordInv, Claimed, record \in Record, row \in Result \cup {NoResult},
         NEW d \in Callbacks, NEW result \in {"applied", "refused"}, ExecuteOnce(d, result)
  PROVE  \/ result = "applied" /\ Saves(result, "Applied") /\ effects' = effects + 1
         \/ result = "refused" /\ Saves(result, "NotApplied") /\ effects' = effects
<1>1. /\ Classify(record) \in {"Dispatched", "CancelRequested"} /\ row = NoResult
      /\ WellFormed(record) /\ record # NoRecord
  BY RunningClaim DEF ExecuteOnce
<1>2. CASE result = "applied"
  <2>1. /\ effects' = effects + 1
        /\ Write([After(record, "AppliedResponse") EXCEPT !.result = result])
    BY <1>2, SettlesWith DEF ExecuteOnce, Settle
  <2>2. NextState(Classify(record), "AppliedResponse") = "Applied"
    BY <1>1, NextStates
  <2> QED
    BY <1>1, <1>2, <2>1, <2>2, AfterSaves DEF Kinds, Result, Settled, Open
<1>3. CASE result = "refused"
  <2>1. /\ effects' = effects
        /\ Write([After(record, "DefinitiveRejection") EXCEPT !.result = result])
    BY <1>3 DEF ExecuteOnce, Refused
  <2>2. NextState(Classify(record), "DefinitiveRejection") = "NotApplied"
    BY <1>1, NextStates
  <2> QED
    BY <1>1, <1>3, <2>1, <2>2, AfterSaves DEF Kinds, Result, Settled, Open
<1> QED
  BY <1>2, <1>3

\* An open receipt moves on without a result.
Marks(from, to) ==
  /\ record \in Record /\ Classify(record) = from /\ from \in Open /\ to \in Open
  /\ record' \in Record /\ WellFormed(record') /\ Classify(record') = to
  /\ record'.result = record.result /\ row' = row

\* A write of an open receipt.
LEMMA AfterMarks ==
  ASSUME record \in Record, WellFormed(record), NEW from \in Open, Classify(record) = from,
         NEW kind \in Kinds, NEW to \in Open, NextState(from, kind) = to,
         Write(After(record, kind))
  PROVE  Marks(from, to)
<1> DEFINE next == After(record, kind)
<1>1. next \in Record /\ WellFormed(next) /\ Classify(next) = to /\ next.result = record.result
  BY AfterState
<1>2. Write(next)
  OBVIOUS
<1> HIDE DEF next
<1>3. record' = next /\ row' = row
  BY <1>1, <1>2 DEF Write, Terminal, Open, Settled
<1> QED
  BY <1>1, <1>3 DEF Marks

\* The claim is won from a reserved receipt alone.
LEMMA ClaimMarks ==
  ASSUME RecordInv, record \in Record, record # NoRecord,
         Decide(record, "ClaimDispatch").kind = "Transitioned",
         Write(After(record, "ClaimDispatch"))
  PROVE  Marks("Reserved", "Dispatched")
<1>1. "ClaimDispatch" \in Kinds /\ Classify(record) \in OperationState
  BY ClassifyType DEF Kinds
<1>2. /\ NextState(Classify(record), "ClaimDispatch") = Target(Classify(record), "ClaimDispatch")
      /\ Target(Classify(record), "ClaimDispatch") # "None"
  BY <1>1, DecideState
<1>3. Classify(record) = "Reserved" /\ NextState(Classify(record), "ClaimDispatch") = "Dispatched"
  BY <1>1, <1>2, NextStates
<1> QED
  BY <1>1, <1>3, AfterMarks DEF RecordInv, Open

\* refresh changes nothing of a receipt this code has written.
LEMMA RefreshedSame ==
  ASSUME RecordInv, record \in Record, record # NoRecord
  PROVE  Refreshed(record) = record
<1>1. CASE Terminal(record) \/ record.result = NoResult
  BY <1>1 DEF Refreshed
<1>2. CASE ~Terminal(record) /\ record.result # NoResult
  <2>1. /\ Classify(record) = "Unknown" /\ WellFormed(record)
        /\ record.result \in {"reported", "unknown", "interrupted"}
        /\ record.result = "reported" => record.certainty = "written"
    BY <1>2 DEF RecordInv
  <2>2. Refreshed(record) = Settle(record, record.result, record.certainty = "written")
    BY <1>2 DEF Refreshed
  <2>3. CASE record.result = "reported"
    <3>1. Refreshed(record) = After(record, "CommittedOperationReceipt")
      BY <2>1, <2>2, <2>3, SettlesWith DEF Settle
    <3> QED
      BY <2>1, <3>1, AfterState, NextStates DEF Kinds
  <2>4. CASE record.result \in {"unknown", "interrupted"}
    <3>1. Refreshed(record) = After(record, "Failure")
      BY <2>2, <2>4, SettlesWith DEF Settle
    <3> QED
      BY <2>1, <3>1, AfterState, NextStates DEF Kinds
  <2> QED
    BY <2>1, <2>3, <2>4
<1> QED
  BY <1>1, <1>2

\* Cancelling settles a queued receipt and only marks a running one.
LEMMA CancelWrites ==
  ASSUME RecordInv, record \in Record, record # NoRecord, row \in Result \cup {NoResult}, Cancel
  PROVE  \/ Classify(record) = "Reserved" /\ Saves("cancelled", "CancelledBeforeDispatch")
         \/ Marks("Dispatched", "CancelRequested")
<1> DEFINE next == After(record, "Cancel")
<1>1. /\ Cancelled(record) # record /\ Write(Cancelled(record))
      /\ Cancelled(record) = IF next.stage = "cancelled" /\ record.stage # "cancelled"
                               THEN [next EXCEPT !.result = "cancelled"] ELSE next
  BY RefreshedSame DEF Cancel, Cancelled
<1>2. /\ WellFormed(record) /\ "Cancel" \in Kinds /\ Classify(record) \in OperationState
      /\ next \in Record /\ WellFormed(next)
      /\ Classify(next) = NextState(Classify(record), "Cancel")
      /\ NextState(Classify(record), "Cancel") = Classify(record) => next = record
  BY AfterState, ClassifyType DEF RecordInv, Kinds
<1>3. CASE Classify(record) = "Reserved"
  <2>1. NextState(Classify(record), "Cancel") = "CancelledBeforeDispatch"
    BY <1>3, NextStates
  <2>2. next.stage = "cancelled" /\ record.stage # "cancelled"
    BY <1>2, <1>3, <2>1, StageOf
  <2>3. Write([next EXCEPT !.result = "cancelled"])
    BY <1>1, <2>2
  <2>4. row = NoResult
    BY <1>3, SavedResultIs DEF Open
  <2> QED
    BY <1>2, <1>3, <2>1, <2>3, <2>4, AfterSaves DEF Open, Settled, Result
<1>4. CASE Classify(record) = "Dispatched"
  <2>1. NextState(Classify(record), "Cancel") = "CancelRequested"
    BY <1>4, NextStates
  <2>2. next.stage # "cancelled"
    BY <1>2, <2>1, StageOf
  <2>3. Write(next)
    BY <1>1, <2>2
  <2> QED
    BY <1>2, <1>4, <2>1, <2>3, AfterMarks DEF Open
<1>5. CASE Classify(record) \in {"CancelRequested", "Unknown"} \cup Settled
  <2>1. NextState(Classify(record), "Cancel") = Classify(record)
    BY <1>5, NextStates
  <2>2. next = record
    BY <1>2, <2>1
  <2> QED
    BY <1>1, <2>2
<1> QED
  BY <1>2, <1>3, <1>4, <1>5 DEF OperationState, Settled

\* settle_tool_abandoned of an unsettled receipt.
LEMMA AbandonedSaves ==
  ASSUME RecordInv, record \in Record, row \in Result \cup {NoResult}, Unsettled,
         Write(Abandoned(record))
  PROVE  \/ Classify(record) = "Reserved" /\ Saves("cancelled", "CancelledBeforeDispatch")
         \/ /\ Classify(record) \in {"Dispatched", "CancelRequested"}
            /\ Saves("interrupted", "Unknown")
<1> DEFINE next == After(record, "ServerRestarted")
<1>1. /\ record # NoRecord /\ WellFormed(record) /\ "ServerRestarted" \in Kinds
      /\ Classify(record) = "Reserved" \/ Classify(record) \in {"Dispatched", "CancelRequested"}
  BY StageOf DEF Unsettled, RecordInv, Kinds
<1>2. SavedResult = NoResult /\ row = NoResult
  BY <1>1, SavedResultIs DEF Open
<1>3. Abandoned(record) = IF next.stage = "cancelled" THEN [next EXCEPT !.result = "cancelled"]
                          ELSE [next EXCEPT !.stage = "interrupted", !.result = "interrupted"]
  BY <1>2 DEF Abandoned
<1>4. /\ next \in Record /\ WellFormed(next)
      /\ Classify(next) = NextState(Classify(record), "ServerRestarted")
  BY <1>1, AfterState
<1>5. CASE Classify(record) = "Reserved"
  <2>1. NextState(Classify(record), "ServerRestarted") = "CancelledBeforeDispatch"
    BY <1>5, NextStates
  <2>2. next.stage = "cancelled"
    BY <1>4, <2>1, StageOf
  <2>3. Write([next EXCEPT !.result = "cancelled"])
    BY <1>3, <2>2
  <2> QED
    BY <1>1, <1>2, <1>5, <2>1, <2>3, AfterSaves DEF Open, Settled, Result
<1>6. CASE Classify(record) \in {"Dispatched", "CancelRequested"}
  <2> DEFINE rec == [next EXCEPT !.stage = "interrupted", !.result = "interrupted"]
  <2>1. Classify(next) = "Unknown"
    BY <1>4, <1>6, NextStates
  <2> HIDE DEF next
  <2>2. next.stage # "cancelled" /\ next.outcome = "unknown"
    BY <1>4, <2>1, UnknownOutcome, StageOf
  <2>3. Write(rec)
    BY <1>3, <2>2
  <2>4. /\ rec \in Record /\ rec.stage = "interrupted" /\ rec.outcome = "unknown"
        /\ rec.result = "interrupted"
    BY <1>4, <2>2 DEF Record, Result
  <2> HIDE DEF rec
  <2>5. WellFormed(rec) /\ Classify(rec) = "Unknown"
    BY <2>4 DEF WellFormed, Classify
  <2> QED
    BY <1>1, <1>2, <1>6, <2>3, <2>4, <2>5, WriteSaves DEF Open, Result
<1> QED
  BY <1>1, <1>5, <1>6

-----------------------------------------------------------------------------
(* What a write preserves.                                                  *)

\* The receipt is kept, moves on, or is given its first result.
LEMMA RecordKept ==
  ASSUME RecordInv, record \in Record \cup {NoRecord}, row \in Result \cup {NoResult},
         \/ Keep
         \/ \E from, to \in Open : Marks(from, to)
         \/ \E v \in Result, c \in Settled \cup {"Unknown"} : Saves(v, c)
  PROVE  /\ RecordInv' /\ record' \in Record \cup {NoRecord} /\ row' \in Result \cup {NoResult}
         /\ record # NoRecord => record' # NoRecord
<1>1. CASE Keep
  BY <1>1 DEF Keep, RecordInv, Terminal, Classify, WellFormed
<1>2. ASSUME NEW from \in Open, NEW to \in Open, Marks(from, to)
      PROVE  /\ RecordInv' /\ record' \in Record /\ row' \in Result \cup {NoResult}
             /\ record' # NoRecord
  <2>1. record # NoRecord /\ Classify(record) \in Open /\ Classify(record') \in Open
    BY <1>2, NoRecordAssumption DEF Marks
  <2>2. row = NoResult /\ record.result = NoResult
    BY <2>1, <1>2, SavedResultIs DEF RecordInv, Open, Marks
  <2> QED
    BY <1>2, <2>1, <2>2, NoRecordAssumption DEF Marks, RecordInv, Open
<1>3. ASSUME NEW v \in Result, NEW c \in Settled \cup {"Unknown"}, Saves(v, c)
      PROVE  /\ RecordInv' /\ record' \in Record /\ row' \in Result \cup {NoResult}
             /\ record' # NoRecord
  BY <1>3, NoRecordAssumption DEF Saves, RecordInv, Terminal, Settled
<1> QED
  BY <1>1, <1>2, <1>3

\* Callbacks are given the saved result, or the first one as it is saved.
LEMMA AnswerKept ==
  ASSUME RecordInv, AnswerInv, record \in Record \cup {NoRecord}, row \in Result \cup {NoResult},
         \/ /\ record' = record /\ row' \in {row, NoResult}
            /\ \A a \in Result : Given(a)' => Given(a) \/ a = SavedResult
         \/ \E from, to \in Open : Marks(from, to) /\ \A a \in Result : Given(a)' => Given(a)
         \/ \E v \in Result, c \in Settled \cup {"Unknown"} :
              Saves(v, c) /\ \A a \in Result : Given(a)' => Given(a) \/ a = v
  PROVE  AnswerInv'
<1>1. CASE /\ record' = record /\ row' \in {row, NoResult}
           /\ \A a \in Result : Given(a)' => Given(a) \/ a = SavedResult
  <2>1. ASSUME SavedResult \in Result
        PROVE  /\ record # NoRecord /\ Classify(record) \notin Open
               /\ Classify(record) = "Unknown" => record.result = SavedResult
               /\ row # NoResult => row = SavedResult
    <3>1. record # NoRecord
      BY <2>1, NoResultAssumption DEF SavedResult
    <3>2. record \in Record
      BY <3>1
    <3> QED
      BY <2>1, <3>1, <3>2, SavedResultIs, NoResultAssumption DEF Open, Settled, Terminal
  <2>2. ASSUME NEW a \in Result, Given(a), SavedResult \in Result
        PROVE  a = SavedResult
    <3>1. record # NoRecord /\ record \in Record
      BY <2>1, <2>2
    <3> QED
      BY <2>2, <3>1, SavedResultIs, NoResultAssumption DEF AnswerInv
  <2>3. ASSUME NEW a \in Result, Given(a)'
        PROVE  /\ record # NoRecord /\ Classify(record) \notin Open
               /\ Classify(record) = "Unknown" => record.result = a
               /\ row # NoResult => row = a
               /\ Given(a) \/ a = SavedResult
    <3>1. CASE Given(a)
      BY <2>3, <3>1 DEF AnswerInv
    <3>2. CASE a = SavedResult
      BY <2>1, <3>2
    <3> QED
      BY <1>1, <2>3, <3>1, <3>2
  <2>4. ASSUME NEW a \in Result, NEW b \in Result, Given(a)', Given(b)'
        PROVE  a = b
    <3>1. (Given(a) \/ a = SavedResult) /\ (Given(b) \/ b = SavedResult)
      BY <2>3, <2>4
    <3>2. CASE Given(a) /\ Given(b)
      BY <3>2 DEF AnswerInv
    <3>3. CASE a = SavedResult \/ b = SavedResult
      BY <2>2, <3>1, <3>3
    <3> QED
      BY <3>1, <3>2, <3>3
  <2> HIDE DEF Given
  <2> QED
    BY <1>1, <2>3, <2>4 DEF AnswerInv, Classify
<1>2. ASSUME NEW from \in Open, NEW to \in Open, Marks(from, to),
             \A a \in Result : Given(a)' => Given(a)
      PROVE  AnswerInv'
  <2>1. \A a \in Result : ~Given(a)
    BY <1>2 DEF AnswerInv, Marks
  <2> QED
    BY <1>2, <2>1 DEF AnswerInv
<1>3. ASSUME NEW v \in Result, NEW c \in Settled \cup {"Unknown"}, Saves(v, c),
             \A a \in Result : Given(a)' => Given(a) \/ a = v
      PROVE  AnswerInv'
  <2>1. \A a \in Result : ~Given(a)
    BY <1>3 DEF AnswerInv, Saves
  <2>2. \A a \in Result : Given(a)' => a = v
    BY <1>3, <2>1
  <2>3. /\ record' # NoRecord /\ Classify(record') \notin Open
        /\ Classify(record') = "Unknown" => record'.result = v
        /\ row' # NoResult => row' = v
    BY <1>3, NoRecordAssumption DEF Saves, Open, Settled
  <2> QED
    BY <2>2, <2>3 DEF AnswerInv
<1> QED
  BY <1>1, <1>2, <1>3

-----------------------------------------------------------------------------
(* The steps of a callback.                                                 *)

\* A callback goes on to next, up, with its guard as it was.
Callback(d, next) ==
  /\ d \in Callbacks /\ next \in Thread /\ next.alive /\ next.pc \notin {"idle", "admit"}
  /\ threads[d].pc \notin {"idle", "done"}
  /\ Goes(d, next)
  /\ UNCHANGED <<aged, guards, live, up>>

\* What Goes does to each callback.
LEMMA CallbackThreads ==
  ASSUME TypeOK, NEW d \in Callbacks, NEW next \in Thread, Goes(d, next)
  PROVE  /\ threads' \in [Callbacks -> Thread]
         /\ threads'[d] = IF threads[d].alive THEN next ELSE Done
         /\ \A e \in Callbacks \ {d} : threads'[e] = threads[e]
<1>1. Done \in Thread
  BY DEF Done, Step, At, Thread, Unknown, DispatchedOperation
<1> QED
  BY <1>1 DEF TypeOK, Goes

\* A callback keeps the shape of the threads, of the gate and of the guards,
\* and arms itself only with the claim of a reserved receipt.
LEMMA CallbackKept ==
  ASSUME IInv, NEW d \in Callbacks, NEW next \in Thread, Callback(d, next),
         record # NoRecord => record' # NoRecord,
         next.pc # "done" => record' # NoRecord,
         next.pc = "reply" => next.answer \in Result \cup {"pending"},
         gate = d => next.pc # "gate",
         next.pc \in Armed => threads[d].pc \in Armed \/ Classify(record) = "Reserved"
  PROVE  /\ threads' \in [Callbacks -> Thread] /\ gate' \in Callbacks \cup {NoOne}
         /\ gate' # NoOne => threads'[gate'].alive /\ threads'[gate'].pc \in InTransaction \cup {"await"}
         /\ ThreadInv' /\ GuardInv'
         /\ \A e \in Callbacks : threads'[e].pc \in Armed =>
              \A f \in Callbacks \ {e} : threads'[f].pc \notin Armed
<1>1. /\ threads' \in [Callbacks -> Thread]
      /\ threads'[d] = IF threads[d].alive THEN next ELSE Done
      /\ \A e \in Callbacks \ {d} : threads'[e] = threads[e]
  BY CallbackThreads DEF IInv, Callback
<1>2. Done.pc = "done" /\ Done.alive
  BY DEF Done, Step, At
<1>3. gate' = IF gate = d /\ next.pc = "done" THEN NoOne ELSE gate
  BY DEF Callback, Goes
<1>4. /\ gate' \in Callbacks \cup {NoOne}
      /\ gate' # NoOne => /\ threads'[gate'].alive
                          /\ threads'[gate'].pc \in (InTransaction \cup {"await"}) \ {"admit"}
  <2>1. CASE gate = d
    <3>1. threads[d].alive
      BY <2>1, NoOneAssumption DEF IInv, TypeOK
    <3>2. next.pc \in ((InTransaction \cup {"await"}) \ {"admit"}) \cup {"done"}
      BY <2>1 DEF Callback, Thread
    <3> QED
      BY <1>1, <1>3, <2>1, <3>1, <3>2 DEF Callback
  <2>2. CASE gate # d
    BY <1>1, <1>3, <2>2 DEF IInv, TypeOK, ThreadInv
  <2> QED
    BY <2>1, <2>2
<1>5. up /\ up'
  BY DEF IInv, ThreadInv, Callback, TypeOK
<1>6. ThreadInv'
  <2>1. ASSUME NEW e \in Callbacks
        PROVE  /\ ~threads'[e].alive => threads'[e].pc \in InTransaction
               /\ threads'[e].pc = "reply" => threads'[e].answer \in Result \cup {"pending"}
               /\ threads'[e].pc \notin {"idle", "admit", "done"} => record' # NoRecord
    <3>1. CASE e = d
      BY <1>1, <1>2, <3>1 DEF Callback
    <3>2. CASE e # d
      BY <1>1, <3>2 DEF IInv, ThreadInv
    <3> QED
      BY <3>1, <3>2
  <2> QED
    BY <1>4, <1>5, <2>1 DEF ThreadInv
<1>7. \A e \in Callbacks : threads'[e].pc \in Armed =>
        \A f \in Callbacks \ {e} : threads'[f].pc \notin Armed
  <2>1. threads'[d].pc \in Armed => \A f \in Callbacks \ {d} : threads[f].pc \notin Armed
    BY <1>1, <1>2 DEF IInv, EffectInv, Armed
  <2>2. \A e \in Callbacks \ {d} : threads[e].pc \in Armed =>
          \A f \in Callbacks \ {e} : threads[f].pc \notin Armed
    BY DEF IInv, EffectInv
  <2> QED
    BY <1>1, <2>1, <2>2
<1>8. GuardInv'
  <2>1. SUFFICES ASSUME guards # {}
                 PROVE  /\ record' # NoRecord
                        /\ \A e \in Callbacks : threads'[e].pc \in Armed => ~threads'[e].alive
    BY DEF GuardInv, Callback
  <2>2. record # NoRecord /\ Classify(record) # "Reserved"
    BY <2>1 DEF IInv, GuardInv, EffectInv
  <2>3. \A e \in Callbacks : threads[e].pc \in Armed => ~threads[e].alive
    BY <2>1 DEF IInv, GuardInv
  <2>4. threads'[d].pc \notin Armed
    BY <1>1, <1>2, <2>2, <2>3 DEF Armed
  <2> QED
    BY <1>1, <2>2, <2>3, <2>4
<1> QED
  BY <1>1, <1>4, <1>6, <1>7, <1>8

\* A step of a callback that leaves the receipt alone.
LEMMA CallbackKeeps ==
  ASSUME IInv, NEW d \in Callbacks, NEW next \in Thread, Callback(d, next), Keep,
         UNCHANGED <<service, effects>>,
         \/ answers' = answers
         \/ threads[d].pc = "reply" /\ answers' = answers \cup {threads[d].answer},
         next.pc # "done" => record # NoRecord,
         next.pc = "reply" => /\ next.answer \in {SavedResult, "pending"}
                              /\ next.answer \in Result \cup {"pending"},
         gate = d => next.pc # "gate",
         next.pc \in Armed => threads[d].pc \in Armed \ {"settle"},
         next.pc \in {"run", "local"} => threads[d].pc = "run",
         next.pc \in {"finish", "settle"} =>
           /\ next.op = Applied => effects > 0
           /\ next.op.kind \in {"Rejected", "NotSent"} => Quiet
  PROVE  IInv'
<1>1. /\ threads'[d] = IF threads[d].alive THEN next ELSE Done
      /\ \A e \in Callbacks \ {d} : threads'[e] = threads[e]
  BY CallbackThreads DEF IInv, Callback
<1>2. Done.pc = "done"
  BY DEF Done, Step, At
<1>3. record' = record /\ row' = row
  BY DEF Keep
<1>4. /\ threads' \in [Callbacks -> Thread] /\ gate' \in Callbacks \cup {NoOne}
      /\ gate' # NoOne => threads'[gate'].alive /\ threads'[gate'].pc \in InTransaction \cup {"await"}
      /\ ThreadInv' /\ GuardInv'
      /\ \A e \in Callbacks : threads'[e].pc \in Armed =>
           \A f \in Callbacks \ {e} : threads'[f].pc \notin Armed
  BY <1>3, CallbackKept
<1>5. answers' \subseteq Result \cup {"pending"}
  BY DEF IInv, TypeOK, ThreadInv
<1>6. TypeOK'
  BY <1>3, <1>4, <1>5 DEF IInv, TypeOK, Callback
<1>7. RecordInv'
  BY RecordKept DEF IInv, TypeOK
<1>8. Claimed' = Claimed /\ Quiet' = Quiet /\ Classify(record)' = Classify(record)
  BY <1>3 DEF Claimed, Quiet, Classify
<1>9. EffectInv'
  <2>1. threads'[d].pc \in Armed => threads[d].pc \in Armed \ {"settle"}
    BY <1>1, <1>2 DEF Armed
  <2>2. threads'[d].pc \in {"run", "local"} => threads[d].pc = "run"
    BY <1>1, <1>2
  <2>3. record = NoRecord \/ Classify(record) = "Reserved" =>
          /\ effects' = 0 /\ guards' = {}
          /\ \A e \in Callbacks : service'[e] = "none" /\ threads'[e].pc \notin Armed
    BY <1>1, <2>1 DEF IInv, EffectInv, Callback
  <2>4. ASSUME NEW e \in Callbacks
        PROVE  /\ threads'[e].pc \in Armed \ {"settle"} => Claimed
               /\ threads'[e].pc \in {"run", "local"} =>
                    effects = 0 /\ \A f \in Callbacks : service[f] = "none"
    <3>1. CASE e = d
      BY <3>1, <2>1, <2>2 DEF IInv, EffectInv
    <3>2. CASE e # d
      BY <3>2, <1>1 DEF IInv, EffectInv
    <3> QED
      BY <3>1, <3>2
  <2>5. /\ effects <= 1
        /\ \A e \in Callbacks :
             service[e] # "none" => /\ effects = IF service[e] = "applied" THEN 1 ELSE 0
                                    /\ \A f \in Callbacks \ {e} : service[f] = "none"
    BY DEF IInv, EffectInv
  <2> QED
    BY <1>3, <1>4, <1>8, <2>3, <2>4, <2>5 DEF EffectInv
<1>10. OperationInv'
  BY <1>1, <1>2, <1>8 DEF IInv, OperationInv
<1>11. AnswerInv'
  <2>1. ASSUME NEW a \in Result, Given(a)'
        PROVE  Given(a) \/ a = SavedResult
    <3>1. "pending" \notin Result
      BY DEF Result
    <3>2. CASE a \in answers'
      BY <3>2 DEF Given
    <3>3. ASSUME NEW e \in Callbacks, threads'[e].pc = "reply", threads'[e].answer = a
          PROVE  Given(a) \/ a = SavedResult
      BY <3>1, <3>3, <1>1, <1>2 DEF Given
    <3> QED
      BY <2>1, <3>2, <3>3 DEF Given
  <2> QED
    BY <1>3, <2>1, AnswerKept DEF IInv, TypeOK
<1>12. ReceiptTrue'
  BY <1>3 DEF IInv, ReceiptTrue, Classify
<1> QED
  BY <1>4, <1>6, <1>7, <1>9, <1>10, <1>11, <1>12 DEF IInv

\* A step of the executing callback that saves its result.
LEMMA CallbackSaves ==
  ASSUME IInv, NEW d \in Callbacks, NEW next \in Thread, Callback(d, next),
         NEW v \in Result, NEW c \in {"Applied", "NotApplied", "Unknown"}, Saves(v, c),
         UNCHANGED <<service, answers>>,
         threads[d].pc \in {"finish", "local", "settle"},
         \/ effects' = effects
         \/ threads[d].pc = "local" /\ c = "Applied" /\ effects' = effects + 1,
         c = "Applied" => effects' > 0,
         c = "NotApplied" => Quiet,
         next.pc \in {"reply", "settle", "done"},
         next.pc = "reply" => next.answer = v,
         next.pc = "settle" => /\ next.op = Applied => effects > 0
                               /\ next.op.kind \in {"Rejected", "NotSent"} => Quiet /\ effects' = effects
  PROVE  IInv'
<1>1. /\ threads'[d] = IF threads[d].alive THEN next ELSE Done
      /\ \A e \in Callbacks \ {d} : threads'[e] = threads[e]
  BY CallbackThreads DEF IInv, Callback
<1>2. Done.pc = "done"
  BY DEF Done, Step, At
<1>3. c \in Settled \cup {"Unknown"}
  BY DEF Settled
<1>4. /\ RecordInv' /\ record' \in Record \cup {NoRecord} /\ row' \in Result \cup {NoResult}
      /\ record # NoRecord /\ record' # NoRecord /\ Classify(record') = c
  BY <1>3, RecordKept, NoRecordAssumption DEF IInv, TypeOK, Saves
<1>5. threads[d].pc \in Armed
  BY DEF Armed
<1>6. /\ threads' \in [Callbacks -> Thread] /\ gate' \in Callbacks \cup {NoOne}
      /\ gate' # NoOne => threads'[gate'].alive /\ threads'[gate'].pc \in InTransaction \cup {"await"}
      /\ ThreadInv' /\ GuardInv'
      /\ \A e \in Callbacks : threads'[e].pc \in Armed =>
           \A f \in Callbacks \ {e} : threads'[f].pc \notin Armed
  BY <1>4, <1>5, CallbackKept
<1>7. effects' \in Nat
  BY DEF IInv, TypeOK
<1>8. TypeOK'
  BY <1>4, <1>6, <1>7 DEF IInv, TypeOK, Callback
<1>9. \A e \in Callbacks \ {d} : threads'[e].pc \notin Armed
  BY <1>1, <1>5 DEF IInv, EffectInv
<1>10. threads'[d].pc \notin Armed \ {"settle"}
  BY <1>1, <1>2 DEF Armed
<1>11. EffectInv'
  <2>1. threads[d].pc = "local" => effects = 0 /\ \A e \in Callbacks : service[e] = "none"
    BY DEF IInv, EffectInv
  <2>2. /\ effects' <= 1
        /\ \A e \in Callbacks :
             service[e] # "none" => /\ effects' = IF service[e] = "applied" THEN 1 ELSE 0
                                    /\ \A f \in Callbacks \ {e} : service[f] = "none"
    <3>1. CASE effects' = effects
      BY <3>1 DEF IInv, EffectInv
    <3>2. CASE threads[d].pc = "local" /\ effects' = effects + 1
      BY <2>1, <3>2
    <3> QED
      BY <3>1, <3>2
  <2>3. \A e \in Callbacks : threads'[e].pc \notin Armed \ {"settle"}
    BY <1>9, <1>10
  <2>4. \A e \in Callbacks : threads'[e].pc \notin {"run", "local"}
    BY <2>3 DEF Armed
  <2>5. record' # NoRecord /\ Classify(record)' # "Reserved"
    BY <1>4
  <2> QED
    BY <1>6, <2>2, <2>3, <2>4, <2>5 DEF EffectInv
<1>12. OperationInv'
  <2>1. ASSUME NEW e \in Callbacks, threads'[e].pc \in {"finish", "settle"}
        PROVE  /\ threads'[e].op = Applied => effects' > 0
               /\ threads'[e].op.kind \in {"Rejected", "NotSent"} => Quiet'
    <3>1. e = d /\ threads'[d] = next /\ next.pc = "settle"
      BY <1>1, <1>2, <1>9, <2>1 DEF Armed
    <3>2. effects' >= effects
      BY DEF IInv, TypeOK
    <3>3. next.op.kind \in {"Rejected", "NotSent"} => Quiet'
      BY <3>1 DEF Quiet
    <3> QED
      BY <3>1, <3>2, <3>3 DEF IInv, TypeOK
  <2> QED
    BY <2>1 DEF OperationInv
<1>13. AnswerInv'
  <2>1. ASSUME NEW a \in Result, Given(a)'
        PROVE  Given(a) \/ a = v
    <3>1. CASE a \in answers'
      BY <3>1 DEF Given
    <3>2. ASSUME NEW e \in Callbacks, threads'[e].pc = "reply", threads'[e].answer = a
          PROVE  Given(a) \/ a = v
      BY <3>2, <1>1, <1>2 DEF Given
    <3> QED
      BY <2>1, <3>1, <3>2 DEF Given
  <2> QED
    BY <1>3, <2>1, AnswerKept DEF IInv, TypeOK
<1>14. ReceiptTrue'
  <2>1. c = "NotApplied" => effects' = 0 /\ \A e \in Callbacks : service'[e] # "running"
    BY DEF Quiet
  <2> QED
    BY <1>4, <2>1 DEF ReceiptTrue
<1> QED
  BY <1>4, <1>6, <1>8, <1>11, <1>12, <1>13, <1>14 DEF IInv

-----------------------------------------------------------------------------
(* The actions of a callback.                                               *)

\* The fields of a callback at a point of its program.
LEMMA AtThread ==
  ASSUME NEW pc \in {"idle", "done", "gate", "await"} \cup InTransaction,
         NEW op \in DispatchedOperation, NEW answer \in Result \cup {NoResult, "pending"}
  PROVE  /\ At(pc, op, answer) \in Thread /\ At(pc, op, answer).alive
         /\ At(pc, op, answer).pc = pc /\ At(pc, op, answer).op = op
         /\ At(pc, op, answer).answer = answer
  BY DEF At, Thread

\* The same for a callback that carries neither operation nor answer.
LEMMA StepThread ==
  ASSUME NEW pc \in {"idle", "done", "gate", "await"} \cup InTransaction
  PROVE  /\ Step(pc) \in Thread /\ Step(pc).alive /\ Step(pc).pc = pc
         /\ Done \in Thread /\ Done.alive /\ Done.pc = "done"
<1>1. Unknown \in DispatchedOperation
  BY DEF Unknown, DispatchedOperation
<1> QED
  BY <1>1, AtThread DEF Step, Done

\* The three operations that the code makes itself.
LEMMA TheOperations ==
  /\ Unknown \in DispatchedOperation /\ Unknown # Applied /\ Unknown.kind = "Unknown"
  /\ NotSent \in DispatchedOperation /\ NotSent # Applied /\ NotSent.kind = "NotSent"
  /\ Applied \in DispatchedOperation
  BY DEF Unknown, NotSent, Applied, DispatchedOperation

\* Reserving the request: the receipt appears, or is left as it is.
LEMMA AdmitKept ==
  ASSUME IInv, NEW d \in Callbacks, Admit(d)
  PROVE  IInv'
<1>1. /\ Step("gate") \in Thread /\ Step("gate").alive /\ Step("gate").pc = "gate"
      /\ Done \in Thread /\ Done.alive /\ Done.pc = "done"
  BY StepThread
<1>2. gate # d
  BY NoOneAssumption DEF IInv, ThreadInv, Admit
<1>3. threads[d].pc = "admit" /\ UNCHANGED <<row, aged, guards, live, up, service, effects, answers>>
  BY DEF Admit
<1>4. ASSUME NEW next \in {Step("gate"), Done}, Goes(d, next), record' = record,
             next.pc = "gate" => record # NoRecord
      PROVE  IInv'
  <2>1. Callback(d, next) /\ Keep
    BY <1>1, <1>3, <1>4 DEF Callback, Keep
  <2>2. next.pc \in {"gate", "done"} /\ (next.pc # "done" => record # NoRecord) /\ next \in Thread
    BY <1>1, <1>4
  <2> QED
    BY <1>2, <1>3, <2>1, <2>2, CallbackKeeps DEF Armed
<1>5. ASSUME NEW next \in {Step("gate"), Done}, Goes(d, next), record = NoRecord,
             record' = Reservation(d)
      PROVE  IInv'
  <2>1. /\ record' \in Record /\ record' # NoRecord /\ record'.result = NoResult
        /\ record'.stage = "queued" /\ record'.outcome = "pending"
    <3>1. /\ Context[d].conn \in Generations /\ Context[d].epoch \in Epochs
          /\ Context[d].content \in Contents
      BY ContextAssumption
    <3>2. Reservation(d) \in Record
      BY <3>1 DEF Reservation, Record
    <3>3. /\ Reservation(d).result = NoResult /\ Reservation(d).stage = "queued"
          /\ Reservation(d).outcome = "pending"
      BY DEF Reservation
    <3> QED
      BY <1>5, <3>2, <3>3, NoRecordAssumption
  <2>2. WellFormed(record') /\ Classify(record') = "Reserved"
    BY <2>1 DEF WellFormed, Classify
  <2>3. Callback(d, next)
    BY <1>1, <1>3, <1>5 DEF Callback
  <2>4. next.pc \in {"gate", "done"} /\ next \in Thread
    BY <1>1, <1>5
  <2>5. /\ threads' \in [Callbacks -> Thread] /\ gate' \in Callbacks \cup {NoOne}
        /\ gate' # NoOne => threads'[gate'].alive /\ threads'[gate'].pc \in InTransaction \cup {"await"}
        /\ ThreadInv' /\ GuardInv'
    BY <1>2, <2>1, <2>3, <2>4, CallbackKept DEF Armed
  <2>6. /\ threads'[d] = IF threads[d].alive THEN next ELSE Done
        /\ \A e \in Callbacks \ {d} : threads'[e] = threads[e]
    BY <1>5, <2>4, CallbackThreads DEF IInv
  <2>7. TypeOK'
    BY <1>3, <2>1, <2>5 DEF IInv, TypeOK
  <2>8. row' = NoResult
    BY <1>3, <1>5 DEF IInv, RecordInv
  <2>9. RecordInv'
    BY <2>1, <2>2, <2>8 DEF RecordInv
  <2>10. \A e \in Callbacks : threads'[e].pc \notin Armed
    BY <1>1, <1>5, <2>4, <2>6 DEF IInv, EffectInv, Armed
  <2>11. EffectInv'
    <3>1. \A e \in Callbacks : threads'[e].pc \notin {"run", "local"}
      BY <2>10 DEF Armed
    <3> QED
      BY <1>3, <1>5, <2>10, <3>1 DEF IInv, EffectInv
  <2>12. OperationInv'
    BY <2>10 DEF OperationInv, Armed
  <2>13. AnswerInv'
    <3>1. \A a \in Result : ~Given(a)
      BY <1>5 DEF IInv, AnswerInv
    <3>2. \A a \in Result : ~Given(a)'
      BY <3>1, <1>1, <1>3, <2>4, <2>6 DEF Given
    <3> QED
      BY <3>2 DEF AnswerInv
  <2>14. ReceiptTrue'
    BY <2>2 DEF ReceiptTrue
  <2> QED
    BY <2>5, <2>7, <2>9, <2>11, <2>12, <2>13, <2>14 DEF IInv
<1>6. CASE record = NoRecord /\ record' = Reservation(d) /\ (Goes(d, Step("gate")) \/ Goes(d, Done))
  BY <1>5, <1>6
<1>7. CASE record # NoRecord /\ record' = record /\ Goes(d, Step("gate"))
  BY <1>4, <1>7
<1>8. CASE record' = record /\ Goes(d, Done)
  BY <1>1, <1>4, <1>8
<1> QED
  BY <1>6, <1>7, <1>8 DEF Admit

\* The claim: one callback moves a reserved receipt to dispatched and arms its
\* guard, the others are answered or refused.
LEMMA ClaimKept ==
  ASSUME IInv, NEW d \in Callbacks, Claim(d)
  PROVE  IInv'
<1>1. /\ Step("run") \in Thread /\ Step("run").alive /\ Step("run").pc = "run"
      /\ Done \in Thread /\ Done.alive /\ Done.pc = "done"
  BY StepThread DEF InTransaction
<1>2. threads[d].pc = "claim" /\ UNCHANGED <<aged, guards, live, up, service, effects, answers>>
  BY DEF Claim
<1>3. record # NoRecord /\ record \in Record
  BY <1>2 DEF IInv, ThreadInv, TypeOK
<1>4. CASE Keep /\ Goes(d, Done)
  <2>1. Callback(d, Done)
    BY <1>1, <1>2, <1>4 DEF Callback
  <2> QED
    BY <1>1, <1>2, <1>4, <2>1, CallbackKeeps DEF Armed
<1>5. ASSUME NEW a \in {SavedResult, "pending"}, a \in Result \cup {"pending"},
             Keep, Goes(d, At("reply", Unknown, a))
      PROVE  IInv'
  <2> DEFINE next == At("reply", Unknown, a)
  <2>1. next \in Thread /\ next.alive /\ next.pc = "reply" /\ next.answer = a
    BY <1>5, AtThread, TheOperations DEF InTransaction
  <2>2. Goes(d, next)
    BY <1>5
  <2> HIDE DEF next
  <2>3. Callback(d, next)
    BY <1>2, <2>1, <2>2 DEF Callback
  <2> QED
    BY <1>2, <1>3, <1>5, <2>1, <2>3, CallbackKeeps DEF Armed
<1>6. CASE ~ClaimRefused(d) /\ SavedResult # NoResult /\ Keep /\ Goes(d, At("reply", Unknown, SavedResult))
  <2>1. SavedResult \in Result
    BY <1>3, <1>6, SavedResultIs DEF IInv, TypeOK, ClaimRefused
  <2> QED
    BY <1>5, <1>6, <2>1
<1>7. ASSUME Marks("Reserved", "Dispatched"), NEW next \in {Step("run"), Done}, Goes(d, next)
      PROVE  IInv'
  <2>1. Callback(d, next) /\ next \in Thread /\ next.pc \in {"run", "done"}
    BY <1>1, <1>2, <1>7 DEF Callback
  <2>2. /\ RecordInv' /\ record' \in Record \cup {NoRecord} /\ row' \in Result \cup {NoResult}
        /\ record' # NoRecord
    BY <1>3, <1>7, RecordKept DEF IInv, TypeOK, Open
  <2>3. Classify(record) = "Reserved" /\ Classify(record') = "Dispatched"
    BY <1>7 DEF Marks
  <2>4. /\ threads' \in [Callbacks -> Thread] /\ gate' \in Callbacks \cup {NoOne}
        /\ gate' # NoOne => threads'[gate'].alive /\ threads'[gate'].pc \in InTransaction \cup {"await"}
        /\ ThreadInv' /\ GuardInv'
        /\ \A e \in Callbacks : threads'[e].pc \in Armed =>
             \A f \in Callbacks \ {e} : threads'[f].pc \notin Armed
    BY <2>1, <2>2, <2>3, CallbackKept
  <2>5. /\ threads'[d] = IF threads[d].alive THEN next ELSE Done
        /\ \A e \in Callbacks \ {d} : threads'[e] = threads[e]
    BY <1>7, <2>1, CallbackThreads DEF IInv
  <2>6. TypeOK'
    BY <1>2, <2>2, <2>4 DEF IInv, TypeOK
  <2>7. /\ effects' = 0 /\ \A e \in Callbacks : service'[e] = "none"
        /\ \A e \in Callbacks : threads'[e].pc \in Armed => threads'[e].pc = "run"
    BY <1>1, <1>2, <2>1, <2>3, <2>5 DEF IInv, EffectInv, Armed
  <2>8. EffectInv'
    <3>1. Claimed' /\ record' # NoRecord /\ Classify(record)' # "Reserved"
      BY <2>2, <2>3 DEF Claimed
    <3> QED
      BY <2>4, <2>7, <3>1 DEF EffectInv
  <2>9. OperationInv'
    BY <2>7 DEF OperationInv, Armed
  <2>10. AnswerInv'
    <3>1. \A a \in Result : Given(a)' => Given(a)
      BY <1>1, <1>2, <2>1, <2>5 DEF Given
    <3> QED
      BY <1>7, <3>1, AnswerKept DEF IInv, TypeOK, Open
  <2>11. ReceiptTrue'
    BY <2>3 DEF ReceiptTrue
  <2> QED
    BY <2>2, <2>4, <2>6, <2>8, <2>9, <2>10, <2>11 DEF IInv
<1>8. CASE /\ Decide(record, "ClaimDispatch").kind = "Transitioned"
           /\ Write(After(record, "ClaimDispatch"))
           /\ Goes(d, Step("run")) \/ Goes(d, Done)
  <2>1. Marks("Reserved", "Dispatched")
    BY <1>3, <1>8, ClaimMarks DEF IInv
  <2> QED
    BY <1>7, <1>8, <2>1
<1> QED
  BY <1>4, <1>5, <1>6, <1>8 DEF Claim

\* The operation is started, or nothing was sent.
LEMMA RunKept ==
  ASSUME IInv, NEW d \in Callbacks, Run(d)
  PROVE  IInv'
<1>1. threads[d].pc = "run" /\ UNCHANGED <<record, row, aged, guards, live, up, effects, answers>>
  BY DEF Run
<1>2. /\ record # NoRecord /\ Quiet /\ Claimed /\ effects = 0
      /\ \A e \in Callbacks : service[e] = "none"
      /\ \A e \in Callbacks \ {d} : threads[e].pc \notin Armed
  BY <1>1 DEF IInv, ThreadInv, EffectInv, Quiet, Armed
<1>3. ASSUME NEW next \in Thread, Goes(d, next), next.alive, service' = service,
             next.pc = "local" \/ (next.pc = "settle" /\ next.op = NotSent)
      PROVE  IInv'
  <2>1. Callback(d, next) /\ Keep
    BY <1>1, <1>3 DEF Callback, Keep
  <2> QED
    BY <1>1, <1>2, <1>3, <2>1, CallbackKeeps, TheOperations DEF Armed
<1>4. CASE Goes(d, Step("local")) /\ service' = service
  BY <1>3, <1>4, StepThread DEF InTransaction
<1>5. CASE Goes(d, At("settle", NotSent, NoResult)) /\ service' = service
  <2>1. At("settle", NotSent, NoResult) \in Thread
    BY AtThread, TheOperations DEF InTransaction
  <2>2. /\ At("settle", NotSent, NoResult).alive /\ At("settle", NotSent, NoResult).pc = "settle"
        /\ At("settle", NotSent, NoResult).op = NotSent
    BY DEF At
  <2> QED
    BY <1>3, <1>5, <2>1, <2>2
<1>6. CASE /\ threads[d].alive /\ Goes(d, Step("await"))
           /\ service' = [service EXCEPT ![d] = "running"]
  <2> DEFINE next == Step("await")
  <2>1. next \in Thread /\ next.alive /\ next.pc = "await"
    BY StepThread
  <2>2. Goes(d, next)
    BY <1>6
  <2> HIDE DEF next
  <2>3. Callback(d, next)
    BY <1>1, <2>1, <2>2 DEF Callback
  <2>4. /\ threads' \in [Callbacks -> Thread] /\ gate' \in Callbacks \cup {NoOne}
        /\ gate' # NoOne => threads'[gate'].alive /\ threads'[gate'].pc \in InTransaction \cup {"await"}
        /\ ThreadInv' /\ GuardInv'
        /\ \A e \in Callbacks : threads'[e].pc \in Armed =>
             \A f \in Callbacks \ {e} : threads'[f].pc \notin Armed
    BY <1>1, <1>2, <2>1, <2>3, CallbackKept DEF Armed
  <2>5. threads'[d] = next /\ \A e \in Callbacks \ {d} : threads'[e] = threads[e]
    BY <1>6, <2>1, <2>2, CallbackThreads DEF IInv
  <2>6. /\ service' \in [Callbacks -> {"none", "running", "applied", "ended"}]
        /\ service'[d] = "running" /\ \A e \in Callbacks \ {d} : service'[e] = "none"
    BY <1>2, <1>6 DEF IInv, TypeOK
  <2>7. TypeOK'
    BY <1>1, <2>4, <2>6 DEF IInv, TypeOK
  <2>8. RecordInv'
    BY <1>1, RecordKept DEF IInv, TypeOK, Keep
  <2>9. Classify(record)' = Classify(record) /\ Claimed' /\ Classify(record) # "Reserved"
    BY <1>1, <1>2 DEF Claimed, Classify
  <2>10. EffectInv'
    <3>1. \A e \in Callbacks : threads'[e].pc \notin {"run", "local"}
      BY <1>2, <2>1, <2>5 DEF Armed
    <3>2. record' # NoRecord /\ effects' = 0
      BY <1>1, <1>2
    <3> QED
      BY <2>4, <2>6, <2>9, <3>1, <3>2 DEF EffectInv
  <2>11. OperationInv'
    BY <1>2, <2>1, <2>5 DEF OperationInv, Armed
  <2>12. AnswerInv'
    <3>1. \A a \in Result : Given(a)' => Given(a)
      BY <1>1, <2>1, <2>5 DEF Given
    <3> QED
      BY <1>1, <3>1, AnswerKept DEF IInv, TypeOK
  <2>13. ReceiptTrue'
    BY <1>2, <2>9 DEF ReceiptTrue, Claimed
  <2> QED
    BY <2>4, <2>7, <2>8, <2>10, <2>11, <2>12, <2>13 DEF IInv
<1> QED
  BY <1>4, <1>5, <1>6 DEF Run

\* The operation returns what really happened to it.
LEMMA ReturnKept ==
  ASSUME IInv, NEW d \in Callbacks, Return(d)
  PROVE  IInv'
<1>1. /\ threads[d].pc = "await"
      /\ UNCHANGED <<record, row, aged, guards, live, up, service, effects, answers>>
  BY DEF Return
<1>2. record # NoRecord
  BY <1>1 DEF IInv, ThreadInv
<1>3. ASSUME NEW op \in DispatchedOperation, NEW pc \in {"finish", "settle"},
             op = Applied => effects > 0, op.kind \in {"Rejected", "NotSent"} => Quiet,
             Goes(d, At(pc, op, NoResult))
      PROVE  IInv'
  <2> DEFINE next == At(pc, op, NoResult)
  <2>1. next \in Thread /\ next.alive /\ next.pc = pc /\ next.op = op
    BY <1>3, AtThread DEF InTransaction
  <2>2. Goes(d, next)
    BY <1>3
  <2> HIDE DEF next
  <2>3. Callback(d, next) /\ Keep
    BY <1>1, <1>3, <2>1, <2>2 DEF Callback, Keep
  <2> QED
    BY <1>1, <1>2, <1>3, <2>1, <2>3, CallbackKeeps DEF Armed
<1>4. ASSUME NEW op \in DispatchedOperation, Honest(d, op), Goes(d, At("finish", op, NoResult))
      PROVE  IInv'
  <2>1. op = Applied => effects > 0
    BY <1>4 DEF Honest, IInv, EffectInv
  <2>2. op.kind \in {"Rejected", "NotSent"} => Quiet
    BY <1>4 DEF Honest, IInv, EffectInv, Quiet
  <2> QED
    BY <1>3, <1>4, <2>1, <2>2
<1>5. CASE Goes(d, At("settle", Unknown, NoResult))
  BY <1>3, <1>5, TheOperations
<1> QED
  BY <1>4, <1>5 DEF Return

\* Recording an operation is true to what happened.
LEMMA RecordsTrue ==
  ASSUME IInv, NEW d \in Callbacks, threads[d].pc \in {"finish", "settle"}
  PROVE  LET op == threads[d].op
         IN /\ op \in DispatchedOperation /\ op.result \in Result
            /\ Records(op) \in {"Applied", "NotApplied", "Unknown"}
            /\ Records(op) = "Applied" => effects > 0
            /\ Records(op) = "NotApplied" => Quiet
            /\ op = Applied => effects > 0
            /\ op.kind \in {"Rejected", "NotSent"} => Quiet
<1> DEFINE op == threads[d].op
<1>1. op \in DispatchedOperation
  BY DEF IInv, TypeOK, Thread
<1>2. (op = Applied => effects > 0) /\ (op.kind \in {"Rejected", "NotSent"} => Quiet)
  BY DEF IInv, OperationInv
<1> HIDE DEF op
<1>3. /\ op.result \in Result /\ Records(op) \in {"Applied", "NotApplied", "Unknown"}
      /\ Records(op) = "Applied" => op = Applied
      /\ Records(op) = "NotApplied" => op.kind \in {"Rejected", "NotSent"}
  BY <1>1, Operations DEF Records, Result
<1> QED
  BY <1>1, <1>2, <1>3 DEF op

\* The finishing transaction.
LEMMA FinishKept ==
  ASSUME IInv, NEW d \in Callbacks, Finish(d)
  PROVE  IInv'
<1> DEFINE op == threads[d].op
<1>1. /\ threads[d].pc = "finish"
      /\ UNCHANGED <<aged, guards, live, up, service, effects, answers>>
  BY DEF Finish
<1>2. /\ op \in DispatchedOperation /\ op.result \in Result
      /\ Records(op) \in {"Applied", "NotApplied", "Unknown"}
      /\ Records(op) = "Applied" => effects > 0
      /\ Records(op) = "NotApplied" => Quiet
      /\ op = Applied => effects > 0
      /\ op.kind \in {"Rejected", "NotSent"} => Quiet
  BY <1>1, RecordsTrue
<1>3. record # NoRecord /\ record \in Record /\ Claimed /\ row \in Result \cup {NoResult} /\ RecordInv
  BY <1>1 DEF IInv, ThreadInv, TypeOK, EffectInv, Armed
<1>4. CASE SavedResult \in Result /\ Keep /\ Goes(d, At("reply", op, SavedResult))
  <2> DEFINE next == At("reply", op, SavedResult)
  <2>1. next \in Thread /\ next.alive /\ next.pc = "reply" /\ next.answer = SavedResult
    BY <1>2, <1>4, AtThread DEF InTransaction
  <2>2. Goes(d, next)
    BY <1>4
  <2> HIDE DEF next
  <2>3. Callback(d, next)
    BY <1>1, <2>1, <2>2 DEF Callback
  <2> QED
    BY <1>1, <1>3, <1>4, <2>1, <2>3, CallbackKeeps DEF Armed
<1>5. CASE Keep /\ Goes(d, At("settle", op, NoResult))
  <2> DEFINE next == At("settle", op, NoResult)
  <2>1. next \in Thread /\ next.alive /\ next.pc = "settle" /\ next.op = op
    BY <1>2, AtThread DEF InTransaction
  <2>2. Goes(d, next)
    BY <1>5
  <2> HIDE DEF next, op
  <2>3. Callback(d, next)
    BY <1>1, <2>1, <2>2 DEF Callback
  <2> QED
    BY <1>1, <1>2, <1>3, <1>5, <2>1, <2>3, CallbackKeeps DEF Armed
<1>6. CASE /\ SavedResult = NoResult /\ Write(Finalize(record, op))
           /\ \/ Goes(d, At("reply", op, op.result))
              \/ Goes(d, At("settle", op, NoResult))
  <2>1. /\ Classify(record) \in {"Dispatched", "CancelRequested"} /\ row = NoResult
        /\ WellFormed(record)
    BY <1>3, <1>6, RunningClaim
  <2>2. Saves(op.result, Records(op))
    BY <1>2, <1>3, <1>6, <2>1, FinalizeSaves
  <2>3. PICK next \in Thread : /\ Goes(d, next) /\ next.alive /\ next.pc \in {"reply", "settle"}
                               /\ next.op = op /\ (next.pc = "reply" => next.answer = op.result)
    BY <1>2, <1>6, AtThread DEF InTransaction
  <2> HIDE DEF op
  <2>4. Callback(d, next)
    BY <1>1, <2>3 DEF Callback
  <2> QED
    BY <1>1, <1>2, <2>2, <2>3, <2>4, CallbackSaves
<1> QED
  BY <1>4, <1>5, <1>6 DEF Finish

\* The local transaction: effect and receipt together, or neither.
LEMMA LocalKept ==
  ASSUME IInv, NEW d \in Callbacks, Local(d)
  PROVE  IInv'
<1>1. threads[d].pc = "local" /\ UNCHANGED <<aged, guards, live, up, service, answers>>
  BY DEF Local
<1>2. /\ record # NoRecord /\ record \in Record /\ Claimed /\ row \in Result \cup {NoResult}
      /\ RecordInv /\ Quiet /\ effects = 0
  BY <1>1 DEF IInv, ThreadInv, TypeOK, EffectInv, Armed, Quiet
<1>3. CASE /\ SavedResult \in Result /\ Keep /\ effects' = effects
           /\ Goes(d, At("reply", Unknown, SavedResult))
  <2> DEFINE next == At("reply", Unknown, SavedResult)
  <2>1. next \in Thread /\ next.alive /\ next.pc = "reply" /\ next.answer = SavedResult
    BY <1>3, AtThread, TheOperations DEF InTransaction
  <2>2. Goes(d, next)
    BY <1>3
  <2> HIDE DEF next
  <2>3. Callback(d, next)
    BY <1>1, <2>1, <2>2 DEF Callback
  <2> QED
    BY <1>1, <1>2, <1>3, <2>1, <2>3, CallbackKeeps DEF Armed
<1>4. ASSUME NEW op \in {NotSent, Unknown}, Keep, effects' = effects,
             Goes(d, At("settle", op, NoResult))
      PROVE  IInv'
  <2> DEFINE next == At("settle", op, NoResult)
  <2>1. next \in Thread /\ next.alive /\ next.pc = "settle" /\ next.op = op
    BY <1>4, AtThread, TheOperations DEF InTransaction
  <2>2. Goes(d, next)
    BY <1>4
  <2> HIDE DEF next
  <2>3. Callback(d, next)
    BY <1>1, <2>1, <2>2 DEF Callback
  <2> QED
    BY <1>1, <1>2, <1>4, <2>1, <2>3, TheOperations, CallbackKeeps DEF Armed
<1>5. ASSUME NEW result \in {"applied", "refused"}, ExecuteOnce(d, result),
             \/ Goes(d, At("reply", Unknown, result))
             \/ Goes(d, At("settle", Unknown, NoResult))
      PROVE  IInv'
  <2>1. \/ result = "applied" /\ Saves(result, "Applied") /\ effects' = effects + 1
        \/ result = "refused" /\ Saves(result, "NotApplied") /\ effects' = effects
    BY <1>2, <1>5, ExecuteOnceSaves
  <2>2. result \in Result
    BY DEF Result
  <2>3. PICK next \in Thread : /\ Goes(d, next) /\ next.alive /\ next.pc \in {"reply", "settle"}
                               /\ next.op = Unknown /\ (next.pc = "reply" => next.answer = result)
    BY <1>5, <2>2, AtThread, TheOperations DEF InTransaction
  <2>4. Callback(d, next)
    BY <1>1, <2>3 DEF Callback
  <2>5. /\ next.pc = "settle" => next.op # Applied /\ next.op.kind \notin {"Rejected", "NotSent"}
        /\ next.pc \in {"reply", "settle", "done"}
    BY <2>3, TheOperations
  <2>6. CASE result = "applied" /\ Saves(result, "Applied") /\ effects' = effects + 1
    BY <1>1, <1>2, <2>2, <2>3, <2>4, <2>5, <2>6, CallbackSaves
  <2>7. CASE result = "refused" /\ Saves(result, "NotApplied") /\ effects' = effects
    BY <1>1, <1>2, <2>2, <2>3, <2>4, <2>5, <2>7, CallbackSaves
  <2> QED
    BY <2>1, <2>6, <2>7
<1> QED
  BY <1>3, <1>4, <1>5 DEF Local

\* record_settlement.
LEMMA RecordSettlementKept ==
  ASSUME IInv, NEW d \in Callbacks, RecordSettlement(d)
  PROVE  IInv'
<1> DEFINE op == threads[d].op
<1>1. /\ threads[d].pc = "settle" /\ Goes(d, Done)
      /\ UNCHANGED <<aged, guards, live, up, service, effects, answers>>
      /\ SettleClaim(op) \/ Keep
  BY DEF RecordSettlement
<1>2. /\ op \in DispatchedOperation /\ op.result \in Result
      /\ Records(op) \in {"Applied", "NotApplied", "Unknown"}
      /\ Records(op) = "Applied" => effects > 0
      /\ Records(op) = "NotApplied" => Quiet
  BY <1>1, RecordsTrue
<1>3. record # NoRecord /\ record \in Record /\ row \in Result \cup {NoResult} /\ RecordInv
  BY <1>1 DEF IInv, ThreadInv, TypeOK
<1>4. Done \in Thread /\ Done.alive /\ Done.pc = "done"
  BY StepThread DEF InTransaction
<1>5. Callback(d, Done)
  BY <1>1, <1>4 DEF Callback
<1> HIDE DEF op
<1>6. CASE Keep
  BY <1>1, <1>4, <1>5, <1>6, CallbackKeeps DEF Armed
<1>7. CASE Saves(op.result, Records(op))
  BY <1>1, <1>2, <1>4, <1>5, <1>7, CallbackSaves
<1> QED
  BY <1>1, <1>2, <1>3, <1>6, <1>7, SettleClaimWrites

\* The reply is saved for the provider.
LEMMA ReplyKept ==
  ASSUME IInv, NEW d \in Callbacks, Reply(d)
  PROVE  IInv'
<1>1. /\ threads[d].pc = "reply" /\ Goes(d, Done) /\ Keep
      /\ UNCHANGED <<aged, guards, live, up, service, effects>>
      /\ answers' = answers \/ answers' = answers \cup {threads[d].answer}
  BY DEF Reply, Keep
<1>2. Done \in Thread /\ Done.alive /\ Done.pc = "done"
  BY StepThread DEF InTransaction
<1>3. Callback(d, Done)
  BY <1>1, <1>2 DEF Callback
<1> QED
  BY <1>1, <1>2, <1>3, CallbackKeeps DEF Armed

-----------------------------------------------------------------------------
(* The other actions.                                                       *)

\* Callbacks start, wait, are dropped or crash: none is armed, none is given an
\* answer, and the receipt is left alone.
LEMMA MovesKept ==
  ASSUME IInv, TypeOK', ThreadInv', GuardInv',
         UNCHANGED <<record, row, service, effects, answers>>,
         record = NoRecord \/ Classify(record) = "Reserved" => guards' = {},
         \A e \in Callbacks : threads'[e].pc \in Armed \cup {"reply"} =>
           /\ threads'[e].pc = threads[e].pc /\ threads'[e].op = threads[e].op
           /\ threads'[e].answer = threads[e].answer
  PROVE  IInv'
<1>1. RecordInv'
  BY RecordKept DEF IInv, TypeOK, Keep
<1>2. /\ Classify(record)' = Classify(record) /\ Claimed' = Claimed /\ Quiet' = Quiet
      /\ (record = NoRecord)' = (record = NoRecord)
  BY DEF Classify, Claimed, Quiet
<1>3. EffectInv'
  <2>1. \A e \in Callbacks : threads'[e].pc \in Armed => threads[e].pc = threads'[e].pc
    OBVIOUS
  <2>2. \A e \in Callbacks : threads'[e].pc \in {"run", "local"} => threads[e].pc \in {"run", "local"}
    BY <2>1 DEF Armed
  <2>3. \A e \in Callbacks : threads'[e].pc \in Armed => \A f \in Callbacks \ {e} : threads'[f].pc \notin Armed
    BY <2>1 DEF IInv, EffectInv
  <2>4. record = NoRecord \/ Classify(record) = "Reserved" =>
          /\ effects = 0
          /\ \A e \in Callbacks : service[e] = "none" /\ threads'[e].pc \notin Armed
    BY <2>1 DEF IInv, EffectInv
  <2>5. \A e \in Callbacks : threads'[e].pc \in Armed \ {"settle"} => Claimed
    BY <2>1 DEF IInv, EffectInv
  <2>6. /\ effects <= 1
        /\ \A e \in Callbacks :
             /\ threads[e].pc \in {"run", "local"} =>
                  effects = 0 /\ \A f \in Callbacks : service[f] = "none"
             /\ service[e] # "none" => /\ effects = IF service[e] = "applied" THEN 1 ELSE 0
                                       /\ \A f \in Callbacks \ {e} : service[f] = "none"
    BY DEF IInv, EffectInv
  <2> QED
    BY <1>2, <2>2, <2>3, <2>4, <2>5, <2>6 DEF EffectInv
<1>4. OperationInv'
  BY <1>2 DEF IInv, OperationInv, Armed
<1>5. AnswerInv'
  <2>1. \A a \in Result : Given(a)' => Given(a)
    BY DEF Given
  <2> QED
    BY <2>1, AnswerKept DEF IInv, TypeOK
<1>6. ReceiptTrue'
  BY <1>2 DEF IInv, ReceiptTrue
<1> QED
  BY <1>1, <1>3, <1>4, <1>5, <1>6 DEF IInv

\* A callback starts.
LEMMA StartKept ==
  ASSUME IInv, NEW d \in Callbacks, Start(d)
  PROVE  IInv'
<1>1. /\ up /\ threads[d].pc = "idle" /\ Goes(d, Step("admit"))
      /\ UNCHANGED <<record, row, aged, guards, live, up, service, effects, answers>>
  BY DEF Start
<1>2. /\ Step("admit") \in Thread /\ Step("admit").alive /\ Step("admit").pc = "admit"
      /\ Done \in Thread /\ Done.alive /\ Done.pc = "done"
  BY StepThread DEF InTransaction
<1>3. /\ threads' \in [Callbacks -> Thread]
      /\ threads'[d].pc \in {"admit", "done"} /\ threads'[d].alive
      /\ \A e \in Callbacks \ {d} : threads'[e] = threads[e]
  BY <1>1, <1>2, CallbackThreads DEF IInv
<1>4. gate # d /\ gate' = gate
  BY <1>1, <1>2, NoOneAssumption DEF IInv, TypeOK, InTransaction, Goes
<1>5. TypeOK'
  BY <1>1, <1>3, <1>4 DEF IInv, TypeOK
<1>6. ThreadInv'
  BY <1>1, <1>3, <1>4 DEF IInv, ThreadInv, TypeOK
<1>7. GuardInv'
  BY <1>1, <1>3 DEF IInv, GuardInv, Armed
<1>8. \A e \in Callbacks : threads'[e].pc \in Armed \cup {"reply"} => threads'[e] = threads[e]
  BY <1>3 DEF Armed
<1> QED
  BY <1>1, <1>5, <1>6, <1>7, <1>8, MovesKept DEF IInv, EffectInv

\* A callback takes the gate.
LEMMA TakeGateKept ==
  ASSUME IInv, NEW d \in Callbacks, TakeGate(d)
  PROVE  IInv'
<1>1. /\ threads[d].pc = "gate" /\ gate = NoOne /\ gate' = d
      /\ threads' = [threads EXCEPT ![d].pc = "claim"]
      /\ UNCHANGED <<record, row, aged, guards, live, up, service, effects, answers>>
  BY DEF TakeGate
<1>2. threads[d].alive /\ record # NoRecord /\ up
  BY <1>1 DEF IInv, ThreadInv, InTransaction, TypeOK
<1>3. /\ threads' \in [Callbacks -> Thread]
      /\ threads'[d].pc = "claim" /\ threads'[d].alive
      /\ \A e \in Callbacks \ {d} : threads'[e] = threads[e]
  BY <1>1, <1>2 DEF IInv, TypeOK, Thread, InTransaction
<1>4. TypeOK'
  BY <1>1, <1>3 DEF IInv, TypeOK, InTransaction
<1>5. ThreadInv'
  BY <1>1, <1>2, <1>3 DEF IInv, ThreadInv
<1>6. GuardInv'
  BY <1>1, <1>3 DEF IInv, GuardInv, Armed
<1>7. \A e \in Callbacks : threads'[e].pc \in Armed \cup {"reply"} => threads'[e] = threads[e]
  BY <1>3 DEF Armed
<1> QED
  BY <1>1, <1>4, <1>5, <1>6, <1>7, MovesKept DEF IInv, EffectInv

\* A dropped callback leaves the gate, and its guard with it.
LEMMA DropKept ==
  ASSUME IInv, NEW d \in Callbacks, Drop(d)
  PROVE  IInv'
<1>1. /\ threads[d].alive /\ threads[d].pc \notin {"idle", "done"}
      /\ \/ threads' = [threads EXCEPT ![d] = Done]
         \/ threads[d].pc \in InTransaction /\ threads' = [threads EXCEPT ![d].alive = FALSE]
      /\ gate' = IF gate = d THEN NoOne ELSE gate
      /\ guards' = IF threads[d].pc \in Armed THEN guards \cup {d} ELSE guards
      /\ UNCHANGED <<record, row, aged, live, up, service, effects, answers>>
  BY DEF Drop
<1>2. Done \in Thread /\ Done.alive /\ Done.pc = "done"
  BY StepThread DEF InTransaction
<1>3. /\ threads' \in [Callbacks -> Thread]
      /\ \A e \in Callbacks \ {d} : threads'[e] = threads[e]
      /\ \/ threads'[d] = Done
         \/ /\ threads[d].pc \in InTransaction /\ ~threads'[d].alive
            /\ threads'[d].pc = threads[d].pc /\ threads'[d].op = threads[d].op
            /\ threads'[d].answer = threads[d].answer
  <2> DEFINE t == [threads[d] EXCEPT !.alive = FALSE]
  <2>1. threads \in [Callbacks -> Thread] /\ threads[d] \in Thread
    BY DEF IInv, TypeOK
  <2>2. /\ t \in Thread /\ ~t.alive /\ t.pc = threads[d].pc /\ t.op = threads[d].op
        /\ t.answer = threads[d].answer
    BY <2>1 DEF Thread
  <2>3. CASE threads' = [threads EXCEPT ![d] = Done]
    BY <1>2, <2>1, <2>3
  <2>4. CASE threads[d].pc \in InTransaction /\ threads' = [threads EXCEPT ![d].alive = FALSE]
    <3>1. threads' = [threads EXCEPT ![d] = t]
      BY <2>1, <2>4
    <3> HIDE DEF t
    <3> QED
      BY <2>1, <2>2, <2>4, <3>1
  <2> QED
    BY <1>1, <2>3, <2>4
<1>4. up
  BY <1>1 DEF IInv, ThreadInv, TypeOK
<1>5. TypeOK'
  BY <1>1, <1>3, NoOneAssumption DEF IInv, TypeOK
<1>6. ThreadInv'
  BY <1>1, <1>2, <1>3, <1>4, NoOneAssumption DEF IInv, ThreadInv, TypeOK
<1>7. threads[d].pc \in Armed =>
        record # NoRecord /\ Classify(record) # "Reserved"
        /\ \A e \in Callbacks \ {d} : threads[e].pc \notin Armed
  BY DEF IInv, EffectInv
<1>8. GuardInv'
  <2>1. CASE threads[d].pc \in Armed
    BY <1>1, <1>2, <1>3, <1>7, <2>1 DEF GuardInv, Armed
  <2>2. CASE threads[d].pc \notin Armed
    BY <1>1, <1>2, <1>3, <2>2 DEF IInv, GuardInv, Armed
  <2> QED
    BY <2>1, <2>2
<1>9. record = NoRecord \/ Classify(record) = "Reserved" => guards' = {}
  BY <1>1, <1>7 DEF IInv, EffectInv
<1>10. \A e \in Callbacks : threads'[e].pc \in Armed \cup {"reply"} =>
         /\ threads'[e].pc = threads[e].pc /\ threads'[e].op = threads[e].op
         /\ threads'[e].answer = threads[e].answer
  BY <1>2, <1>3 DEF Armed
<1> QED
  BY <1>1, <1>5, <1>6, <1>8, <1>9, <1>10, MovesKept

\* A crash ends every callback and guard.
LEMMA CrashKept ==
  ASSUME IInv, Crash
  PROVE  IInv'
<1>1. /\ up' = FALSE /\ gate' = NoOne /\ guards' = {}
      /\ threads' = [d \in Callbacks |-> IF threads[d].pc = "idle" THEN threads[d] ELSE Done]
      /\ UNCHANGED <<record, row, aged, live, service, effects, answers>>
  BY DEF Crash
<1>2. Done \in Thread /\ Done.alive /\ Done.pc = "done"
  BY StepThread DEF InTransaction
<1>3. /\ threads' \in [Callbacks -> Thread]
      /\ \A e \in Callbacks : threads'[e].pc \in {"idle", "done"} /\ threads'[e].alive
  BY <1>1, <1>2 DEF IInv, TypeOK, ThreadInv, InTransaction
<1>4. TypeOK'
  BY <1>1, <1>3 DEF IInv, TypeOK
<1>5. ThreadInv'
  BY <1>1, <1>3 DEF ThreadInv
<1>6. GuardInv'
  BY <1>1 DEF GuardInv
<1> QED
  BY <1>1, <1>3, <1>4, <1>5, <1>6, MovesKept DEF Armed

\* The receipt is written, collected or left alone while every callback stays
\* where it is: a reserved one may be cancelled, a running one marked or saved
\* as uncertain.
LEMMA WriterKept ==
  ASSUME IInv, UNCHANGED <<threads, gate, service, effects, answers>>,
         aged' \in BOOLEAN, live' \in Turns \cup {NoOne}, up' \in BOOLEAN, up => up',
         guards' \subseteq guards,
         \/ record' = record /\ row' \in {row, NoResult}
         \/ Marks("Dispatched", "CancelRequested")
         \/ \E v \in Result : Saves(v, "Unknown")
         \/ Classify(record) = "Reserved" /\ Saves("cancelled", "CancelledBeforeDispatch")
  PROVE  IInv'
<1>1. /\ RecordInv' /\ record' \in Record \cup {NoRecord} /\ row' \in Result \cup {NoResult}
      /\ record # NoRecord => record' # NoRecord
  <2>1. CASE record' = record /\ row' \in {row, NoResult}
    BY <2>1 DEF IInv, TypeOK, RecordInv, Terminal, Classify, WellFormed
  <2>2. CASE Marks("Dispatched", "CancelRequested")
    BY <2>2, RecordKept DEF IInv, TypeOK, Open
  <2>3. CASE \E v \in Result : Saves(v, "Unknown")
    BY <2>3, RecordKept DEF IInv, TypeOK
  <2>4. CASE Saves("cancelled", "CancelledBeforeDispatch")
    BY <2>4, RecordKept DEF IInv, TypeOK, Settled, Result
  <2> QED
    BY <2>1, <2>2, <2>3, <2>4
<1>2. TypeOK'
  BY <1>1 DEF IInv, TypeOK
<1>3. ThreadInv'
  <2>1. /\ \A d \in Callbacks :
             /\ ~threads[d].alive => threads[d].pc \in InTransaction
             /\ threads[d].pc = "reply" => threads[d].answer \in Result \cup {"pending"}
             /\ threads[d].pc \notin {"idle", "admit", "done"} => record # NoRecord
        /\ gate # NoOne => threads[gate].pc # "admit"
    BY DEF IInv, ThreadInv
  <2>2. ~up' => ~up
    OBVIOUS
  <2>3. ~up => /\ gate = NoOne /\ guards' = {}
               /\ \A d \in Callbacks : threads[d].pc \in {"idle", "done"}
    BY DEF IInv, ThreadInv
  <2> QED
    BY <1>1, <2>1, <2>2, <2>3 DEF ThreadInv
<1>4. GuardInv'
  BY <1>1 DEF IInv, GuardInv
<1>5. \/ record' = record
      \/ Classify(record) = "Reserved" /\ Classify(record') = "CancelledBeforeDispatch"
      \/ Classify(record') \in {"CancelRequested", "Unknown"}
  BY DEF Marks, Saves
<1>6. ASSUME record' = record
      PROVE  EffectInv' /\ ReceiptTrue'
  <2>1. /\ Classify(record)' = Classify(record) /\ Claimed' = Claimed
    BY <1>6 DEF Classify, Claimed
  <2>2. EffectInv'
    BY <1>6, <2>1 DEF IInv, EffectInv
  <2>3. ReceiptTrue'
    BY <1>6, <2>1 DEF IInv, ReceiptTrue
  <2> QED
    BY <2>2, <2>3
<1>7. ASSUME Classify(record) = "Reserved", Classify(record') = "CancelledBeforeDispatch"
      PROVE  EffectInv' /\ ReceiptTrue'
  <2>1. /\ effects = 0 /\ guards' = {}
        /\ \A d \in Callbacks : service[d] = "none" /\ threads[d].pc \notin Armed
    BY <1>7 DEF IInv, EffectInv
  <2>2. \A d \in Callbacks : threads[d].pc \notin {"run", "local"}
    BY <2>1 DEF Armed
  <2>3. EffectInv'
    BY <2>1, <2>2 DEF EffectInv
  <2>4. ReceiptTrue'
    BY <1>7, <2>1 DEF ReceiptTrue
  <2> QED
    BY <2>3, <2>4
<1>8. ASSUME Classify(record') \in {"CancelRequested", "Unknown"}, record' # record
      PROVE  EffectInv' /\ ReceiptTrue'
  <2>1. record # NoRecord /\ record' # NoRecord
    BY <1>1, <1>8, NoRecordAssumption DEF Marks, Saves
  <2>2. Claimed' /\ Classify(record)' # "Reserved"
    BY <1>8, <2>1 DEF Claimed
  <2>3. EffectInv'
    BY <2>1, <2>2 DEF IInv, EffectInv
  <2>4. ReceiptTrue'
    BY <1>8 DEF ReceiptTrue
  <2> QED
    BY <2>3, <2>4
<1>9. OperationInv'
  BY DEF IInv, OperationInv, Quiet
<1>10. AnswerInv'
  <2>1. \A a \in Result : Given(a)' => Given(a)
    BY DEF Given
  <2>2. CASE record' = record /\ row' \in {row, NoResult}
    BY <2>1, <2>2, AnswerKept DEF IInv, TypeOK
  <2>3. CASE Marks("Dispatched", "CancelRequested")
    BY <2>1, <2>3, AnswerKept DEF IInv, TypeOK, Open
  <2>4. CASE \E v \in Result : Saves(v, "Unknown")
    BY <2>1, <2>4, AnswerKept DEF IInv, TypeOK
  <2>5. CASE Saves("cancelled", "CancelledBeforeDispatch")
    BY <2>1, <2>5, AnswerKept DEF IInv, TypeOK, Settled, Result
  <2> QED
    BY <2>2, <2>3, <2>4, <2>5
<1> QED
  BY <1>1, <1>2, <1>3, <1>4, <1>5, <1>6, <1>7, <1>8, <1>9, <1>10 DEF IInv

\* A dropped dispatch is settled as uncertain by its guard.
LEMMA GuardSettlesKept ==
  ASSUME IInv, NEW d \in Callbacks, GuardSettles(d)
  PROVE  IInv'
<1>1. /\ d \in guards /\ guards' = guards \ {d}
      /\ SettleClaim(Unknown) \/ Keep
      /\ UNCHANGED <<aged, threads, gate, live, up, service, effects, answers>>
  BY DEF GuardSettles
<1>2. record # NoRecord /\ record \in Record /\ row \in Result \cup {NoResult} /\ RecordInv
  BY <1>1 DEF IInv, GuardInv, TypeOK
<1>3. Unknown.result = "unknown" /\ Records(Unknown) = "Unknown" /\ "unknown" \in Result
  BY TheOperations DEF Records, Unknown, Result
<1>4. Keep \/ Saves("unknown", "Unknown")
  BY <1>1, <1>2, <1>3, SettleClaimWrites, TheOperations
<1> QED
  BY <1>1, <1>3, <1>4, WriterKept DEF IInv, TypeOK, Keep

\* Cancellation and the two recoveries.
LEMMA RecoveryKept ==
  ASSUME IInv, Cancel \/ (\E c \in Generations : RecoverConnection(c)) \/ Startup
  PROVE  IInv'
<1>1. row \in Result \cup {NoResult} /\ RecordInv /\ (record # NoRecord => record \in Record)
  BY DEF IInv, TypeOK
<1>2. "cancelled" \in Result /\ "interrupted" \in Result
  BY DEF Result
<1>3. CASE Cancel
  <2>1. /\ record # NoRecord
        /\ UNCHANGED <<aged, threads, gate, guards, live, up, service, effects, answers>>
    BY <1>3 DEF Cancel
  <2>2. \/ Classify(record) = "Reserved" /\ Saves("cancelled", "CancelledBeforeDispatch")
        \/ Marks("Dispatched", "CancelRequested")
    BY <1>1, <1>3, <2>1, CancelWrites
  <2> QED
    BY <2>1, <2>2, WriterKept DEF IInv, TypeOK
<1>4. ASSUME Unsettled, Write(Abandoned(record)), up' \in BOOLEAN, up => up',
             UNCHANGED <<aged, threads, gate, guards, live, service, effects, answers>>
      PROVE  IInv'
  <2>1. \/ Classify(record) = "Reserved" /\ Saves("cancelled", "CancelledBeforeDispatch")
        \/ Saves("interrupted", "Unknown")
    BY <1>1, <1>4, AbandonedSaves DEF Unsettled
  <2> QED
    BY <1>2, <1>4, <2>1, WriterKept DEF IInv, TypeOK
<1>5. CASE \E c \in Generations : RecoverConnection(c)
  BY <1>4, <1>5 DEF RecoverConnection
<1>6. CASE Startup
  <2>1. /\ up' = TRUE
        /\ UNCHANGED <<aged, threads, gate, guards, live, service, effects, answers>>
    BY <1>6 DEF Startup
  <2>2. CASE Unsettled /\ SavedResult # "expired"
    BY <1>4, <1>6, <2>1, <2>2 DEF Startup
  <2>3. CASE ~(Unsettled /\ SavedResult # "expired")
    <3>1. Keep
      BY <1>6, <2>3 DEF Startup
    <3> QED
      BY <2>1, <3>1, WriterKept DEF IInv, TypeOK, Keep
  <2> QED
    BY <2>2, <2>3
<1> QED
  BY <1>3, <1>5, <1>6

\* Turns, age and retention.
LEMMA WorldKept ==
  ASSUME IInv, TurnChanges \/ Age \/ Collect
  PROVE  IInv'
<1>1. /\ UNCHANGED <<threads, gate, guards, up, service, effects, answers, record>>
      /\ row' \in {row, NoResult} /\ live' \in Turns \cup {NoOne} /\ aged' \in BOOLEAN
  BY DEF TurnChanges, Age, Collect, IInv, TypeOK
<1> QED
  BY <1>1, WriterKept DEF IInv, TypeOK

\* The external operation takes place or ends, once.
LEMMA ServiceKept ==
  ASSUME IInv, NEW d \in Callbacks, ServiceApplies(d) \/ ServiceEnds(d)
  PROVE  IInv'
<1>1. /\ service[d] = "running"
      /\ UNCHANGED <<record, row, aged, threads, gate, guards, live, up, answers>>
      /\ \/ service' = [service EXCEPT ![d] = "applied"] /\ effects' = effects + 1
         \/ service' = [service EXCEPT ![d] = "ended"] /\ effects' = effects
  BY DEF ServiceApplies, ServiceEnds
<1>2. effects = 0 /\ \A e \in Callbacks \ {d} : service[e] = "none"
  BY <1>1 DEF IInv, EffectInv
<1>3. /\ service' \in [Callbacks -> {"none", "running", "applied", "ended"}]
      /\ \A e \in Callbacks \ {d} : service'[e] = "none"
      /\ effects' = IF service'[d] = "applied" THEN 1 ELSE 0
      /\ service'[d] \in {"applied", "ended"}
  BY <1>1, <1>2 DEF IInv, TypeOK
<1>4. /\ record # NoRecord /\ Classify(record) # "Reserved"
      /\ \A e \in Callbacks : threads[e].pc \notin {"run", "local"}
  BY <1>1 DEF IInv, EffectInv
<1>5. ~Quiet
  BY <1>1 DEF Quiet
<1>6. /\ Classify(record)' = Classify(record) /\ Claimed' = Claimed
  BY <1>1 DEF Classify, Claimed
<1>7. TypeOK'
  BY <1>1, <1>3 DEF IInv, TypeOK
<1>8. RecordInv'
  BY <1>1, RecordKept DEF IInv, TypeOK, Keep
<1>9. ThreadInv' /\ GuardInv'
  BY <1>1 DEF IInv, ThreadInv, GuardInv
<1>10. EffectInv'
  <2>1. \A e \in Callbacks :
          /\ threads[e].pc \in Armed \ {"settle"} => Claimed
          /\ threads[e].pc \in Armed => \A f \in Callbacks \ {e} : threads[f].pc \notin Armed
    BY DEF IInv, EffectInv
  <2> QED
    BY <1>1, <1>3, <1>4, <1>6, <2>1 DEF EffectInv
<1>11. OperationInv'
  <2>1. \A e \in Callbacks : threads[e].pc \in {"finish", "settle"} =>
          threads[e].op # Applied /\ threads[e].op.kind \notin {"Rejected", "NotSent"}
    BY <1>2, <1>5 DEF IInv, OperationInv
  <2> QED
    BY <1>1, <2>1 DEF OperationInv
<1>12. AnswerInv'
  <2>1. \A a \in Result : Given(a)' => Given(a)
    BY <1>1 DEF Given
  <2> QED
    BY <1>1, <2>1, AnswerKept DEF IInv, TypeOK
<1>13. ReceiptTrue'
  BY <1>1, <1>2, <1>4, <1>6 DEF IInv, ReceiptTrue
<1> QED
  BY <1>7, <1>8, <1>9, <1>10, <1>11, <1>12, <1>13 DEF IInv

-----------------------------------------------------------------------------
(* The inductive invariant holds.                                           *)

\* Before the first callback there is nothing.
LEMMA InitIInv == Init => IInv
<1> SUFFICES ASSUME Init PROVE IInv
  OBVIOUS
<1>1. Step("idle") \in Thread /\ Step("idle").alive /\ Step("idle").pc = "idle"
  BY StepThread
<1>2. \A d \in Callbacks : threads[d] = Step("idle")
  BY DEF Init
<1>3. TypeOK
  BY <1>1, <1>2 DEF Init, TypeOK
<1>4. RecordInv /\ ReceiptTrue
  BY DEF Init, RecordInv, ReceiptTrue
<1>5. ThreadInv /\ GuardInv
  BY <1>1, <1>2 DEF Init, ThreadInv, GuardInv
<1>6. EffectInv
  BY <1>1, <1>2 DEF Init, EffectInv, Armed
<1>7. OperationInv
  BY <1>1, <1>2 DEF OperationInv
<1>8. AnswerInv
  BY <1>1, <1>2 DEF Init, AnswerInv, Given
<1> QED
  BY <1>3, <1>4, <1>5, <1>6, <1>7, <1>8 DEF IInv

\* Every step preserves the inductive invariant.
LEMMA NextIInv == IInv /\ [Next]_vars => IInv'
<1> SUFFICES ASSUME IInv, [Next]_vars PROVE IInv'
  OBVIOUS
<1>1. ASSUME NEW d \in Callbacks,
             \/ Start(d) \/ Admit(d) \/ TakeGate(d) \/ Claim(d) \/ Run(d) \/ Return(d)
             \/ Finish(d) \/ Local(d) \/ RecordSettlement(d) \/ Reply(d)
             \/ Drop(d) \/ GuardSettles(d) \/ ServiceApplies(d) \/ ServiceEnds(d)
      PROVE  IInv'
  BY <1>1, StartKept, AdmitKept, TakeGateKept, ClaimKept, RunKept, ReturnKept, FinishKept,
     LocalKept, RecordSettlementKept, ReplyKept, DropKept, GuardSettlesKept, ServiceKept
<1>2. CASE UNCHANGED vars
  <2>1. UNCHANGED <<threads, gate, guards, up, service, effects, answers, record, row, live, aged>>
    BY <1>2 DEF vars
  <2> QED
    BY <2>1, WriterKept DEF IInv, TypeOK
<1> QED
  BY <1>1, <1>2, RecoveryKept, CrashKept, WorldKept DEF Next

\* The inductive invariant holds in every reachable state.
THEOREM ToolInvariant == Spec => []IInv
  BY InitIInv, NextIInv, PTL DEF Spec

-----------------------------------------------------------------------------
(* The theorems.                                                            *)

\* Receipt, reply, callbacks, gate and guards are well formed, and the gate is
\* held by a live callback in a transaction or an await.
THEOREM ToolTypes == Spec => []TypeOK
<1>1. IInv => TypeOK
  BY DEF IInv
<1> QED
  BY <1>1, ToolInvariant, PTL

\* The mutation of a request takes place at most once.
THEOREM EffectsOnce == Spec => []EffectOnce
<1>1. IInv => EffectOnce
  BY DEF IInv, EffectInv, EffectOnce
<1> QED
  BY <1>1, ToolInvariant, PTL

\* A settled receipt is true for good.
THEOREM ToolReceiptsTrue == Spec => []ReceiptTrue
<1>1. IInv => ReceiptTrue
  BY DEF IInv
<1> QED
  BY <1>1, ToolInvariant, PTL

\* The final results that callbacks are given agree.
THEOREM AllAnswersAgree == Spec => []AnswersAgree
<1>1. IInv => AnswersAgree
  BY DEF IInv, TypeOK, AnswerInv, Given, AnswersAgree
<1> QED
  BY <1>1, ToolInvariant, PTL

\* A step that changes the receipt creates it, or finds it open.
LEMMA NextWrites ==
  ASSUME IInv, Next
  PROVE  /\ Keep \/ record = NoRecord \/ Classify(record) \in Open \/ aged'
         /\ aged' = aged \/ aged'
<1>1. row \in Result \cup {NoResult} /\ RecordInv /\ (record # NoRecord => record \in Record)
  BY DEF IInv, TypeOK
<1>2. ASSUME NEW d \in Callbacks, Claim(d)
      PROVE  Keep \/ Classify(record) \in Open
  <2>1. record # NoRecord
    BY <1>2 DEF IInv, ThreadInv, Claim
  <2> QED
    BY <1>1, <1>2, <2>1, ClaimMarks DEF Claim, Marks
<1>3. ASSUME NEW d \in Callbacks, Finish(d) \/ Local(d)
      PROVE  Keep \/ Classify(record) \in Open
  <2>1. Claimed /\ record # NoRecord
    BY <1>3 DEF IInv, EffectInv, Armed, Finish, Local, Claimed
  <2>2. Keep \/ SavedResult = NoResult
    BY <1>3 DEF Finish, Local, ExecuteOnce
  <2> QED
    BY <1>1, <2>1, <2>2, RunningClaim DEF Open
<1>4. ASSUME NEW d \in Callbacks, RecordSettlement(d) \/ GuardSettles(d)
      PROVE  Keep \/ Classify(record) \in Open
  <2>1. PICK op \in DispatchedOperation : SettleClaim(op) \/ Keep
    BY <1>4, TheOperations DEF RecordSettlement, GuardSettles, IInv, TypeOK, Thread
  <2>2. record # NoRecord
    BY <1>4 DEF IInv, ThreadInv, GuardInv, RecordSettlement, GuardSettles
  <2> QED
    BY <1>1, <2>1, <2>2, SettleClaimWrites DEF Saves
<1>5. CASE Cancel
  BY <1>1, <1>5, CancelWrites DEF Cancel, Marks, Saves
<1>6. CASE Startup \/ \E c \in Generations : RecoverConnection(c)
  <2>1. Keep \/ (Unsettled /\ Write(Abandoned(record)))
    BY <1>6 DEF Startup, RecoverConnection
  <2>2. aged' = aged
    BY <1>6 DEF Startup, RecoverConnection
  <2> QED
    BY <1>1, <2>1, <2>2, AbandonedSaves DEF Unsettled, Open
<1>7. ASSUME NEW d \in Callbacks,
             \/ Start(d) \/ Admit(d) \/ TakeGate(d) \/ Run(d) \/ Return(d)
             \/ Reply(d) \/ Drop(d) \/ ServiceApplies(d) \/ ServiceEnds(d)
      PROVE  (Keep \/ record = NoRecord) /\ aged' = aged
  BY <1>7 DEF Start, Admit, TakeGate, Run, Return, Reply, Drop, ServiceApplies, ServiceEnds, Keep
<1>8. ASSUME NEW d \in Callbacks,
             Claim(d) \/ Finish(d) \/ Local(d) \/ RecordSettlement(d) \/ GuardSettles(d)
      PROVE  aged' = aged
  BY <1>8 DEF Claim, Finish, Local, RecordSettlement, GuardSettles
<1>9. CASE Crash \/ TurnChanges \/ Age \/ Collect
  BY <1>9 DEF Crash, TurnChanges, Age, Collect, Keep
<1>10. Cancel => aged' = aged
  BY DEF Cancel
<1> QED
  BY <1>2, <1>3, <1>4, <1>5, <1>6, <1>7, <1>8, <1>9, <1>10 DEF Next

\* What a replay is answered never changes inside the replay window.
THEOREM FirstResultsWin == Spec => FirstResultWins
<1>1. IInv /\ [Next]_vars => [(SavedResult \in Result) => (aged' \/ SavedResult' = SavedResult)]_vars
  <2> SUFFICES ASSUME IInv, Next, SavedResult \in Result, ~aged'
               PROVE  SavedResult' = SavedResult
    OBVIOUS
  <2>1. record # NoRecord
    BY NoResultAssumption DEF SavedResult
  <2>2. record \in Record /\ row \in Result \cup {NoResult} /\ RecordInv
    BY <2>1 DEF IInv, TypeOK
  <2>3. Classify(record) \notin Open
    BY <2>1, <2>2, SavedResultIs, NoResultAssumption
  <2>4. Keep /\ aged' = aged
    BY <2>1, <2>3, NextWrites
  <2> QED
    BY <2>4 DEF Keep, SavedResult, Terminal, Classify
<1> QED
  BY <1>1, ToolInvariant, PTL DEF Spec, FirstResultWins

\* While its dispatch is alive, a claim is settled by that dispatch alone.
THEOREM OwnersSettle == Spec => OwnerSettles
<1>1. IInv /\ [Next]_vars =>
        [record # NoRecord /\ gate # NoOne /\ threads[gate].pc \in Armed
           /\ record'.stage # record.stage => threads'[gate] # threads[gate]]_vars
  <2> SUFFICES ASSUME IInv, Next, record # NoRecord, gate # NoOne, threads[gate].pc \in Armed,
                      record'.stage # record.stage
               PROVE  threads'[gate] # threads[gate]
    OBVIOUS
  <2>1. /\ gate \in Callbacks /\ threads[gate].alive /\ record \in Record
        /\ row \in Result \cup {NoResult} /\ RecordInv
    BY DEF IInv, TypeOK
  <2>2. /\ guards = {} /\ up /\ Classify(record) # "Reserved"
        /\ \A d \in Callbacks : threads[d].pc \in Armed => d = gate
    BY <2>1 DEF IInv, GuardInv, ThreadInv, EffectInv
  <2>3. record' # record
    OBVIOUS
  <2>4. ASSUME NEW d \in Callbacks,
               \/ Start(d) \/ Admit(d) \/ TakeGate(d) \/ Run(d) \/ Return(d) \/ Reply(d)
               \/ Drop(d) \/ GuardSettles(d) \/ ServiceApplies(d) \/ ServiceEnds(d)
        PROVE  FALSE
    BY <2>2, <2>3, <2>4 DEF Start, Admit, TakeGate, Run, Return, Reply, Drop, GuardSettles,
       ServiceApplies, ServiceEnds
  <2>5. ASSUME NEW d \in Callbacks, Claim(d)
        PROVE  FALSE
    BY <2>1, <2>2, <2>3, <2>5, ClaimMarks DEF Claim, Keep, Marks
  <2>6. ASSUME NEW d \in Callbacks, Finish(d) \/ Local(d) \/ RecordSettlement(d)
        PROVE  threads'[gate] # threads[gate]
    <3>1. threads[d].pc \in {"finish", "local", "settle"} /\ d = gate
      BY <2>2, <2>6 DEF Finish, Local, RecordSettlement, Armed
    <3>2. \E next : /\ Goes(d, next) /\ next.pc # threads[d].pc
      BY <2>3, <2>6 DEF Finish, Local, RecordSettlement, Keep, At, Done, Step
    <3> QED
      BY <2>1, <3>1, <3>2 DEF Goes, IInv, TypeOK
  <2>7. CASE Cancel
    <3>1. Marks("Dispatched", "CancelRequested")
      BY <2>1, <2>2, <2>7, CancelWrites
    <3>2. record.stage = "running" /\ record'.stage = "running"
      BY <2>1, <3>1, StageOf DEF Marks, RecordInv
    <3> QED
      BY <3>2
  <2>8. ASSUME \/ Startup \/ Crash \/ TurnChanges \/ Age \/ Collect
               \/ \E c \in Generations : RecoverConnection(c)
        PROVE  FALSE
    BY <2>2, <2>3, <2>8 DEF Startup, Crash, TurnChanges, Age, Collect, RecoverConnection
  <2> QED
    BY <2>4, <2>5, <2>6, <2>7, <2>8 DEF Next
<1> QED
  BY <1>1, ToolInvariant, PTL DEF Spec, OwnerSettles

-----------------------------------------------------------------------------
(* The receipt of a tool request implements Receipt.                        *)

Told == ReceiptOf(IF record = NoRecord THEN "None" ELSE Classify(record))

\* What is read of a stored receipt.
LEMMA ToldIs ==
  ASSUME NEW rec \in Record, record = rec
  PROVE  Told = ReceiptOf(Classify(rec))
  BY NoRecordAssumption DEF Told

LEMMA ToldIsNext ==
  ASSUME NEW rec \in Record, record' = rec
  PROVE  Told' = ReceiptOf(Classify(rec))
  BY NoRecordAssumption DEF Told

\* The first result of an open receipt is recorded: its outcome is confirmed,
\* refused or lost.
LEMMA SavesImplements ==
  ASSUME IInv', NEW v, NEW c, Saves(v, c), effects' = effects
  PROVE  Promised!Next
<1>1. /\ record \in Record /\ Classify(record) \in Open
      /\ record' \in Record /\ Classify(record') = c /\ c \in Settled \cup {"Unknown"}
  BY DEF Saves
<1>2. Told = ReceiptOf(Classify(record)) /\ Told' = ReceiptOf(c)
  BY <1>1, ToldIs, ToldIsNext
<1>3. Told \in Promised!Open
  BY <1>1, <1>2 DEF ReceiptOf, Open, Promised!Open
<1>4. record' # NoRecord
  BY <1>1, NoRecordAssumption
<1>5. /\ c = "Applied" => effects > 0
      /\ c \in {"NotApplied", "CancelledBeforeDispatch"} => effects = 0
  BY <1>1, <1>4 DEF IInv, ReceiptTrue
<1>6. effects \in Nat /\ effects <= 1
  BY DEF IInv, TypeOK, EffectInv
<1>7. CASE c = "Unknown"
  BY <1>2, <1>3, <1>7 DEF Promised!Next, Promised!LoseTrack, ReceiptOf, Told
<1>8. CASE c = "Applied"
  <2>1. effects = 1
    BY <1>5, <1>6, <1>8
  <2> QED
    BY <1>2, <1>3, <1>8, <2>1 DEF Promised!Next, Promised!Confirm, ReceiptOf, Told
<1>9. CASE c \in {"NotApplied", "CancelledBeforeDispatch"}
  BY <1>2, <1>3, <1>5, <1>9 DEF Promised!Next, Promised!Refuse, ReceiptOf, Told
<1> QED
  BY <1>1, <1>7, <1>8, <1>9 DEF Settled

\* The claim and the mark of a cancellation.
LEMMA MarksImplements ==
  ASSUME Marks("Reserved", "Dispatched") \/ Marks("Dispatched", "CancelRequested"),
         effects' = effects
  PROVE  [Promised!Next]_<<Told, effects>>
<1>1. record \in Record /\ record' \in Record
  BY DEF Marks
<1>2. Told = ReceiptOf(Classify(record)) /\ Told' = ReceiptOf(Classify(record'))
  BY <1>1, ToldIs, ToldIsNext
<1>3. CASE Marks("Reserved", "Dispatched")
  <2>1. Told = "reserved" /\ Told' = "running"
    BY <1>2, <1>3 DEF Marks, ReceiptOf
  <2> QED
    BY <2>1 DEF Promised!Next, Promised!Claim, Told
<1>4. CASE Marks("Dispatched", "CancelRequested")
  <2>1. Told = "running" /\ Told' = "running"
    BY <1>2, <1>4 DEF Marks, ReceiptOf
  <2> QED
    BY <2>1
<1> QED
  BY <1>3, <1>4

\* An external operation acts after the claim and before any outcome is told.
LEMMA ServiceImplements ==
  ASSUME IInv, NEW d \in Callbacks, ServiceApplies(d)
  PROVE  Promised!Act
<1>1. service[d] = "running" /\ effects' = effects + 1 /\ record' = record
  BY DEF ServiceApplies
<1>2. effects = 0
  BY <1>1 DEF IInv, EffectInv
<1>3. record # NoRecord /\ Classify(record) # "Reserved"
  BY <1>1 DEF IInv, EffectInv
<1>4. record \in Record /\ Classify(record) \in OperationState
  BY <1>3, ClassifyType DEF IInv, TypeOK
<1>5. Classify(record) \notin Settled
  BY <1>1, <1>2, <1>3 DEF IInv, ReceiptTrue, Settled
<1>6. Told \in {"running", "unknown"} /\ Told' = Told
  BY <1>1, <1>3, <1>4, <1>5 DEF Told, ReceiptOf, OperationState, Settled
<1>7. effects' = 1
  BY <1>1, <1>2
<1> QED
  BY <1>2, <1>6, <1>7 DEF Promised!Act, Told

\* The local transaction acts and tells it, refuses, or leaves the receipt alone.
LEMMA LocalImplements ==
  ASSUME IInv, IInv', NEW d \in Callbacks, Local(d)
  PROVE  [Promised!Next]_<<Told, effects>>
<1>1. Claimed /\ effects = 0 /\ record \in Record /\ row \in Result \cup {NoResult} /\ RecordInv
  BY DEF IInv, TypeOK, EffectInv, Claimed, Armed, Local
<1>2. CASE Keep /\ UNCHANGED effects
  BY <1>2 DEF Keep, Told, Classify
<1>3. ASSUME NEW result \in {"applied", "refused"}, ExecuteOnce(d, result)
      PROVE  Promised!Next
  <2>1. CASE result = "refused" /\ Saves(result, "NotApplied") /\ effects' = effects
    BY <2>1, SavesImplements
  <2>2. CASE result = "applied" /\ Saves(result, "Applied") /\ effects' = effects + 1
    <3>1. Told = ReceiptOf(Classify(record)) /\ Told' = ReceiptOf("Applied")
      BY <2>2, ToldIs, ToldIsNext DEF Saves
    <3>2. Told \in {"running", "unknown"} /\ Told' = "applied" /\ effects' = 1
      BY <1>1, <2>2, <3>1 DEF Claimed, ReceiptOf
    <3> QED
      BY <1>1, <3>2 DEF Promised!Next, Promised!Act, Told
  <2> QED
    BY <1>1, <1>3, <2>1, <2>2, ExecuteOnceSaves
<1> QED
  BY <1>2, <1>3 DEF Local

\* Every step is a step of the abstract receipt or a stutter.
LEMMA ToolStepImplements ==
  ASSUME IInv, IInv', [Next]_vars
  PROVE  [Promised!Next]_<<Told, effects>>
<1>0. /\ row \in Result \cup {NoResult} /\ RecordInv
      /\ record # NoRecord => record \in Record /\ WellFormed(record)
  BY DEF IInv, TypeOK, RecordInv
<1>1. CASE record' = record /\ effects' = effects
  BY <1>1 DEF Told, Classify
<1>2. ASSUME NEW d \in Callbacks,
             \/ Start(d) \/ TakeGate(d) \/ Run(d) \/ Return(d) \/ Reply(d) \/ Drop(d)
             \/ ServiceEnds(d)
      PROVE  record' = record /\ effects' = effects
  BY <1>2 DEF Start, TakeGate, Run, Return, Reply, Drop, ServiceEnds
<1>3. ASSUME NEW d \in Callbacks, Admit(d)
      PROVE  [Promised!Next]_<<Told, effects>>
  <2>1. CASE record = NoRecord /\ record' = Reservation(d) /\ effects' = effects
    <3>1. /\ Classify(Reservation(d)) = "Reserved" /\ Reservation(d) \in Record
      BY ContextAssumption DEF Reservation, Classify, Record
    <3>2. Told = "nothing" /\ Told' = "reserved"
      BY <2>1, <3>1, ToldIsNext DEF Told, ReceiptOf
    <3> QED
      BY <2>1, <3>2 DEF Promised!Next, Promised!Reserve, Told
  <2> QED
    BY <1>1, <1>3, <2>1 DEF Admit
<1>4. ASSUME NEW d \in Callbacks, Claim(d)
      PROVE  [Promised!Next]_<<Told, effects>>
  <2>1. record # NoRecord /\ effects' = effects
    BY <1>4 DEF IInv, ThreadInv, Claim
  <2>2. \/ record' = record
        \/ /\ Decide(record, "ClaimDispatch").kind = "Transitioned"
           /\ Write(After(record, "ClaimDispatch"))
    BY <1>4 DEF Claim, Keep
  <2> QED
    BY <1>0, <1>1, <2>1, <2>2, ClaimMarks, MarksImplements
<1>5. ASSUME NEW d \in Callbacks, Finish(d)
      PROVE  [Promised!Next]_<<Told, effects>>
  <2>1. Claimed /\ effects' = effects /\ threads[d].op \in DispatchedOperation
    BY <1>5 DEF IInv, TypeOK, Thread, EffectInv, Armed, Finish
  <2>2. record' = record \/ (SavedResult = NoResult /\ Write(Finalize(record, threads[d].op)))
    BY <1>5 DEF Finish, Keep
  <2>3. CASE SavedResult = NoResult /\ Write(Finalize(record, threads[d].op))
    <3>1. /\ Classify(record) \in {"Dispatched", "CancelRequested"} /\ row = NoResult
          /\ WellFormed(record) /\ record # NoRecord /\ record \in Record
      BY <1>0, <2>1, <2>3, RunningClaim DEF Claimed
    <3>2. Saves(threads[d].op.result, Records(threads[d].op))
      BY <2>1, <2>3, <3>1, FinalizeSaves
    <3> QED
      BY <2>1, <3>2, SavesImplements
  <2> QED
    BY <1>1, <2>1, <2>2, <2>3
<1>6. ASSUME NEW d \in Callbacks, RecordSettlement(d) \/ GuardSettles(d)
      PROVE  [Promised!Next]_<<Told, effects>>
  <2>1. PICK op \in DispatchedOperation : SettleClaim(op) \/ Keep
    BY <1>6, TheOperations DEF RecordSettlement, GuardSettles, IInv, TypeOK, Thread
  <2>2. record # NoRecord /\ effects' = effects
    BY <1>6 DEF IInv, ThreadInv, GuardInv, RecordSettlement, GuardSettles
  <2>3. record' = record \/ Saves(op.result, Records(op))
    BY <1>0, <2>1, <2>2, SettleClaimWrites DEF Keep
  <2> QED
    BY <1>1, <2>2, <2>3, SavesImplements
<1>7. CASE Cancel
  <2>1. record # NoRecord /\ effects' = effects
    BY <1>7 DEF Cancel
  <2> QED
    BY <1>0, <1>7, <2>1, CancelWrites, SavesImplements, MarksImplements
<1>8. CASE Startup \/ \E c \in Generations : RecoverConnection(c)
  <2>1. record' = record \/ (Unsettled /\ Write(Abandoned(record)))
    BY <1>8 DEF Startup, RecoverConnection, Keep
  <2>2. effects' = effects
    BY <1>8 DEF Startup, RecoverConnection
  <2> QED
    BY <1>0, <1>1, <2>1, <2>2, AbandonedSaves, SavesImplements DEF Unsettled
<1>9. CASE Crash \/ TurnChanges \/ Age \/ Collect \/ UNCHANGED vars
  BY <1>1, <1>9 DEF Crash, TurnChanges, Age, Collect, vars
<1>10. ASSUME NEW d \in Callbacks, ServiceApplies(d)
       PROVE  Promised!Next
  BY <1>10, ServiceImplements DEF Promised!Next
<1> QED
  BY <1>1, <1>2, <1>3, <1>4, <1>5, <1>6, <1>7, <1>8, <1>9, <1>10, LocalImplements DEF Next

\* The receipt of a tool request implements the abstract receipt, for any
\* callbacks and connections.
THEOREM ToolImplementsReceipt == Spec => ImplementsReceipt
<1>1. Init => Promised!Init
  BY DEF Init, Promised!Init, ReceiptOf
<1>2. IInv /\ IInv' /\ [Next]_vars => [Promised!Next]_<<Told, effects>>
  BY ToolStepImplements
<1> QED
  BY <1>1, <1>2, ToolInvariant, PTL DEF Spec, ImplementsReceipt, Promised!Spec, Told
=============================================================================
