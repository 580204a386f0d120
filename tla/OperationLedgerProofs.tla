----------------------- MODULE OperationLedgerProofs -----------------------
(***************************************************************************)
(* The safety properties of OperationLedger for every choice of constants. *)
(*                                                                         *)
(* The argument.  Transition either leaves the slot alone, admits into the *)
(* empty slot, or moves an occupied slot by an event whose revision and    *)
(* attempt match (TransitionCases).  A Dispatch intent leaves Reserved,    *)
(* which nothing re-enters, hence at most one.  Truth of a settled receipt *)
(* needs the mail: a proof that was captured before a claim carries a      *)
(* revision the claim made stale (MailInv).                                *)
(***************************************************************************)
EXTENDS OperationLedger, TLAPS

-----------------------------------------------------------------------------
(* The inductive invariant.                                                 *)

\* The slot and the world in step: nothing is dispatched before the claim, and
\* nothing happens before the dispatch.
WorldInv ==
  /\ slot.state = "None" => slot.revision = 0 /\ ~slot.compacted
  /\ slot.state \in {"None", "Reserved"} => dispatches = 0
  /\ dispatches = 0 => handler = "idle"
  /\ handler = "idle" => ~effect
  /\ dispatches <= 1

\* What an event in flight about this operation still proves: positive evidence
\* and the proof of a handler that ended stay true, while a cancellation proof
\* and the proof of an absent child are only as good as the revision they name.
Evidence(e) ==
  /\ e.kind \in {"AppliedResponse", "AppliedEvidence"} => effect
  /\ e.kind \in {"DefinitiveRejection", "NonExecutionEvidence"} =>
       /\ e.proof \in {"ExactPreWriteRejection", "ReadOnlyRejection"} => NothingHappened
       /\ e.proof = "QueuedCancellation" /\ e.expected = slot.revision => slot.state = "Reserved"
       /\ e.proof = "ReviewChildAbsent" /\ e.expected = slot.revision => NoChild

\* Every event in flight asks for admission, is another operation's, or proves
\* what it says.
Sound(e) == e.kind = "Admit" \/ Foreign(e) \/ Evidence(e)

MailInv ==
  \A e \in mail :
    /\ e.kind # "Admit" => slot.state # "None" /\ e.expected <= slot.revision
    /\ Sound(e)

IInv == TypeOK /\ WorldInv /\ RevisionWithinRank /\ SettledIsTrue /\ MailInv

-----------------------------------------------------------------------------
(* The decision function.                                                   *)

\* d is the decision of moving the occupied slot s by event e.
Moves(s, e, d) ==
  /\ IsOccupied(s)
  /\ s.identity = e.identity
  /\ AttemptError(s, e) = "None"
  /\ ~Absorbs(s.state, e.kind)
  /\ ~Unsupported(s.state, e)
  /\ e.expected = s.revision
  /\ s.revision < MaxRevision
  /\ Target(s.state, e.kind) # "None"
  /\ d.intent = Intent(s.state, e.kind)
  /\ d.slot = [revision |-> s.revision + 1, state |-> Target(s.state, e.kind),
               compacted |-> FALSE, identity |-> s.identity, content |-> s.content,
               attempt |-> NextAttempt(s, e)]

\* d is the decision of admitting e into the empty slot s.
Admits(s, e, d) ==
  /\ IsEmpty(s)
  /\ e.kind = "Admit"
  /\ s.revision = 0
  /\ s.revision < MaxRevision
  /\ d.intent = "Reserve"
  /\ d.slot = [revision |-> 1, state |-> "Reserved", compacted |-> FALSE,
               identity |-> e.identity, content |-> e.content, attempt |-> e.attempt]

\* d keeps the slot s and asks for no effect.
Keeps(s, d) == d.slot = s /\ d.intent = "None"

\* Every decision of transition keeps the slot, admits, or moves it: the only
\* ways the crate lets a record change.
LEMMA TransitionCases ==
  ASSUME NEW s \in Slot, NEW e \in Event
  PROVE  \/ Keeps(s, Transition(s, e))
         \/ Admits(s, e, Transition(s, e))
         \/ Moves(s, e, Transition(s, e))
<1> DEFINE d == Transition(s, e)
<1>0. s.revision # MaxRevision => s.revision < MaxRevision
  BY MaxRevisionAssumption DEF Slot
<1>a. \A error : Keeps(s, Reject(s, error))
  BY DEF Keeps, Reject, Unchanged
<1>b. \A kind : Keeps(s, Unchanged(s, kind, "None"))
  BY DEF Keeps, Unchanged
<1>1. CASE IsEmpty(s)
  <2>1. d = TransitionEmpty(s, e)
    BY <1>1 DEF Transition
  <2>2. CASE e.kind = "Admit"
    <3>1. d = AdmitEmpty(s, e)
      BY <2>1, <2>2 DEF TransitionEmpty
    <3>2. CASE s.revision # 0 \/ e.expected # s.revision \/ s.revision = MaxRevision
      BY <3>1, <3>2, <1>a DEF AdmitEmpty, Transitioned
    <3>3. CASE s.revision = 0 /\ e.expected = s.revision /\ s.revision # MaxRevision
      <4>1. d = Transitioned(s, "Reserved", e.identity, e.content, e.attempt, "Reserve")
        BY <3>1, <3>3 DEF AdmitEmpty
      <4>2. d.intent = "Reserve" /\ d.slot = [revision |-> 1, state |-> "Reserved",
               compacted |-> FALSE, identity |-> e.identity, content |-> e.content,
               attempt |-> e.attempt]
        BY <4>1, <3>3 DEF Transitioned
      <4> QED BY <4>2, <3>3, <2>2, <1>1, <1>0 DEF Admits
    <3> QED BY <3>2, <3>3
  <2>3. CASE e.kind # "Admit"
    BY <2>1, <2>3, <1>a, <1>b DEF TransitionEmpty
  <2> QED BY <2>2, <2>3
<1>2. CASE ~IsEmpty(s) /\ s.compacted
  <2>1. d = TransitionCompacted(s, e)
    BY <1>2 DEF Transition
  <2> QED BY <2>1, <1>a, <1>b DEF TransitionCompacted
<1>3. CASE ~IsEmpty(s) /\ ~s.compacted
  <2>1. d = TransitionOccupied(s, e)
    BY <1>3 DEF Transition
  <2>2. CASE \/ s.identity # e.identity \/ e.kind = "Admit"
             \/ AttemptError(s, e) # "None" \/ e.kind = "ReceiptMissing"
    BY <2>1, <2>2, <1>a, <1>b DEF TransitionOccupied
  <2>3. CASE ~(\/ s.identity # e.identity \/ e.kind = "Admit"
               \/ AttemptError(s, e) # "None" \/ e.kind = "ReceiptMissing")
    <3>1. CASE Absorbs(s.state, e.kind)
      BY <2>1, <2>3, <3>1, <1>b DEF TransitionOccupied, NoEffect
    <3>2. CASE ~Absorbs(s.state, e.kind)
      <4>1. d = TransitionChecked(s, e)
        BY <2>1, <2>3, <3>2 DEF TransitionOccupied
      <4>2. CASE \/ e.expected # s.revision \/ Unsupported(s.state, e)
                 \/ Target(s.state, e.kind) = "None" \/ s.revision = MaxRevision
        BY <4>1, <4>2, <1>a DEF TransitionChecked, Transitioned
      <4>3. CASE ~(\/ e.expected # s.revision \/ Unsupported(s.state, e)
                   \/ Target(s.state, e.kind) = "None" \/ s.revision = MaxRevision)
        <5>1. d = Transitioned(s, Target(s.state, e.kind), s.identity, s.content,
                               NextAttempt(s, e), Intent(s.state, e.kind))
          BY <4>1, <4>3 DEF TransitionChecked
        <5>2. /\ d.intent = Intent(s.state, e.kind)
              /\ d.slot = [revision |-> s.revision + 1, state |-> Target(s.state, e.kind),
                   compacted |-> FALSE, identity |-> s.identity, content |-> s.content,
                   attempt |-> NextAttempt(s, e)]
          BY <5>1, <4>3 DEF Transitioned
        <5>3. IsOccupied(s)
          BY <1>3 DEF IsEmpty, IsOccupied
        <5>4. e.expected = s.revision /\ ~Unsupported(s.state, e)
              /\ Target(s.state, e.kind) # "None" /\ s.revision < MaxRevision
          BY <4>3, <1>0
        <5> QED BY <5>2, <5>3, <5>4, <2>3, <3>2 DEF Moves
      <4> QED BY <4>2, <4>3
    <3> QED BY <3>1, <3>2
  <2> QED BY <2>2, <2>3
<1> QED BY <1>1, <1>2, <1>3

\* An accepted event leads to a state of higher rank, and dispatches only from
\* Reserved (the match of transition has no arm that goes back).
LEMMA TargetRises ==
  ASSUME NEW s \in Slot, NEW e \in Event, NEW d, Moves(s, e, d)
  PROVE  /\ d.slot \in Slot
         /\ ~d.slot.compacted
         /\ s.state \in Open \cup {"Unknown"}
         /\ d.slot.state \in OperationState \ {"Reserved"}
         /\ d.slot.revision = s.revision + 1
         /\ Rank(d.slot) >= Rank(s) + 1
         /\ d.intent = "Dispatch" <=> s.state = "Reserved" /\ e.kind = "ClaimDispatch"
<1>1. Target(s.state, e.kind) \in OperationState \ {"Reserved"}
      /\ s.state \in Open \cup {"Unknown"}
  BY DEF Moves, Target, Open, OperationState
<1>2. NextAttempt(s, e) \in AttemptIdentity
  BY DEF NextAttempt, Slot, Event, AttemptIdentity
<1>3. s.revision + 1 \in 0..MaxRevision
  BY MaxRevisionAssumption DEF Moves, Slot
<1>4. d.slot \in Slot
  BY <1>1, <1>2, <1>3 DEF Moves, Slot
<1>5. d.slot.state = Target(s.state, e.kind) /\ ~d.slot.compacted
      /\ d.slot.revision = s.revision + 1
  BY DEF Moves
<1>6. Rank(d.slot) >= Rank(s) + 1
  BY <1>1, <1>5 DEF Moves, Rank, Target, Open, Settled, OperationState, IsOccupied
<1>7. d.intent = "Dispatch" <=> s.state = "Reserved" /\ e.kind = "ClaimDispatch"
  BY <1>1 DEF Moves, Intent, Target, Open
<1> QED BY <1>1, <1>4, <1>5, <1>6, <1>7

\* An event that matching_attempt lets through is not another operation's.
LEMMA MatchedNotForeign ==
  ASSUME NEW e \in Event, slot \in Slot,
         slot.identity = e.identity, AttemptError(slot, e) = "None"
  PROVE  ~Foreign(e)
  BY DEF AttemptError, Foreign, Slot, Event, AttemptIdentity

-----------------------------------------------------------------------------
(* One store write with a sound event keeps the invariant.                  *)

\* Writing a decision of transition keeps the slot part of the invariant, whichever
\* of absorbed, rejected or transitioned it is.
LEMMA ApplyStep ==
  ASSUME IInv, NEW e \in Event, Sound(e), Apply(Transition(slot, e)), mail' \subseteq mail
  PROVE  IInv'
<1> DEFINE d == Transition(slot, e)
<1>0. slot \in Slot
  BY DEF IInv, TypeOK
<1>1. CASE Keeps(slot, d)
  <2>1. UNCHANGED <<slot, handler, effect, dispatches>>
    BY <1>1 DEF Apply, Keeps
  <2> QED BY <2>1 DEF IInv, TypeOK, WorldInv, RevisionWithinRank, SettledIsTrue, MailInv,
            Sound, Evidence, Foreign, NoChild, NothingHappened, Rank
<1>2. CASE Admits(slot, e, d)
  <2>1. /\ slot' = [revision |-> 1, state |-> "Reserved", compacted |-> FALSE,
               identity |-> e.identity, content |-> e.content, attempt |-> e.attempt]
        /\ UNCHANGED <<handler, effect, dispatches>>
    BY <1>2 DEF Apply, Admits
  <2>2. slot' \in Slot
    BY <2>1, <1>2, MaxRevisionAssumption DEF Slot, Event, Admits, OperationState
  <2>3. \A m \in mail' : m.kind = "Admit"
    BY <1>2 DEF IInv, MailInv, Admits, IsEmpty
  <2>4. TypeOK'
    BY <2>1, <2>2 DEF IInv, TypeOK
  <2>5. WorldInv' /\ SettledIsTrue' /\ RevisionWithinRank'
    BY <2>1, <1>2 DEF IInv, TypeOK, WorldInv, SettledIsTrue, RevisionWithinRank, Rank, Admits,
                      IsEmpty, Settled
  <2>6. MailInv'
    BY <2>3 DEF MailInv, Sound
  <2> QED BY <2>4, <2>5, <2>6 DEF IInv
<1>3. CASE Moves(slot, e, d)
  <2>0. /\ slot' = d.slot
        /\ handler' = IF d.intent = "Dispatch" THEN "running" ELSE handler
        /\ dispatches' = IF d.intent = "Dispatch" THEN dispatches + 1 ELSE dispatches
        /\ effect' = effect
    BY DEF Apply
  <2>1. /\ slot' \in Slot /\ ~slot'.compacted
        /\ slot.state \in Open \cup {"Unknown"}
        /\ slot'.state \in OperationState \ {"Reserved"}
        /\ slot'.revision = slot.revision + 1
        /\ Rank(slot') >= Rank(slot) + 1
        /\ d.intent = "Dispatch" <=> slot.state = "Reserved" /\ e.kind = "ClaimDispatch"
    BY <1>0, <1>3, <2>0, TargetRises
  <2>2. TypeOK'
    BY <2>0, <2>1 DEF IInv, TypeOK
  <2>3. WorldInv'
    BY <2>0, <2>1 DEF IInv, TypeOK, WorldInv, OperationState, Open
  <2>4. RevisionWithinRank'
    <3>1. Rank(slot) \in Nat /\ Rank(slot)' \in Nat /\ Rank(slot)' = Rank(slot')
      BY DEF Rank
    <3> QED BY <2>1, <3>1, MaxRevisionAssumption DEF IInv, RevisionWithinRank, TypeOK, Slot
  <2>5. SettledIsTrue'
    <3>1. ~Foreign(e) /\ e.kind # "Admit"
      BY <1>0, <1>3, MatchedNotForeign DEF Moves, Target, IsOccupied
    <3>2. Evidence(e)
      BY <3>1 DEF Sound
    <3>3. slot'.state = Target(slot.state, e.kind) /\ e.expected = slot.revision
          /\ ~Unsupported(slot.state, e)
      BY <2>0, <1>3 DEF Moves
    <3>4. slot'.state = "Applied" => effect'
      BY <3>2, <3>3, <2>0 DEF Evidence, Target
    <3>5. CASE slot'.state = "CancelledBeforeDispatch"
      BY <3>3, <3>5, <2>0, <2>1 DEF Target, SettledIsTrue, NoChild, IInv, WorldInv, TypeOK
    <3>6. CASE slot'.state = "NotApplied"
      <4>1. e.kind \in {"DefinitiveRejection", "NonExecutionEvidence"}
        BY <3>3, <3>6 DEF Target
      <4>2. NoChild
        BY <4>1, <3>2, <3>3, <2>1 DEF Evidence, Unsupported, NoChild, NothingHappened,
             IInv, WorldInv, TypeOK, Open, Event, NonExecutionProof, Target
      <4>3. handler' = handler
        BY <4>1, <2>0, <2>1
      <4> QED BY <4>2, <4>3, <3>6, <2>0 DEF SettledIsTrue, NoChild
    <3> QED BY <3>4, <3>5, <3>6 DEF SettledIsTrue
  <2>6. MailInv'
    <3> SUFFICES ASSUME NEW m \in mail', m.kind # "Admit"
                 PROVE  slot'.state # "None" /\ m.expected <= slot'.revision
                        /\ (Foreign(m)' \/ Evidence(m)')
      BY DEF MailInv, Sound
    <3>1. /\ m \in Event /\ m.expected <= slot.revision /\ (Foreign(m) \/ Evidence(m))
          /\ m.expected \in Nat /\ slot.revision \in Nat
      BY MaxRevisionAssumption DEF IInv, MailInv, TypeOK, Sound, Event, Slot
    <3>2. m.expected < slot'.revision
      BY <3>1, <2>1
    <3>3. CASE Foreign(m)
      <4>1. /\ slot'.identity = slot.identity /\ slot'.attempt = NextAttempt(slot, e)
            /\ AttemptError(slot, e) = "None"
        BY <1>3, <2>0 DEF Moves
      <4>2. slot'.attempt.context = slot.attempt.context /\ slot'.attempt.epoch = slot.attempt.epoch
        BY <4>1 DEF NextAttempt
      <4>3. slot.attempt.generation # NoGeneration =>
              slot'.attempt.generation = slot.attempt.generation
        BY <4>1, <1>0 DEF NextAttempt, AttemptError, Slot, AttemptIdentity
      <4> QED BY <4>1, <4>2, <4>3, <3>1, <3>2, <3>3, <2>1 DEF Foreign, OperationState
    <3>4. CASE Evidence(m)
      <4>1. NothingHappened => NothingHappened'
        BY <2>0, <2>1 DEF NothingHappened, IInv, WorldInv, TypeOK
      <4>2. Evidence(m)'
        BY <4>1, <3>1, <3>2, <3>4, <2>0 DEF Evidence
      <4> QED BY <4>2, <3>1, <3>2, <2>1 DEF OperationState
    <3> QED BY <3>1, <3>3, <3>4
  <2> QED BY <2>2, <2>3, <2>4, <2>5, <2>6 DEF IInv
<1> QED BY <1>0, <1>1, <1>2, <1>3, TransitionCases

-----------------------------------------------------------------------------
(* The steps of the ledger.                                                 *)

\* A never-seen slot with no handler satisfies the inductive invariant.
LEMMA InitIInv == Init => IInv
<1> SUFFICES ASSUME Init PROVE IInv
  OBVIOUS
<1>1. slot \in Slot /\ slot.revision = 0 /\ slot.state = "None" /\ ~slot.compacted
  BY DEF Init
<1>2. Rank(slot) = 0
  BY <1>1 DEF Rank, Settled
<1>3. TypeOK
  BY <1>1 DEF Init, TypeOK
<1>4. WorldInv
  BY <1>1 DEF Init, WorldInv
<1>5. RevisionWithinRank /\ SettledIsTrue
  BY <1>1, <1>2 DEF RevisionWithinRank, SettledIsTrue
<1>6. MailInv
  BY DEF Init, MailInv
<1> QED BY <1>3, <1>4, <1>5, <1>6 DEF IInv

\* A retried or a first reservation is an Admit event of the current revision.
LEMMA ReserveStep == IInv /\ Reserve => IInv'
<1> SUFFICES ASSUME IInv,
                    NEW i \in Identities, NEW a \in AttemptIdentity, NEW c \in Contents,
                    Apply(DecideReservation([identity |-> i, attempt |-> a, content |-> c])),
                    mail' = mail
             PROVE  IInv'
  BY DEF Reserve
<1> DEFINE input == [identity |-> i, attempt |-> a, content |-> c]
           first == [expected |-> slot.revision, identity |-> i, attempt |-> a,
                     content |-> c, kind |-> "Admit", proof |-> "QueuedCancellation"]
           retry == [expected |-> slot.revision, identity |-> slot.identity,
                     attempt |-> slot.attempt, content |-> c, kind |-> "Admit",
                     proof |-> "QueuedCancellation"]
<1>1. slot \in Slot
  BY DEF IInv, TypeOK
<1>2. first \in Event /\ retry \in Event /\ Sound(first) /\ Sound(retry)
  BY <1>1 DEF Event, Slot, EventKind, NonExecutionProof, Sound
<1>3. CASE IsEmpty(slot)
  <2>1. Apply(Transition(slot, first))
    BY <1>3 DEF DecideReservation
  <2> QED BY <2>1, <1>2, ApplyStep
<1>4. CASE ~IsEmpty(slot) /\ slot.compacted
  <2>1. DecideReservation(input) = Reject(slot, "OperationMissing")
    BY <1>4 DEF DecideReservation
  <2>2. UNCHANGED <<slot, handler, effect, dispatches>>
    BY <2>1 DEF Apply, Reject, Unchanged
  <2> QED BY <2>2 DEF IInv, TypeOK, WorldInv, RevisionWithinRank, SettledIsTrue, MailInv,
            Sound, Evidence, Foreign, NoChild, NothingHappened, Rank
<1>5. CASE ~IsEmpty(slot) /\ ~slot.compacted
  <2>1. Apply(Transition(slot, retry))
    BY <1>5 DEF DecideReservation
  <2> QED BY <2>1, <1>2, ApplyStep
<1> QED BY <1>3, <1>4, <1>5

\* A settlement by decide_settlement is a sound event of the current revision.
LEMMA SettleStep == IInv /\ Settle => IInv'
<1> SUFFICES ASSUME IInv, NEW input \in SettlementInput, HonestInput(input),
                    Apply(DecideSettlement(input)), mail' = mail
             PROVE  IInv'
  BY DEF Settle
<1> DEFINE outcome == IF input.explicit = "None" THEN ClassifyResult(input.evidence)
                                                 ELSE input.explicit
           kind == SettlementKind(outcome, input.explicit = "None", input.receipt,
                                  input.reviewChildAbsent)
           proof == CASE input.reviewChildAbsent -> "ReviewChildAbsent"
                      [] ~input.reviewChildAbsent /\ input.evidence.readOnly -> "ReadOnlyRejection"
                      [] OTHER -> "ExactPreWriteRejection"
           e == [expected |-> slot.revision, identity |-> slot.identity,
                 attempt |-> slot.attempt, content |-> slot.content,
                 kind |-> kind, proof |-> proof]
<1>1. slot \in Slot
  BY DEF IInv, TypeOK
<1>2. CASE ~IsOccupied(slot)
  <2>1. DecideSettlement(input) = Reject(slot, "OperationMissing")
    BY <1>2 DEF DecideSettlement
  <2>2. UNCHANGED <<slot, handler, effect, dispatches>>
    BY <2>1 DEF Apply, Reject, Unchanged
  <2> QED BY <2>2 DEF IInv, TypeOK, WorldInv, RevisionWithinRank, SettledIsTrue, MailInv,
            Sound, Evidence, Foreign, NoChild, NothingHappened, Rank
<1>3. CASE IsOccupied(slot)
  <2>1. Apply(Transition(slot, e))
    BY <1>3 DEF DecideSettlement
  <2>2. kind \in {"AppliedResponse", "CommittedOperationReceipt", "DefinitiveRejection", "Failure"}
    BY DEF SettlementKind
  <2>3. proof \in NonExecutionProof \ {"QueuedCancellation"}
        /\ (proof = "ReviewChildAbsent" => input.reviewChildAbsent)
        /\ (input.reviewChildAbsent => proof = "ReviewChildAbsent")
    BY DEF NonExecutionProof
  <2>4. e \in Event
    BY <1>1, <2>2, <2>3 DEF Event, Slot, EventKind
  <2>5. kind = "AppliedResponse" => effect
    <3>1. kind = "AppliedResponse" => outcome = "Applied"
      BY DEF SettlementKind
    <3>2. outcome = "Applied" => effect
      BY DEF ClassifyResult, HonestInput, SettlementInput, ResultEvidence
    <3> QED BY <3>1, <3>2
  <2>6. kind = "DefinitiveRejection" /\ ~input.reviewChildAbsent => NothingHappened
    <3>1. kind = "DefinitiveRejection" /\ ~input.reviewChildAbsent =>
            outcome = "NotApplied" /\ ~(input.explicit = "None" /\ input.receipt)
      BY DEF SettlementKind
    <3>2. outcome = "NotApplied" /\ ~(input.explicit = "None" /\ input.receipt)
            => NothingHappened
      BY DEF ClassifyResult, HonestInput, SettlementInput, ResultEvidence
    <3> QED BY <3>1, <3>2
  <2>7. input.reviewChildAbsent => NoChild
    BY DEF HonestInput
  <2> HIDE DEF kind, proof
  <2>8. Evidence(e)
    BY <2>2, <2>3, <2>5, <2>6, <2>7 DEF Evidence
  <2>9. Sound(e)
    BY <2>8 DEF Sound
  <2> HIDE DEF e
  <2> QED BY <2>1, <2>4, <2>9, ApplyStep
<1> QED BY <1>2, <1>3

\* A delivered event is one of the mail, hence sound.
LEMMA DeliverStep == IInv /\ Deliver => IInv'
<1> SUFFICES ASSUME IInv, NEW e \in mail, Apply(Transition(slot, e)),
                    mail' \in {mail, mail \ {e}}
             PROVE  IInv'
  BY DEF Deliver
<1>1. e \in Event /\ Sound(e)
  BY DEF IInv, TypeOK, MailInv
<1>2. mail' \subseteq mail
  OBVIOUS
<1> QED BY <1>1, <1>2, ApplyStep

\* A new event is true of the state that emits it.
LEMMA EmitStep == IInv /\ (EmitAdmit \/ EmitReport) => IInv'
<1> SUFFICES ASSUME IInv, EmitAdmit \/ EmitReport
             PROVE  IInv'
  OBVIOUS
<1>1. slot \in Slot
  BY DEF IInv, TypeOK
<1>2. PICK e \in Event : /\ mail' = mail \cup {e}
                         /\ e.kind # "Admit" => slot.state # "None" /\ e.expected = slot.revision
                         /\ Sound(e)
  <2>1. CASE EmitAdmit
    <3>1. PICK i \in Identities, a \in AttemptIdentity, c \in Contents :
            EmitEvent([expected |-> slot.revision, identity |-> i, attempt |-> a,
                       content |-> c, kind |-> "Admit", proof |-> "QueuedCancellation"])
      BY <2>1 DEF EmitAdmit
    <3> DEFINE e == [expected |-> slot.revision, identity |-> i, attempt |-> a,
                     content |-> c, kind |-> "Admit", proof |-> "QueuedCancellation"]
    <3>2. e \in Event /\ Sound(e) /\ e.kind = "Admit"
      BY <1>1 DEF Event, Slot, EventKind, NonExecutionProof, Sound
    <3>3. mail' = mail \cup {e}
      BY <3>1 DEF EmitEvent
    <3> HIDE DEF e
    <3> QED BY <3>2, <3>3
  <2>2. CASE EmitReport
    <3>1. PICK kind \in EventKind \ {"Admit"} :
            \E p \in Proofs(kind), i \in Identities, a \in AttemptIdentity :
              LET e == [expected |-> slot.revision, identity |-> i, attempt |-> a,
                        content |-> slot.content, kind |-> kind, proof |-> p]
              IN (Foreign(e) \/ (HonestEvent(e) /\ Owned(e))) /\ EmitEvent(e)
      BY <2>2 DEF EmitReport
    <3>2. PICK p \in Proofs(kind), i \in Identities, a \in AttemptIdentity :
              LET e == [expected |-> slot.revision, identity |-> i, attempt |-> a,
                        content |-> slot.content, kind |-> kind, proof |-> p]
              IN (Foreign(e) \/ (HonestEvent(e) /\ Owned(e))) /\ EmitEvent(e)
      BY <3>1
    <3> DEFINE e == [expected |-> slot.revision, identity |-> i, attempt |-> a,
                     content |-> slot.content, kind |-> kind, proof |-> p]
    <3>3. (Foreign(e) \/ HonestEvent(e)) /\ EmitEvent(e)
      BY <3>2
    <3>4. e \in Event /\ e.kind # "Admit" /\ e.expected = slot.revision
      BY <1>1 DEF Event, Slot, Proofs, NonExecutionProof
    <3> HIDE DEF e
    <3>5. HonestEvent(e) => Evidence(e)
      BY <3>4 DEF HonestEvent, Evidence, Event, NonExecutionProof
    <3>6. Sound(e)
      BY <3>3, <3>5 DEF Sound
    <3>7. mail' = mail \cup {e} /\ slot.state # "None"
      BY <3>3, <2>2 DEF EmitEvent, EmitReport, IsOccupied
    <3> QED BY <3>4, <3>6, <3>7
  <2> QED BY <2>1, <2>2
<1>3. UNCHANGED <<slot, handler, effect, dispatches>>
  BY DEF EmitAdmit, EmitReport, EmitEvent
<1>4. TypeOK'
  BY <1>2, <1>3 DEF IInv, TypeOK
<1>5. WorldInv' /\ RevisionWithinRank' /\ SettledIsTrue'
  BY <1>3 DEF IInv, WorldInv, RevisionWithinRank, SettledIsTrue, Rank, NoChild
<1>6. \A m : Sound(m)' <=> Sound(m)
  BY <1>3 DEF Sound, Foreign, Evidence, NothingHappened, NoChild
<1>7. slot.revision \in Nat
  BY <1>1, MaxRevisionAssumption DEF Slot
<1>8. MailInv'
  BY <1>2, <1>3, <1>6, <1>7 DEF IInv, MailInv
<1> QED BY <1>4, <1>5, <1>8 DEF IInv

\* The world moves only while a handler runs, and it ends for good.
LEMMA WorldStep == IInv /\ (Lose \/ Effect \/ End) => IInv'
<1> SUFFICES ASSUME IInv, Lose \/ Effect \/ End
             PROVE  IInv'
  OBVIOUS
<1>1. CASE Lose
  <2>1. mail' \subseteq mail /\ UNCHANGED <<slot, handler, effect, dispatches>>
    BY <1>1 DEF Lose
  <2> QED BY <2>1 DEF IInv, TypeOK, WorldInv, RevisionWithinRank, SettledIsTrue, MailInv,
            Sound, Evidence, Foreign, NoChild, NothingHappened, Rank
<1>2. CASE Effect \/ End
  <2>1. /\ UNCHANGED <<slot, mail, dispatches>>
        /\ handler = "running" /\ handler' \in {"running", "ended"}
        /\ effect => effect'
        /\ effect' \in BOOLEAN
    BY <1>2 DEF Effect, End, IInv, TypeOK
  <2>2. ~NothingHappened /\ ~NoChild
    BY <2>1 DEF NothingHappened, NoChild
  <2>3. TypeOK' /\ WorldInv' /\ RevisionWithinRank'
    BY <2>1 DEF IInv, TypeOK, WorldInv, RevisionWithinRank, Rank
  <2>4. SettledIsTrue'
    BY <2>1, <2>2 DEF IInv, SettledIsTrue
  <2>5. \A m \in mail : Sound(m) => Sound(m)'
    BY <2>1, <2>2 DEF Sound, Foreign, Evidence
  <2>6. MailInv'
    BY <2>1, <2>5 DEF IInv, MailInv
  <2> QED BY <2>3, <2>4, <2>6 DEF IInv
<1> QED BY <1>1, <1>2

\* A tombstone keeps the outcome, and no event is about it any more.
LEMMA CompactStep == IInv /\ Compact => IInv'
<1> SUFFICES ASSUME IInv, Compact
             PROVE  IInv'
  OBVIOUS
<1>1. slot \in Slot /\ slot.state \in Settled /\ ~slot.compacted
      /\ slot.revision \in Nat /\ slot.revision < MaxRevision
  BY MaxRevisionAssumption DEF IInv, TypeOK, Compact, IsOccupied, Slot
<1>2. /\ slot' \in Slot /\ slot'.compacted
      /\ slot'.state = IF slot.state = "Applied" THEN "Applied" ELSE "NotApplied"
      /\ slot'.revision = slot.revision + 1
      /\ slot'.identity = slot.identity /\ slot'.attempt = slot.attempt
  BY <1>1, MaxRevisionAssumption DEF Compact, Tombstone, Slot, OperationState
<1>3. UNCHANGED <<mail, handler, effect, dispatches>>
  BY DEF Compact
<1>4. TypeOK'
  BY <1>2, <1>3 DEF IInv, TypeOK, SettledOutcome
<1>5. WorldInv'
  BY <1>1, <1>2, <1>3 DEF IInv, WorldInv
<1>6. RevisionWithinRank'
  <2>1. Rank(slot) = 5 /\ Rank(slot') = 6
    BY <1>1, <1>2 DEF Rank, Settled
  <2> QED BY <2>1, <1>1, <1>2 DEF IInv, RevisionWithinRank
<1>7. SettledIsTrue'
  BY <1>1, <1>2, <1>3 DEF IInv, SettledIsTrue, Settled, NoChild
<1>8. MailInv'
  <2> SUFFICES ASSUME NEW m \in mail', m.kind # "Admit"
               PROVE  slot'.state # "None" /\ m.expected <= slot'.revision
                      /\ (Foreign(m)' \/ Evidence(m)')
    BY DEF MailInv, Sound
  <2>1. m.expected <= slot.revision /\ (Foreign(m) \/ Evidence(m)) /\ m.expected \in Nat
    BY <1>3, MaxRevisionAssumption DEF IInv, MailInv, Sound, TypeOK, Event
  <2>2. m.expected < slot'.revision
    BY <2>1, <1>1, <1>2
  <2>3. Foreign(m) => Foreign(m)'
    BY <1>2 DEF Foreign
  <2>4. Evidence(m) => Evidence(m)'
    BY <1>1, <1>2, <1>3, <2>1, <2>2 DEF Evidence, NothingHappened
  <2>5. m.expected <= slot'.revision /\ slot'.state # "None"
    BY <1>1, <1>2, <2>1
  <2> QED BY <2>1, <2>3, <2>4, <2>5
<1> QED BY <1>4, <1>5, <1>6, <1>7, <1>8 DEF IInv

\* Every step of the ledger and of the world preserves the inductive invariant.
LEMMA NextIInv == IInv /\ [Next]_vars => IInv'
<1> SUFFICES ASSUME IInv, [Next]_vars PROVE IInv'
  OBVIOUS
<1>1. CASE UNCHANGED vars
  BY <1>1 DEF vars, IInv, TypeOK, WorldInv, RevisionWithinRank, SettledIsTrue, MailInv,
            Sound, Evidence, Foreign, NoChild, NothingHappened, Rank
<1> QED BY <1>1, ReserveStep, SettleStep, EmitStep, DeliverStep, WorldStep, CompactStep DEF Next

-----------------------------------------------------------------------------
(* The theorems.                                                            *)

\* The inductive invariant holds throughout.
THEOREM LedgerInvariant == Spec => []IInv
  BY InitIInv, NextIInv, PTL DEF Spec

\* The slot is always a record the crate can build, and a tombstone holds a
\* settled outcome only.
THEOREM TypeCorrect == Spec => []TypeOK
<1>1. IInv => TypeOK
  BY DEF IInv
<1> QED BY <1>1, LedgerInvariant, PTL

\* No sequence of admissions, claims, retries, replays, restarts and compactions
\* hands one operation to the executor twice.
THEOREM DispatchedOnce == Spec => []AtMostOneDispatch
<1>1. IInv => AtMostOneDispatch
  BY DEF IInv, WorldInv, AtMostOneDispatch
<1> QED BY <1>1, LedgerInvariant, PTL

\* A settled receipt is true of the world and stays so, however late, reordered
\* or duplicated the evidence that settled it.
THEOREM ReceiptsTrue == Spec => []SettledIsTrue
<1>1. IInv => SettledIsTrue
  BY DEF IInv
<1> QED BY <1>1, LedgerInvariant, PTL

\* A slot is written at most once per rank, so its revision never passes six.
THEOREM RevisionBounded == Spec => []RevisionWithinRank
<1>1. IInv => RevisionWithinRank
  BY DEF IInv
<1> QED BY <1>1, LedgerInvariant, PTL

\* A write of the store changes neither a settled slot nor the attribution of a
\* dispatched one.
LEMMA ApplyKeepsSettled ==
  ASSUME IInv, NEW e \in Event, Apply(Transition(slot, e))
  PROVE  /\ slot.state \in Settled => slot' = slot
         /\ dispatches > 0 => /\ slot'.attempt = slot.attempt
                              /\ slot'.identity = slot.identity
                              /\ slot'.content = slot.content
<1> DEFINE d == Transition(slot, e)
<1>0. slot \in Slot /\ slot' = d.slot
  BY DEF IInv, TypeOK, Apply
<1>1. CASE Keeps(slot, d)
  BY <1>0, <1>1 DEF Keeps
<1>2. CASE Admits(slot, e, d)
  BY <1>2 DEF Admits, IsEmpty, IInv, WorldInv, Settled
<1>3. CASE Moves(slot, e, d)
  <2>1. slot.state \in Open \cup {"Unknown"}
    BY <1>0, <1>3, TargetRises
  <2>2. slot.state \notin Settled
    BY <2>1 DEF Open, Settled
  <2>3. dispatches > 0 => e.kind # "ClaimDispatch"
    <3>1. dispatches > 0 => slot.state # "Reserved"
      BY DEF IInv, WorldInv
    <3> QED BY <3>1, <1>3, <2>1 DEF Moves, Target, Open
  <2>4. dispatches > 0 => NextAttempt(slot, e) = slot.attempt
    BY <2>3 DEF NextAttempt
  <2> QED BY <1>0, <1>3, <2>2, <2>4 DEF Moves
<1> QED BY <1>0, <1>1, <1>2, <1>3, TransitionCases

\* A call of the store boundary writes what transition decides of some event, or
\* leaves the slot alone.
LEMMA StoreStep ==
  ASSUME IInv, Reserve \/ Settle \/ Deliver
  PROVE  /\ slot' = slot \/ \E e \in Event : Apply(Transition(slot, e))
         /\ effect' = effect
<1>0. slot \in Slot
  BY DEF IInv, TypeOK
<1>1. Apply(Reject(slot, "OperationMissing")) => slot' = slot
  BY DEF Apply, Reject, Unchanged
<1>2. CASE Reserve
  <2>1. PICK i \in Identities, a \in AttemptIdentity, c \in Contents :
          Apply(DecideReservation([identity |-> i, attempt |-> a, content |-> c]))
    BY <1>2 DEF Reserve
  <2> DEFINE first == [expected |-> slot.revision, identity |-> i, attempt |-> a,
                       content |-> c, kind |-> "Admit", proof |-> "QueuedCancellation"]
             retry == [expected |-> slot.revision, identity |-> slot.identity,
                       attempt |-> slot.attempt, content |-> c, kind |-> "Admit",
                       proof |-> "QueuedCancellation"]
  <2>2. first \in Event /\ retry \in Event
    BY <1>0 DEF Event, Slot, EventKind, NonExecutionProof
  <2>3. \/ Apply(Transition(slot, first)) \/ Apply(Transition(slot, retry))
        \/ Apply(Reject(slot, "OperationMissing"))
    BY <2>1 DEF DecideReservation
  <2>4. effect' = effect
    BY <2>1 DEF Apply
  <2> HIDE DEF first, retry
  <2> QED BY <1>1, <2>2, <2>3, <2>4
<1>3. CASE Settle
  <2>1. PICK input \in SettlementInput : Apply(DecideSettlement(input))
    BY <1>3 DEF Settle
  <2> DEFINE outcome == IF input.explicit = "None" THEN ClassifyResult(input.evidence)
                                                   ELSE input.explicit
             kind == SettlementKind(outcome, input.explicit = "None", input.receipt,
                                    input.reviewChildAbsent)
             proof == CASE input.reviewChildAbsent -> "ReviewChildAbsent"
                        [] ~input.reviewChildAbsent /\ input.evidence.readOnly
                             -> "ReadOnlyRejection"
                        [] OTHER -> "ExactPreWriteRejection"
             e == [expected |-> slot.revision, identity |-> slot.identity,
                   attempt |-> slot.attempt, content |-> slot.content,
                   kind |-> kind, proof |-> proof]
  <2>2. kind \in EventKind
    BY DEF SettlementKind, EventKind
  <2>3. proof \in NonExecutionProof
    BY DEF NonExecutionProof
  <2>4. e \in Event
    BY <1>0, <2>2, <2>3 DEF Event, Slot
  <2>5. \/ Apply(Transition(slot, e)) \/ Apply(Reject(slot, "OperationMissing"))
    BY <2>1 DEF DecideSettlement
  <2>6. effect' = effect
    BY <2>1 DEF Apply
  <2> HIDE DEF e
  <2> QED BY <1>1, <2>4, <2>5, <2>6
<1>4. CASE Deliver
  <2>1. PICK e \in mail : Apply(Transition(slot, e))
    BY <1>4 DEF Deliver
  <2>2. e \in Event
    BY DEF IInv, TypeOK
  <2> QED BY <2>1, <2>2 DEF Apply
<1> QED BY <1>2, <1>3, <1>4

\* The same of every step of the ledger; only compaction may touch a settled
\* slot, and it keeps the outcome.
LEMMA StepKeepsSettled ==
  ASSUME IInv, [Next]_vars
  PROVE  /\ slot.state \in Settled => Outcome(slot') = Outcome(slot)
         /\ dispatches > 0 => /\ slot'.attempt = slot.attempt
                              /\ slot'.identity = slot.identity
                              /\ slot'.content = slot.content
<1>1. CASE slot' = slot
  BY <1>1
<1>2. CASE Reserve \/ Settle \/ Deliver
  BY <1>1, <1>2, StoreStep, ApplyKeepsSettled
<1>3. CASE Compact
  <2>1. slot'.state = (IF slot.state = "Applied" THEN "Applied" ELSE "NotApplied")
        /\ slot'.attempt = slot.attempt /\ slot'.identity = slot.identity
        /\ slot'.content = slot.content /\ slot.state \in Settled
    BY <1>3 DEF Compact, Tombstone
  <2> QED BY <2>1 DEF Outcome, Settled
<1>4. CASE EmitAdmit \/ EmitReport \/ Lose \/ Effect \/ End \/ UNCHANGED vars
  BY <1>1, <1>4 DEF EmitAdmit, EmitReport, EmitEvent, Lose, Effect, End, vars
<1> QED BY <1>2, <1>3, <1>4 DEF Next

\* A settled outcome is final.
THEOREM OutcomesFinal == Spec => OutcomeFinal
<1>1. IInv /\ [Next]_vars => [slot.state \in Settled => Outcome(slot') = Outcome(slot)]_vars
  BY StepKeepsSettled
<1> QED BY <1>1, LedgerInvariant, PTL DEF Spec, OutcomeFinal

\* A dispatched operation stays attributed to the attempt that claimed it.
THEOREM AttributionFixed == Spec => DispatchedAttemptFixed
<1>1. IInv /\ [Next]_vars =>
        [dispatches > 0 => /\ slot'.attempt = slot.attempt
                           /\ slot'.identity = slot.identity
                           /\ slot'.content = slot.content]_vars
  BY StepKeepsSettled
<1> QED BY <1>1, LedgerInvariant, PTL DEF Spec, DispatchedAttemptFixed

-----------------------------------------------------------------------------
(* The ledger implements Receipt.                                           *)

Took == IF effect THEN 1 ELSE 0

\* The edges of the abstract receipt that leave the operation itself alone.
LEMMA ReceiptEdges ==
  ASSUME IInv, IInv', effect' = effect,
         \/ slot'.state = slot.state
         \/ slot.state = "None" /\ slot'.state = "Reserved"
         \/ slot.state = "Reserved" /\ slot'.state = "Dispatched"
         \/ slot.state = "Dispatched" /\ slot'.state = "CancelRequested"
         \/ slot.state \in Open \cup {"Unknown"} /\ slot'.state \in Settled \cup {"Unknown"}
         \/ slot.state = "CancelledBeforeDispatch" /\ slot'.state = "NotApplied"
  PROVE  [Promised!Next]_<<ReceiptOf(slot.state), Took>>
<1>1. /\ slot'.state = "Applied" => effect
      /\ slot'.state \in {"CancelledBeforeDispatch", "NotApplied"} => ~effect
  BY DEF IInv, SettledIsTrue, NoChild
<1>2. Took' = Took /\ (effect => Took = 1) /\ (~effect => Took = 0)
  BY DEF Took
<1>3. CASE slot'.state = slot.state
  BY <1>2, <1>3
<1>4. CASE slot.state = "None" /\ slot'.state = "Reserved"
  BY <1>2, <1>4 DEF Promised!Next, Promised!Reserve, ReceiptOf, Took
<1>5. CASE slot.state = "Reserved" /\ slot'.state = "Dispatched"
  BY <1>2, <1>5 DEF Promised!Next, Promised!Claim, ReceiptOf, Took
<1>6. CASE slot.state = "Dispatched" /\ slot'.state = "CancelRequested"
  BY <1>2, <1>6 DEF ReceiptOf
<1>7. CASE slot.state \in Open \cup {"Unknown"} /\ slot'.state \in Settled \cup {"Unknown"}
  <2>1. ReceiptOf(slot.state) \in Promised!Open
    BY <1>7 DEF ReceiptOf, Open, Promised!Open
  <2>2. CASE slot'.state = "Unknown"
    BY <1>2, <2>1, <2>2 DEF Promised!Next, Promised!LoseTrack, ReceiptOf, Took
  <2>3. CASE slot'.state = "Applied"
    BY <1>1, <1>2, <2>1, <2>3 DEF Promised!Next, Promised!Confirm, ReceiptOf, Took
  <2>4. CASE slot'.state \in {"CancelledBeforeDispatch", "NotApplied"}
    BY <1>1, <1>2, <2>1, <2>4 DEF Promised!Next, Promised!Refuse, ReceiptOf, Took
  <2> QED BY <1>7, <2>2, <2>3, <2>4 DEF Settled
<1>8. CASE slot.state = "CancelledBeforeDispatch" /\ slot'.state = "NotApplied"
  BY <1>2, <1>8 DEF ReceiptOf
<1> QED BY <1>3, <1>4, <1>5, <1>6, <1>7, <1>8

\* A written decision takes an edge of the abstract receipt or none.
LEMMA ApplyImplements ==
  ASSUME IInv, IInv', NEW e \in Event, Apply(Transition(slot, e))
  PROVE  [Promised!Next]_<<ReceiptOf(slot.state), Took>>
<1> DEFINE d == Transition(slot, e)
<1>0. slot \in Slot /\ slot' = d.slot /\ effect' = effect
  BY DEF IInv, TypeOK, Apply
<1>1. CASE Keeps(slot, d)
  BY <1>0, <1>1, ReceiptEdges DEF Keeps
<1>2. CASE Admits(slot, e, d)
  <2>1. slot.state = "None" /\ slot'.state = "Reserved"
    BY <1>0, <1>2 DEF Admits, IsEmpty
  <2> QED BY <1>0, <2>1, ReceiptEdges
<1>3. CASE Moves(slot, e, d)
  <2>1. slot'.state = Target(slot.state, e.kind) /\ slot'.state # "None"
    BY <1>0, <1>3 DEF Moves
  <2>2. \/ slot.state = "Reserved" /\ slot'.state = "Dispatched"
        \/ slot.state = "Dispatched" /\ slot'.state = "CancelRequested"
        \/ slot.state \in Open \cup {"Unknown"} /\ slot'.state \in Settled \cup {"Unknown"}
    BY <2>1 DEF Target, Open, Settled
  <2> QED BY <1>0, <2>2, ReceiptEdges
<1> QED BY <1>0, <1>1, <1>2, <1>3, TransitionCases

\* The handler acts once, after the claim, and on an open receipt.
LEMMA EffectImplements ==
  ASSUME IInv, Effect
  PROVE  Promised!Act
<1>1. /\ handler = "running" /\ effect = FALSE /\ effect' = TRUE /\ slot' = slot
      /\ slot.state \in OperationState \cup {"None"}
  BY DEF Effect, IInv, TypeOK, Slot
<1>2. slot.state \notin {"None", "Reserved"}
  BY <1>1 DEF IInv, WorldInv
<1>3. slot.state \notin Settled
  BY <1>1 DEF IInv, SettledIsTrue, NoChild, Settled
<1>4. ReceiptOf(slot.state) \in {"running", "unknown"}
  BY <1>1, <1>2, <1>3 DEF ReceiptOf, OperationState, Settled
<1> QED BY <1>1, <1>4 DEF Promised!Act

\* Every step of the ledger is a step of the abstract receipt or a stutter.
LEMMA StepImplements ==
  ASSUME IInv, IInv', [Next]_vars
  PROVE  [Promised!Next]_<<ReceiptOf(slot.state), Took>>
<1>1. CASE UNCHANGED <<slot, effect>>
  BY <1>1, ReceiptEdges
<1>2. CASE Reserve \/ Settle \/ Deliver
  BY <1>1, <1>2, StoreStep, ApplyImplements
<1>3. CASE Compact
  <2>1. /\ slot.state \in Settled /\ effect' = effect
        /\ slot'.state = (IF slot.state = "Applied" THEN "Applied" ELSE "NotApplied")
    BY <1>3 DEF Compact, Tombstone
  <2> QED BY <2>1, ReceiptEdges DEF Settled
<1>4. CASE Effect
  BY <1>4, EffectImplements DEF Promised!Next
<1>5. CASE EmitAdmit \/ EmitReport \/ Lose \/ End \/ UNCHANGED vars
  BY <1>1, <1>5 DEF EmitAdmit, EmitReport, EmitEvent, Lose, End, vars
<1> QED BY <1>2, <1>3, <1>4, <1>5 DEF Next

\* The ledger implements the abstract receipt: the slot of studio-operations,
\* with the handler it stands for, promises what Receipt promises.
THEOREM LedgerImplementsReceipt == Spec => ImplementsReceipt
<1>1. Init => Promised!Init
  BY DEF Init, Promised!Init, ReceiptOf
<1>2. IInv /\ IInv' /\ [Next]_vars => [Promised!Next]_<<ReceiptOf(slot.state), Took>>
  BY StepImplements
<1> QED BY <1>1, <1>2, LedgerInvariant, PTL DEF Spec, ImplementsReceipt, Promised!Spec, Took
=============================================================================
