----------------------------- MODULE Operation -----------------------------
(***************************************************************************)
(* The pure decision function of the studio-operations crate: transition,  *)
(* and the reservation and settlement decisions built on it.  Everything   *)
(* here is a constant operator; OperationLedger runs it against a store    *)
(* and a world.                                                            *)
(*                                                                         *)
(* A slot is one uniform record.  state is "None" for the never-seen slot  *)
(* (State::empty); compacted marks the tombstone that is left of a settled *)
(* operation (State::compacted), whose state is its SettledOutcome.        *)
(***************************************************************************)
EXTENDS Integers

CONSTANTS
  Identities,     \* OperationIdentity values: the scope a request id is used in
  Contents,       \* ContentFingerprint values
  Contexts,       \* (agent, account, thread) triples of an AttemptIdentity
  Epochs,         \* AccountThreadEpoch values
  Generations,    \* ProcessGeneration values
  NoGeneration,   \* AttemptIdentity.generation = None
  MaxRevision     \* the largest StateRevision: u64::MAX in the code

ASSUME NoGenerationAssumption == NoGeneration \notin Generations
ASSUME MaxRevisionAssumption == MaxRevision \in Nat

-----------------------------------------------------------------------------
(* Types.                                                                   *)

OperationState == {"Reserved", "Dispatched", "CancelRequested",
                   "CancelledBeforeDispatch", "NotApplied", "Applied", "Unknown"}

Settled == {"CancelledBeforeDispatch", "NotApplied", "Applied"}

\* Awaiting an outcome: outcome() is None.
Open == {"Reserved", "Dispatched", "CancelRequested"}

NonExecutionProof == {"QueuedCancellation", "ReadOnlyRejection",
                      "ExactPreWriteRejection", "ReviewChildAbsent"}

\* An event kind; a kind that carries a NonExecutionProof has it in proof.
\* AppliedProof and FailureKind never change a decision and are left out.
EventKind == {"Admit", "ClaimDispatch", "Cancel", "ServerRestarted",
              "CommittedOperationReceipt", "AppliedResponse",
              "DefinitiveRejection", "Failure", "AppliedEvidence",
              "NonExecutionEvidence", "ReceiptMissing"}

AttemptIdentity == [context: Contexts, epoch: Epochs,
                    generation: Generations \cup {NoGeneration}]

Event == [expected: 0..MaxRevision, identity: Identities, attempt: AttemptIdentity,
          kind: EventKind, content: Contents, proof: NonExecutionProof]

\* SettledOutcome: what a tombstone may hold.
SettledOutcome == {"NotApplied", "Applied"}

Slot == [revision: 0..MaxRevision, state: OperationState \cup {"None"},
         compacted: BOOLEAN, identity: Identities, content: Contents,
         attempt: AttemptIdentity]

\* A slot nothing was ever admitted to.  The fields that the code does not
\* have in an empty slot keep an arbitrary value that no decision reads.
IsEmpty(slot) == slot.state = "None"

IsOccupied(slot) == slot.state # "None" /\ ~slot.compacted

Outcome(slot) ==
  CASE slot.state \in {"CancelledBeforeDispatch", "NotApplied"} -> "NotApplied"
    [] slot.state = "Applied" -> "Applied"
    [] slot.state = "Unknown" -> "Unknown"
    [] OTHER -> "None"

\* What a lifecycle state tells the reader of its receipt.
ReceiptOf(state) ==
  CASE state = "None" -> "nothing"
    [] state = "Reserved" -> "reserved"
    [] state \in {"Dispatched", "CancelRequested"} -> "running"
    [] state = "Unknown" -> "unknown"
    [] state = "Applied" -> "applied"
    [] OTHER -> "not_applied"

-----------------------------------------------------------------------------
(* A decision: its kind, the error of a rejection, the next slot and the    *)
(* one effect intent a transition may carry.                                *)

Unchanged(slot, kind, error) ==
  [kind |-> kind, error |-> error, slot |-> slot, intent |-> "None"]

Reject(slot, error) == Unchanged(slot, "Rejected", error)

\* Mutant of NoEffect: an absorbed replay still writes the slot.
NoEffectTouches(slot) ==
  Unchanged([slot EXCEPT !.revision = IF @ < MaxRevision THEN @ + 1 ELSE @], "NoEffect", "None")

NoEffect(slot) == Unchanged(slot, "NoEffect", "None")

\* decision(..., changed = true) with an occupied next record: the revision is
\* a checked add, and a slot at the largest revision stays as it was.
Transitioned(slot, state, identity, content, attempt, intent) ==
  IF slot.revision = MaxRevision
    THEN Reject(slot, "RevisionExhausted")
    ELSE [kind |-> "Transitioned", error |-> "None", intent |-> intent,
          slot |-> [revision |-> slot.revision + 1, state |-> state, compacted |-> FALSE,
                    identity |-> identity, content |-> content, attempt |-> attempt]]

AttemptError(slot, event) ==
  LET saved == slot.attempt.generation
      given == event.attempt.generation
  IN CASE slot.attempt.context # event.attempt.context -> "StaleAttemptContext"
       [] slot.attempt.context = event.attempt.context
          /\ slot.attempt.epoch # event.attempt.epoch -> "StaleEpoch"
       [] slot.attempt.context = event.attempt.context
          /\ slot.attempt.epoch = event.attempt.epoch
          /\ given # NoGeneration /\ saved # NoGeneration
          /\ given # saved -> "StaleGeneration"
       [] slot.attempt.context = event.attempt.context
          /\ slot.attempt.epoch = event.attempt.epoch
          /\ given # NoGeneration /\ saved = NoGeneration
          /\ event.kind # "ClaimDispatch" -> "GenerationUnavailable"
       [] OTHER -> "None"

\* The pairs that a replayed or late delivery absorbs without a revision check.
Absorbs(state, kind) ==
  \/ state \in {"Applied", "NotApplied", "CancelledBeforeDispatch"}
     /\ kind \in {"AppliedResponse", "AppliedEvidence", "DefinitiveRejection",
                  "Failure", "CommittedOperationReceipt", "Cancel", "ServerRestarted"}
  \/ state \in {"Applied", "NotApplied"} /\ kind = "NonExecutionEvidence"
  \/ state = "Unknown"
     /\ kind \in {"Failure", "CommittedOperationReceipt", "Cancel", "ServerRestarted"}
  \/ state = "Dispatched" /\ kind = "ClaimDispatch"
  \/ state = "CancelRequested" /\ kind = "Cancel"

\* A proof that the state it meets does not support.
Unsupported(state, event) ==
  \/ /\ event.kind = "DefinitiveRejection"
     /\ \/ state \in Open /\ event.proof = "ReviewChildAbsent"
        \/ state \in Open \ {"Reserved"} /\ event.proof = "QueuedCancellation"
        \/ state = "Unknown" /\ event.proof = "QueuedCancellation"
  \/ /\ event.kind = "NonExecutionEvidence"
     /\ state = "Unknown" /\ event.proof = "QueuedCancellation"

\* The state an accepted event leads to, "None" for an invalid transition.
Target(state, kind) ==
  CASE state = "Reserved" /\ kind = "ClaimDispatch" -> "Dispatched"
    [] state = "Reserved" /\ kind \in {"Cancel", "ServerRestarted"} -> "CancelledBeforeDispatch"
    [] state = "Dispatched" /\ kind = "Cancel" -> "CancelRequested"
    [] state \in Open /\ kind = "CommittedOperationReceipt" -> "Unknown"
    [] state \in Open \cup {"Unknown"}
       /\ kind \in {"AppliedEvidence", "AppliedResponse"} -> "Applied"
    [] state \in Open \cup {"Unknown"} /\ kind = "DefinitiveRejection" -> "NotApplied"
    [] state \in Open /\ kind = "Failure" -> "Unknown"
    [] state \in {"Dispatched", "CancelRequested"} /\ kind = "ServerRestarted" -> "Unknown"
    [] state = "Unknown" /\ kind = "NonExecutionEvidence" -> "NotApplied"
    [] OTHER -> "None"

\* Reconciling evidence resolves what the slot did not expect to hear; an
\* ordinary outcome is persisted.
Intent(state, kind) ==
  CASE kind = "ClaimDispatch" -> "Dispatch"
    [] state = "Dispatched" /\ kind = "Cancel" -> "RequestCancellation"
    [] \/ kind \in {"CommittedOperationReceipt", "AppliedEvidence"}
       \/ state = "Unknown"
       \/ state = "Reserved" /\ kind = "AppliedResponse" -> "ReconcileEvidence"
    [] OTHER -> "PersistOutcome"

-----------------------------------------------------------------------------
(* transition, by the three shapes of a slot.                               *)

AdmitEmpty(slot, event) ==
  IF slot.revision # 0 THEN Reject(slot, "OperationAlreadyOccupied")
  ELSE IF event.expected # slot.revision THEN Reject(slot, "StaleRevision")
  ELSE Transitioned(slot, "Reserved", event.identity, event.content, event.attempt, "Reserve")

TransitionEmpty(slot, event) ==
  CASE event.kind = "Admit" -> AdmitEmpty(slot, event)
    [] event.kind = "ReceiptMissing" -> Unchanged(slot, "ReceiptMissingUnknown", "None")
    [] OTHER -> Reject(slot, "OperationMissing")

\* Mutant of TransitionCompacted: the tombstone does not hold its identity.
TransitionCompactedForgets(slot, event) ==
  IF event.kind = "Admit" /\ event.expected = slot.revision
    THEN Transitioned(slot, "Reserved", event.identity, event.content, event.attempt, "Reserve")
    ELSE Reject(slot, "InvalidTransition")

TransitionCompacted(slot, event) ==
  CASE event.kind = "Admit" /\ event.identity # slot.identity -> Reject(slot, "IdentityMismatch")
    [] event.kind = "Admit" /\ event.identity = slot.identity
       /\ event.content # slot.content -> Reject(slot, "DifferentContent")
    [] event.kind = "Admit" /\ event.identity = slot.identity
       /\ event.content = slot.content -> Unchanged(slot, "ReturnExisting", "None")
    [] event.kind = "ReceiptMissing" -> Reject(slot, "ConflictingEvidence")
    [] OTHER -> Reject(slot, "InvalidTransition")

\* A claim binds the generation it carries; every other event keeps the attempt.
NextAttempt(slot, event) ==
  IF event.kind = "ClaimDispatch" /\ event.attempt.generation # NoGeneration
    THEN [context |-> slot.attempt.context, epoch |-> slot.attempt.epoch,
          generation |-> event.attempt.generation]
    ELSE slot.attempt

\* Mutant of TransitionChecked: the expected revision is not compared.
TransitionUnchecked(slot, event) ==
  IF Unsupported(slot.state, event) THEN Reject(slot, "UnsupportedProof")
  ELSE IF Target(slot.state, event.kind) = "None" THEN Reject(slot, "InvalidTransition")
  ELSE Transitioned(slot, Target(slot.state, event.kind), slot.identity, slot.content,
                    NextAttempt(slot, event), Intent(slot.state, event.kind))

\* The events that compare a revision.
TransitionChecked(slot, event) ==
  IF event.expected # slot.revision THEN Reject(slot, "StaleRevision")
  ELSE IF Unsupported(slot.state, event) THEN Reject(slot, "UnsupportedProof")
  ELSE IF Target(slot.state, event.kind) = "None" THEN Reject(slot, "InvalidTransition")
  ELSE Transitioned(slot, Target(slot.state, event.kind), slot.identity, slot.content,
                    NextAttempt(slot, event), Intent(slot.state, event.kind))

TransitionOccupied(slot, event) ==
  IF slot.identity # event.identity THEN Reject(slot, "IdentityMismatch")
  ELSE IF event.kind = "Admit" THEN
    IF slot.content # event.content THEN Reject(slot, "DifferentContent")
    ELSE Unchanged(slot, "ReturnExisting", "None")
  ELSE IF AttemptError(slot, event) # "None" THEN Reject(slot, AttemptError(slot, event))
  ELSE IF event.kind = "ReceiptMissing" THEN
    IF slot.state \in Settled THEN Reject(slot, "ConflictingEvidence")
    ELSE Unchanged(slot, "ReceiptMissingUnknown", "None")
  ELSE IF Absorbs(slot.state, event.kind) THEN NoEffect(slot)
  ELSE TransitionChecked(slot, event)

Transition(slot, event) ==
  CASE IsEmpty(slot) -> TransitionEmpty(slot, event)
    [] ~IsEmpty(slot) /\ slot.compacted -> TransitionCompacted(slot, event)
    [] OTHER -> TransitionOccupied(slot, event)

-----------------------------------------------------------------------------
(* The evidence of a tool result, and the event a settlement makes of it.   *)

\* What a tool result tells, where it tells it: server is the outcome that
\* orchestration_servers reports in a success; of a failure, readOnly stands for
\* a read-only request or the read tool and exact for a text in the tool's table
\* of exact rejections.
ResultEvidence ==
  [success: {"true"}, server: {"None", "Applied", "NotApplied", "Unknown"},
   readOnly: {FALSE}, exact: {FALSE}]
  \cup [success: {"false"}, server: {"None"}, readOnly: BOOLEAN, exact: BOOLEAN]
  \cup [success: {"none"}, server: {"None"}, readOnly: {FALSE}, exact: {FALSE}]

ClassifyResult(evidence) ==
  CASE evidence.success = "true" /\ evidence.server # "None" -> evidence.server
    [] evidence.success = "true" /\ evidence.server = "None" -> "Applied"
    [] evidence.success = "false" /\ (evidence.readOnly \/ evidence.exact) -> "NotApplied"
    [] OTHER -> "Unknown"

\* The event decide_settlement makes of an inferred or explicit outcome.
SettlementKind(outcome, inferred, receipt, reviewChildAbsent) ==
  CASE outcome = "Applied" -> "AppliedResponse"
    [] outcome = "NotApplied" /\ inferred /\ receipt -> "CommittedOperationReceipt"
    [] outcome = "NotApplied" /\ ~(inferred /\ receipt) -> "DefinitiveRejection"
    [] outcome = "Unknown" /\ reviewChildAbsent -> "DefinitiveRejection"
    [] OTHER -> "Failure"
=============================================================================
