-------------------------- MODULE OperationLedger --------------------------
(***************************************************************************)
(* One durable operation slot driven by everything that may report on it.  *)
(*                                                                         *)
(* slot is what the store holds; each call loads it, decides with the pure *)
(* functions of Operation and writes the decision in one writer            *)
(* transaction.  mail holds events whose expected_revision and evidence    *)
(* were captured at an earlier state: they are delivered late, in any      *)
(* order, twice or never.  handler and effect are the world the receipt is *)
(* about: the dispatched handler, which outlives a server restart, and     *)
(* whether its mutation took place.  dispatches counts Dispatch intents.   *)
(***************************************************************************)
EXTENDS Operation, FiniteSets

CONSTANT MaxMail  \* bound on the events in flight at one time

ASSUME MaxMailAssumption == MaxMail \in Nat

VARIABLES slot, mail, handler, effect, dispatches

vars == <<slot, mail, handler, effect, dispatches>>

TypeOK ==
  /\ slot \in Slot
  /\ slot.compacted => slot.state \in SettledOutcome
  /\ mail \in SUBSET Event
  /\ handler \in {"idle", "running", "ended"}
  /\ effect \in BOOLEAN
  /\ dispatches \in Nat

\* State::empty(StateRevision(0)); the unread fields start anywhere.
Init ==
  /\ slot \in {s \in Slot : s.revision = 0 /\ s.state = "None" /\ ~s.compacted}
  /\ mail = {}
  /\ handler = "idle"
  /\ effect = FALSE
  /\ dispatches = 0

-----------------------------------------------------------------------------
(* The store boundary.                                                      *)

\* Persist a decision and hand its Dispatch intent to the executor.
Apply(decision) ==
  /\ slot' = decision.slot
  /\ handler' = IF decision.intent = "Dispatch" THEN "running" ELSE handler
  /\ dispatches' = IF decision.intent = "Dispatch" THEN dispatches + 1 ELSE dispatches
  /\ UNCHANGED effect

\* Mutant of DecideReservation: a retry takes over the saved request.
DecideReservationTakesOver(input) ==
  Unchanged([slot EXCEPT !.state = IF IsEmpty(slot) THEN "Reserved" ELSE @,
                         !.attempt = input.attempt], "ReturnExisting", "None")

\* decide_reservation: a saved request answers with its own identity and
\* attempt, so only the content of the retry is compared.
DecideReservation(input) ==
  IF IsEmpty(slot)
    THEN Transition(slot, [expected |-> slot.revision, identity |-> input.identity,
                           attempt |-> input.attempt, content |-> input.content,
                           kind |-> "Admit", proof |-> "QueuedCancellation"])
  ELSE IF slot.compacted THEN Reject(slot, "OperationMissing")
  ELSE Transition(slot, [expected |-> slot.revision, identity |-> slot.identity,
                         attempt |-> slot.attempt, content |-> input.content,
                         kind |-> "Admit", proof |-> "QueuedCancellation"])

Reserve ==
  \E i \in Identities, a \in AttemptIdentity, c \in Contents :
    /\ Apply(DecideReservation([identity |-> i, attempt |-> a, content |-> c]))
    /\ UNCHANGED mail

\* An explicit outcome takes the place of the evidence.
SettlementInput ==
  [evidence: ResultEvidence, receipt: BOOLEAN, explicit: {"None"},
   reviewChildAbsent: BOOLEAN]
  \cup [evidence: {e \in ResultEvidence : e.success = "none"}, receipt: BOOLEAN,
        explicit: {"Applied", "NotApplied", "Unknown"}, reviewChildAbsent: BOOLEAN]

DecideSettlement(input) ==
  LET outcome == IF input.explicit = "None" THEN ClassifyResult(input.evidence)
                                            ELSE input.explicit
      kind == SettlementKind(outcome, input.explicit = "None", input.receipt,
                             input.reviewChildAbsent)
      proof == CASE input.reviewChildAbsent -> "ReviewChildAbsent"
                 [] ~input.reviewChildAbsent /\ input.evidence.readOnly -> "ReadOnlyRejection"
                 [] OTHER -> "ExactPreWriteRejection"
  IN IF ~IsOccupied(slot) THEN Reject(slot, "OperationMissing")
     ELSE Transition(slot, [expected |-> slot.revision, identity |-> slot.identity,
                            attempt |-> slot.attempt, content |-> slot.content,
                            kind |-> kind, proof |-> proof])

-----------------------------------------------------------------------------
(* The world.  A handler runs only when a Dispatch intent starts it, makes  *)
(* its mutation at most once and ends by itself; a restart of the server    *)
(* does not stop it.                                                        *)

NothingHappened == handler = "ended" /\ ~effect

NoChild == handler # "running" /\ ~effect

Effect ==
  /\ handler = "running" /\ ~effect
  /\ effect' = TRUE
  /\ UNCHANGED <<slot, mail, handler, dispatches>>

End ==
  /\ handler = "running"
  /\ handler' = "ended"
  /\ UNCHANGED <<slot, mail, effect, dispatches>>

\* What the callers of decide_settlement may pass: an outcome is claimed only
\* when it is the case, and a rejection that follows a nested commit comes with
\* its operation receipt.
HonestInput(input) ==
  LET rejection == \/ input.evidence.success = "true" /\ input.evidence.server = "NotApplied"
                   \/ /\ input.evidence.success = "false"
                      /\ input.evidence.readOnly \/ input.evidence.exact
  IN /\ input.evidence.success = "true" /\ input.evidence.server \in {"None", "Applied"}
          => effect
     /\ rejection => input.receipt \/ NothingHappened
     /\ input.explicit = "Applied" => effect
     /\ input.explicit = "NotApplied" => NothingHappened
     /\ input.reviewChildAbsent => NoChild

Settle ==
  \E input \in SettlementInput :
    /\ HonestInput(input)
    /\ Apply(DecideSettlement(input))
    /\ UNCHANGED mail

\* An event about this operation: evidence is true when it is captured.
HonestEvent(e) ==
  /\ e.kind \in {"AppliedResponse", "AppliedEvidence"} => effect
  /\ e.kind \in {"DefinitiveRejection", "NonExecutionEvidence"} =>
       CASE e.proof = "QueuedCancellation" -> slot.state = "Reserved"
         [] e.proof = "ReviewChildAbsent" -> NoChild
         [] OTHER -> NothingHappened

\* An event about another request scope, turn or provider process says nothing
\* of this operation.
Foreign(e) ==
  \/ e.identity # slot.identity
  \/ e.attempt.context # slot.attempt.context
  \/ e.attempt.epoch # slot.attempt.epoch
  \/ /\ slot.attempt.generation # NoGeneration
     /\ e.attempt.generation \notin {slot.attempt.generation, NoGeneration}

\* The kinds that carry a proof, and the one value that stands for no proof.
Proofs(kind) ==
  IF kind \in {"DefinitiveRejection", "NonExecutionEvidence"}
    THEN NonExecutionProof ELSE {"QueuedCancellation"}

\* The generation an event of this operation may carry: the bound one, none,
\* or, for a claim of an operation reserved without one, that of the claimer.
Owned(e) ==
  \/ e.attempt.generation \in {slot.attempt.generation, NoGeneration}
  \/ e.kind = "ClaimDispatch"

EmitEvent(e) ==
  /\ Cardinality(mail) < MaxMail
  /\ mail' = mail \cup {e}
  /\ UNCHANGED <<slot, handler, effect, dispatches>>

\* Somebody asks for admission, with the revision it last saw.
EmitAdmit ==
  \E i \in Identities, a \in AttemptIdentity, c \in Contents :
    EmitEvent([expected |-> slot.revision, identity |-> i, attempt |-> a,
               content |-> c, kind |-> "Admit", proof |-> "QueuedCancellation"])

\* Somebody claims, cancels or reports, with the revision it last saw.
EmitReport ==
  /\ IsOccupied(slot)
  /\ \E kind \in EventKind \ {"Admit"} :
       \E proof \in Proofs(kind), i \in Identities, a \in AttemptIdentity :
         LET e == [expected |-> slot.revision, identity |-> i, attempt |-> a,
                   content |-> slot.content, kind |-> kind, proof |-> proof]
         IN /\ Foreign(e) \/ (HonestEvent(e) /\ Owned(e))
            /\ EmitEvent(e)

\* transition, one event of the mail at a time; the event may be delivered again.
Deliver ==
  \E e \in mail :
    /\ Apply(Transition(slot, e))
    /\ mail' \in {mail, mail \ {e}}

Lose ==
  \E e \in mail :
    /\ mail' = mail \ {e}
    /\ UNCHANGED <<slot, handler, effect, dispatches>>

\* State::compacted of the slot's record, with the given outcome.
Tombstone(outcome) ==
  [revision |-> slot.revision + 1, state |-> outcome, compacted |-> TRUE,
   identity |-> slot.identity, content |-> slot.content, attempt |-> slot.attempt]

\* Mutant of Compact: everything that is not NotApplied was applied.
CompactAssumesApplied ==
  /\ IsOccupied(slot) /\ slot.state \in Settled /\ slot.revision < MaxRevision
  /\ slot' = Tombstone(IF slot.state = "NotApplied" THEN "NotApplied" ELSE "Applied")
  /\ UNCHANGED <<mail, handler, effect, dispatches>>

\* The owner replaces a settled record by its tombstone in one write.  The crate
\* offers it; at this commit only its tests call it.
Compact ==
  /\ IsOccupied(slot) /\ slot.state \in Settled /\ slot.revision < MaxRevision
  /\ slot' = Tombstone(IF slot.state = "Applied" THEN "Applied" ELSE "NotApplied")
  /\ UNCHANGED <<mail, handler, effect, dispatches>>

Next == Reserve \/ Settle \/ EmitAdmit \/ EmitReport \/ Deliver \/ Lose \/ Effect \/ End \/ Compact

Spec == Init /\ [][Next]_vars

-----------------------------------------------------------------------------
(* Properties.                                                              *)

\* One admitted operation is handed to the executor at most once, whatever is
\* replayed, delivered late or retried after the record was compacted
\* (ClaimDispatch is the only source of a Dispatch intent).
AtMostOneDispatch == dispatches <= 1

\* A settled receipt tells the truth about the world, now and later: "applied"
\* means the mutation took place, and "not applied" means it never will
\* (no handler is left that could still make it).
SettledIsTrue ==
  /\ slot.state = "Applied" => effect
  /\ slot.state \in {"CancelledBeforeDispatch", "NotApplied"} => NoChild

\* Each state is entered at most once on the way from Reserved to a tombstone,
\* so a slot changes at most six times and RevisionExhausted is out of reach of
\* a u64 revision.
Rank(s) ==
  CASE s.compacted -> 6
    [] ~s.compacted /\ s.state \in Settled -> 5
    [] s.state = "Unknown" -> 4
    [] s.state = "CancelRequested" -> 3
    [] s.state = "Dispatched" -> 2
    [] s.state = "Reserved" -> 1
    [] OTHER -> 0

\* No slot is ever changed more often than the rank of its state allows.
RevisionWithinRank == slot.revision <= Rank(slot)

Promised == INSTANCE Receipt WITH says <- ReceiptOf(slot.state),
                                  effects <- IF effect THEN 1 ELSE 0

\* The ledger implements the abstract receipt, whatever is replayed, delivered
\* late or compacted: the mutation takes place after the claim and while the
\* receipt is open, an outcome is told only when it is the case, and neither a
\* told outcome nor what it is about changes afterwards (transition).
ImplementsReceipt == Promised!Spec

\* A settled outcome is final: no event, replay, restart or compaction turns
\* applied into not applied, reopens it, or makes it uncertain again.
OutcomeFinal ==
  [][slot.state \in Settled => Outcome(slot') = Outcome(slot)]_vars

\* What was dispatched stays attributed to the attempt that claimed it: after
\* the claim neither the generation nor any other part of the record's identity
\* changes, so evidence of another process can never be matched to it.
DispatchedAttemptFixed ==
  [][dispatches > 0 => /\ slot'.attempt = slot.attempt
                       /\ slot'.identity = slot.identity
                       /\ slot'.content = slot.content]_vars

=============================================================================
