----------------------------- MODULE AnswerSlot -----------------------------
(***************************************************************************)
(* What the delivery of an answer promises about one provider request: a   *)
(* slot that is open, claimed by one answer, filled with it once and for   *)
(* good, or closed.  A claim is given up only while the slot is unfilled.  *)
(***************************************************************************)
CONSTANTS Answer, NoAnswer

VARIABLE slot

State == [is: {"open", "closed"}, by: {NoAnswer}] \cup [is: {"claimed", "filled"}, by: Answer]

Init == slot = [is |-> "open", by |-> NoAnswer]

Claim == \E a \in Answer :
  slot = [is |-> "open", by |-> NoAnswer] /\ slot' = [is |-> "claimed", by |-> a]

Release ==
  slot.is = "claimed" /\ slot' = [is |-> "open", by |-> NoAnswer]

Fill ==
  slot.is = "claimed" /\ slot' = [is |-> "filled", by |-> slot.by]

Close ==
  slot.is = "open" /\ slot' = [is |-> "closed", by |-> NoAnswer]

Next == Claim \/ Release \/ Fill \/ Close

Spec == Init /\ [][Next]_slot
=============================================================================
