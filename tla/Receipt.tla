------------------------------ MODULE Receipt ------------------------------
(***************************************************************************)
(* What the receipt of an operation promises to whoever reads it: says is  *)
(* what it tells, effects how often the operation took place.  An          *)
(* operation acts only after it was claimed, once, and while its receipt   *)
(* is open; "applied" and "not_applied" are told only when they are the    *)
(* case and stay the case; what is not known may be lost, never invented.  *)
(***************************************************************************)
EXTENDS Naturals

VARIABLES says, effects

Open == {"reserved", "running", "unknown"}

Init == says = "nothing" /\ effects = 0

Reserve ==
  says = "nothing" /\ says' = "reserved" /\ UNCHANGED effects

Claim ==
  says = "reserved" /\ says' = "running" /\ UNCHANGED effects

\* The operation takes place, in the transaction that says so or before it.
Act ==
  /\ says \in {"running", "unknown"} /\ effects = 0
  /\ effects' = 1
  /\ says' \in {says, "applied"}

LoseTrack ==
  says \in Open /\ says' = "unknown" /\ UNCHANGED effects

Confirm ==
  /\ says \in Open /\ effects = 1
  /\ says' = "applied" /\ UNCHANGED effects

Refuse ==
  /\ says \in Open /\ effects = 0
  /\ says' = "not_applied" /\ UNCHANGED effects

Next == Reserve \/ Claim \/ Act \/ LoseTrack \/ Confirm \/ Refuse

Spec == Init /\ [][Next]_<<says, effects>>
=============================================================================
