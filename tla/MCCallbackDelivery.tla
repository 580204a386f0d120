------------------------- MODULE MCCallbackDelivery -------------------------
(***************************************************************************)
(* Two HTTP calls race to answer or delete one card.                       *)
(***************************************************************************)
EXTENDS CallbackDelivery, TLC

CONSTANTS p1, p2

\* The calls are interchangeable.
Symmetry == Permutations({p1, p2})
=============================================================================
