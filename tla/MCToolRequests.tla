--------------------------- MODULE MCToolRequests ---------------------------
(***************************************************************************)
(* One request and its callbacks: all over one connection, or d3 over its  *)
(* successor.                                                              *)
(***************************************************************************)
EXTENDS ToolRequests, TLC

CONSTANTS d1, d2, d3, g1, g2, e1, c1

SameConnection == [d \in Callbacks |-> [conn |-> g1, epoch |-> e1, content |-> c1]]

Reconnected ==
  (d1 :> [conn |-> g1, epoch |-> e1, content |-> c1]
   @@ d2 :> [conn |-> g1, epoch |-> e1, content |-> c1]
   @@ d3 :> [conn |-> g2, epoch |-> e1, content |-> c1])

\* Callbacks with one context are interchangeable.
Symmetry == Permutations({d1, d2})
=============================================================================
