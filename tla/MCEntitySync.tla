---------------------------- MODULE MCEntitySync ----------------------------
(* Instances of EntitySync for TLC. *)
EXTENDS EntitySync, TLC

CONSTANTS e1, e2

Two == {e1, e2}
OnlyStream == {"stream"}
OnlyPull == {"pull"}
Both == {"pull", "stream"}

Symmetry == Permutations(Entity)
=============================================================================
