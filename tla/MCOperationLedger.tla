------------------------- MODULE MCOperationLedger -------------------------
(***************************************************************************)
(* The operation ledger on a small instance.  Two identities and contents  *)
(* let a retry conflict; two contexts, epochs and generations give every  *)
(* stale attempt; seven revisions are one more than a slot can use.        *)
(***************************************************************************)
EXTENDS OperationLedger, TLC

Symmetry == Permutations(Identities) \cup Permutations(Contents)
            \cup Permutations(Epochs) \cup Permutations(Generations)
=============================================================================
