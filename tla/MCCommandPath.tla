--------------------------- MODULE MCCommandPath ---------------------------
(* The command path on small instances: the client numbers its commands in *)
(* the order of their names.                                               *)
EXTENDS CommandPath, TLC

CONSTANTS c1, c2

NumberByName == [c \in Commands |-> CASE c = c1 -> 1 [] c = c2 -> 2 [] OTHER -> 3]
=============================================================================
