--------------------------- MODULE MCRetainedCalls --------------------------
(***************************************************************************)
(* One operation that two requests ask for.                                *)
(***************************************************************************)
EXTENDS RetainedCalls
=============================================================================
