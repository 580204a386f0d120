--------------------------- MODULE EntityReplica ---------------------------
(***************************************************************************)
(* What the synchronisation of the workspace entities promises to a client, *)
(* whatever carries the changes.  The server's writes are a log; position n *)
(* of the log holds the entity written with sequence number n, or says that *)
(* the number went elsewhere.  The client has a checkpoint and shows, of    *)
(* every entity, one version or none.  While it shows its projection at     *)
(* all, each entity is shown as it was at some position of the log that is  *)
(* not before the checkpoint, and the checkpoint moves forward only.        *)
(***************************************************************************)
EXTENDS Integers, Sequences

CONSTANT Entity

VARIABLES log,        \* the writes, in the order of their numbers
          shown,      \* whether the client shows its projection
          view,       \* per entity the number of the version shown, 0 for none
          checkpoint  \* the number the client says it has caught up with

vars == <<log, shown, view, checkpoint>>

(* A write of some other table takes a number and changes no entity. *)
Elsewhere == "elsewhere"

Write(e, live) == [entity |-> e, live |-> live]

Writes == [entity: Entity \cup {Elsewhere}, live: BOOLEAN]

(* The write numbered n is the last one of e up to position p. *)
IsLast(e, n, p) ==
  /\ n \in 1..p
  /\ log[n].entity = e
  /\ \A m \in n + 1..p : log[m].entity # e

(* Showing version v of e (0 for none) is right at position p of the log. *)
RightAt(e, v, p) ==
  IF v = 0
  THEN \A n \in 1..p : IsLast(e, n, p) => ~log[n].live
  ELSE IsLast(e, v, p) /\ log[v].live

(* ... at some position from the checkpoint on. *)
RightSince(e, v, c) == \E p \in c..Len(log) : RightAt(e, v, p)

(* What a client that shows its projection shows. *)
Faithful == shown => \A e \in Entity : RightSince(e, view[e], checkpoint)

Init ==
  /\ log = << >>
  /\ shown = FALSE
  /\ view = [e \in Entity |-> 0]
  /\ checkpoint = 0

(* The server writes with a number above all in the log; the numbers        *)
(* between went elsewhere.                                                  *)
Extend ==
  /\ Len(log') > Len(log)
  /\ \E w \in Writes :
       log' = [n \in 1..Len(log') |-> IF n <= Len(log) THEN log[n]
                                     ELSE IF n = Len(log') THEN w
                                     ELSE Write(Elsewhere, TRUE)]
  /\ UNCHANGED <<shown, view, checkpoint>>

(* The client brings its projection forward and shows it. *)
CatchUp ==
  /\ shown'
  /\ checkpoint' \in 0..Len(log)
  /\ shown => checkpoint' >= checkpoint
  /\ view' \in [Entity -> 0..Len(log)]
  /\ \A e \in Entity : RightSince(e, view'[e], checkpoint')
  /\ UNCHANGED log

(* The client hides its projection and builds it anew. *)
Rebuild ==
  /\ ~shown'
  /\ checkpoint' \in 0..Len(log)
  /\ view' \in [Entity -> 0..Len(log)]
  /\ UNCHANGED log

Next == Extend \/ CatchUp \/ Rebuild

Spec == Init /\ [][Next]_vars
=============================================================================
