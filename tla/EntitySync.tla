---------------------------- MODULE EntitySync ----------------------------
(***************************************************************************)
(* The entity half of the UI synchronisation: the table sync_entities with  *)
(* its tombstones, its pruning and its floor; the two ways a client reads   *)
(* it (paged pulls over HTTP, snapshot or delta frames of the resource      *)
(* stream); and the client's projection with its checkpoint and markers.    *)
(*                                                                          *)
(* A version of an entity is the sequence number of the write that made it. *)
(* The client applies every reply and frame inside one projection write     *)
(* (withEntityProjectionWrite), so an application is one step.              *)
(***************************************************************************)
EXTENDS Integers, Sequences, FiniteSets, FiniteSetsExt

CONSTANTS Entity,          \* the entities of the global (state) collections
          PageLimit,       \* ENTITY_BATCH_SIZE of the client's pulls
          TombstoneLimit,  \* ENTITY_TOMBSTONE_LIMIT
          PruneBatch,      \* ENTITY_TOMBSTONE_PRUNE_BATCH
          Paths,           \* the ways this client is fed: "pull", "stream"
          MaxSeq,          \* bound: the sequence numbers given out
          MaxElsewhere,    \* bound: those given to anything but Entity
          MaxFrames        \* bound: frames on the stream at a time

Elsewhere == "elsewhere"

ASSUME SyncAssumption ==
  /\ IsFiniteSet(Entity)
  /\ Elsewhere \notin Entity
  /\ PageLimit \in Nat \ {0, 1}
  /\ TombstoneLimit \in Nat \ {0}
  /\ PruneBatch \in Nat \ {0}
  /\ Paths \subseteq {"pull", "stream"}
  /\ MaxSeq \in Nat /\ MaxElsewhere \in 0..MaxSeq /\ MaxFrames \in Nat

VARIABLES
  rows,       \* sync_entities: the entity's row, or NoRow
  floor,      \* sync_entity_meta entity_tombstone_floor
  unscoped,   \* the greatest number of the entities outside this client's scope
  elsewhere,  \* the greatest number of the rest: drafts, durable rows, transcripts
  pruning,    \* a retention pass is inside its pruning loop
  log,        \* history: what each number was given to, up to the last entity's
  cache,      \* the client's projection rows
  ckpt,       \* the row state:entities:checkpoint: its seq and its initialHigh
  marker,     \* the sequence of state:entities:initial, or None
  complete,   \* state:entities:complete is there
  ready,      \* the payload of state:entities:ready
  resetKnown, \* resetReadySeq is set
  pull,       \* the refresh under way
  stream      \* the subscription: the server's cursor and the frames sent

table == <<rows, floor, unscoped, elsewhere, pruning, log>>
projection == <<cache, ckpt, marker, complete, ready>>
vars == <<table, projection, resetKnown, pull, stream>>

None == -1

(* Numbers start at 1.  A row that is not there reads as number 0, and so   *)
(* does a projection row that a reset has cleared.                          *)
Row(seq, live) == [seq |-> seq, live |-> live]
NoRow == Row(0, FALSE)
IsRow(r) == r.seq > 0
IsTombstone(r) == IsRow(r) /\ ~r.live

CacheRow(seq, live, evicted) == [seq |-> seq, live |-> live, evicted |-> evicted]
NoCacheRow == CacheRow(0, FALSE, FALSE)
-----------------------------------------------------------------------------
(* The table. *)

(* One above the greatest number of four tables, when other is the greatest *)
(* of the three that hold no entities.                                      *)
NextAfter(other) == Max({rows[e].seq : e \in Entity} \cup {unscoped, other}) + 1

(* next_sequence, and NEXT of the triggers. *)
NextSequence == NextAfter(elsewhere)

(* max_sequence of a read: the greatest entity number, or the floor.  The   *)
(* entities outside the scope of the reader count as well.                  *)
MaxSequence == Max({rows[e].seq : e \in Entity} \cup {unscoped, floor})

(* The history after the next number went to w.  The numbers that were      *)
(* passed over are the ones other tables have or had.                       *)
Logged(w) ==
  [n \in 1..NextSequence |->
     IF n <= Len(log) THEN log[n]
     ELSE IF n = NextSequence THEN w
     ELSE [entity |-> Elsewhere, live |-> TRUE]]

Tombstones == {e \in Entity : IsTombstone(rows[e])}

(* write_entity_hash: an equal hash writes nothing; a tombstone's payload   *)
(* is always the same, so a second delete is such a write.                  *)
PutEntity(e, live) ==
  /\ NextSequence <= MaxSeq
  /\ live \/ ~IsTombstone(rows[e])
  /\ rows' = [rows EXCEPT ![e] = Row(NextSequence, live)]
  /\ log' = Logged([entity |-> e, live |-> live])
  /\ UNCHANGED <<floor, unscoped, elsewhere, pruning, projection, resetKnown, pull, stream>>

(* An entity that this client's scope does not hold is written. *)
PutUnscoped ==
  /\ NextSequence <= MaxElsewhere
  /\ unscoped' = NextSequence
  /\ log' = Logged([entity |-> Elsewhere, live |-> TRUE])
  /\ UNCHANGED <<rows, floor, elsewhere, pruning, projection, resetKnown, pull, stream>>

(* A draft or a durable row takes the next number of the shared counter. *)
WriteElsewhere ==
  /\ NextSequence <= MaxElsewhere
  /\ elsewhere' = NextSequence
  /\ UNCHANGED <<rows, floor, unscoped, pruning, log, projection, resetKnown, pull, stream>>

(* The delete trigger of a durable table: the tombstones past their         *)
(* retention go, kept is the greatest number they leave, and then the new   *)
(* tombstone takes the next one.  The counter may go back.                  *)
DeleteElsewhere ==
  /\ elsewhere > 0
  /\ \E kept \in 0..elsewhere :
       NextAfter(kept) <= MaxElsewhere /\ elsewhere' = NextAfter(kept)
  /\ UNCHANGED <<rows, floor, unscoped, pruning, log, projection, resetKnown, pull, stream>>

(* entity_tombstone_prune_due: the pass starts only above the slack. *)
PruneDue ==
  /\ ~pruning
  /\ Cardinality(Tombstones) >
       TombstoneLimit + Min({PruneBatch, TombstoneLimit \div 20})
  /\ pruning' = TRUE
  /\ UNCHANGED <<rows, floor, unscoped, elsewhere, log, projection, resetKnown, pull, stream>>

\* Mutant of Oldest: the rows are ordered the other way.
OldestReversed(S, n) ==
  /\ S \subseteq Tombstones
  /\ Cardinality(S) = n
  /\ \A e \in S, f \in Tombstones \ S : rows[e].seq > rows[f].seq

(* The n oldest tombstones: S holds n of them and every other is younger. *)
Oldest(S, n) ==
  /\ S \subseteq Tombstones
  /\ Cardinality(S) = n
  /\ \A e \in S, f \in Tombstones \ S : rows[e].seq < rows[f].seq

\* Mutant of RaisedFloor: the floor stays where it was.
RaisedFloorNot(S) == floor

(* The floor after the tombstones of S are deleted. *)
RaisedFloor(S) == Max({floor} \cup {rows[e].seq : e \in S})

(* prune_entity_tombstones: one batch in one writer transaction. *)
PruneBatchOnce ==
  /\ pruning
  /\ LET excess == Cardinality(Tombstones) - TombstoneLimit
     IN  IF excess <= 0
         THEN pruning' = FALSE /\ UNCHANGED <<rows, floor>>
         ELSE \E S \in SUBSET Tombstones :
                /\ Oldest(S, Min({PruneBatch, excess}))
                /\ rows' = [e \in Entity |-> IF e \in S THEN NoRow ELSE rows[e]]
                /\ floor' = RaisedFloor(S)
                /\ UNCHANGED pruning
  /\ UNCHANGED <<unscoped, elsewhere, log, projection, resetKnown, pull, stream>>
-----------------------------------------------------------------------------
(* Reading the table. *)

DocsOf(S) == {[entity |-> e, seq |-> rows[e].seq, live |-> rows[e].live] : e \in S}

(* read_entity_page with its LIMIT: prio (a mobile client's open agent)     *)
(* comes first, then the lowest numbers.                                    *)
IsPage(S, selected, prio) ==
  /\ S \subseteq selected
  /\ Cardinality(S) = Min({PageLimit, Cardinality(selected)})
  /\ \A e \in S, f \in selected \ S :
       e = prio \/ (f # prio /\ rows[e].seq < rows[f].seq)

(* The last row of a full page, in the page's order. *)
LastSeq(S, prio) ==
  Max({rows[e].seq : e \in IF S = {prio} THEN S ELSE S \ {prio}})

ResetReply == [reset |-> TRUE]

\* Mutant of Selected: a fresh read leaves out every tombstone.
SelectedLive(after, fresh, initialHigh) ==
  {e \in Entity : /\ rows[e].seq > after
                  /\ rows[e].live \/ (~fresh /\ rows[e].seq > floor)}

\* Mutant of Selected: the number after the cursor is taken for read.
SelectedLater(after, fresh, initialHigh) ==
  {e \in Entity : /\ rows[e].seq > after + 1
                  /\ rows[e].live \/ rows[e].seq > floor
                  /\ ~fresh \/ rows[e].live \/ rows[e].seq > initialHigh}

(* The rows read_entity_page selects; a row that is not there has number 0. *)
Selected(after, fresh, initialHigh) ==
  {e \in Entity : /\ rows[e].seq > after
                  /\ rows[e].live \/ rows[e].seq > floor
                  /\ ~fresh \/ rows[e].live \/ rows[e].seq > initialHigh}

(* pull_entity_view as the route answers it.  high is the query's           *)
(* initialHigh and None when the query is not "fresh".                      *)
PullReply(after, high, prio) ==
  LET fresh == high # None
      initialHigh == IF ~fresh THEN 0
                     ELSE IF high > 0 THEN Min({MaxSequence, high})
                     ELSE MaxSequence
      selected == Selected(after, fresh, initialHigh)
  IN  IF ~fresh /\ after > 0 /\ (after < floor \/ after > MaxSequence)
      THEN {ResetReply}
      ELSE {[reset |-> FALSE,
             docs |-> DocsOf(S),
             checkpoint |-> IF Cardinality(S) = PageLimit
                            THEN LastSeq(S, prio) ELSE MaxSequence,
             initialHigh |-> initialHigh,
             maxSeq |-> MaxSequence]
              : S \in {T \in SUBSET selected : IsPage(T, selected, prio)}}

(* resume_entity_scope and its continuations in one read transaction: the   *)
(* frame of the state resource for a cursor.                                *)
Frame(since) ==
  LET snapshot == since = None \/ since < floor \/ since > MaxSequence
      after == IF snapshot THEN 0 ELSE since
  IN  [snapshot |-> snapshot,
       after |-> after,
       through |-> MaxSequence,
       docs |-> DocsOf({e \in Entity : /\ rows[e].seq > after
                                       /\ ~snapshot \/ rows[e].live})]
-----------------------------------------------------------------------------
(* The client's projection. *)

(* projectionSupersedes *)
Supersedes(previous, incoming) ==
  IF previous.seq # incoming.seq THEN previous.seq > incoming.seq
  ELSE IF incoming.evicted THEN ~previous.live
  ELSE ~previous.evicted

(* persistProjectionBatch of the rows in docs. *)
Persisted(docs) ==
  [e \in Entity |->
     IF \E d \in docs : d.entity = e
     THEN LET d == CHOOSE d \in docs : d.entity = e
              incoming == CacheRow(d.seq, d.live, FALSE)
          IN  IF Supersedes(cache[e], incoming) THEN cache[e] ELSE incoming
     ELSE cache[e]]

(* persistProjection of the checkpoint row. *)
Advanced(seq, high) ==
  IF ckpt.seq < seq THEN [seq |-> seq, high |-> high] ELSE ckpt

(* readSubscriptionCursor of the state resource. *)
Cursor == IF ready = "ready" /\ complete THEN ckpt.seq ELSE None

Idle == [at |-> "idle"]

(* resetEntityProjection: hide the projection, forget the checkpoint and    *)
(* the markers, clear the rows that are live.                               *)
ResetProjection ==
  /\ ready' = "resetting"
  /\ ckpt' = [seq |-> 0, high |-> 0]
  /\ marker' = None
  /\ complete' = FALSE
  /\ cache' = [e \in Entity |-> IF cache[e].live THEN NoCacheRow ELSE cache[e]]
  /\ resetKnown' = TRUE

(* The markers a refresh reads before its first request: mark is the        *)
(* initial marker it keeps for the whole loop, high its initialHigh.        *)
Loop(mark, high, kind) ==
  [at |-> "loop", mark |-> mark, high |-> high, kind |-> kind]

(* refresh: a hint, a reconnection or the user asks for a pull. *)
RefreshStart ==
  /\ "pull" \in Paths
  /\ pull.at \in {"idle", "finish"}
  /\ IF ready = "resetting" /\ ~resetKnown
     THEN /\ ResetProjection
          /\ pull' = Loop(marker, IF marker # None THEN marker ELSE 0, "whole")
     ELSE /\ pull' = IF complete THEN Loop(marker, None, "delta")
                     ELSE Loop(marker, IF marker # None THEN marker ELSE 0, "whole")
          /\ UNCHANGED <<projection, resetKnown>>
  /\ UNCHANGED <<table, stream>>

(* The head of the loop: the checkpoint row decides after, and, for a       *)
(* request that is "fresh", the initialHigh sent with it.                   *)
PullRequest ==
  /\ pull.at = "loop"
  /\ pull' = [at |-> "request", mark |-> pull.mark, kind |-> pull.kind,
              after |-> ckpt.seq,
              high |-> IF pull.high = None THEN None
                       ELSE IF pull.mark # None THEN pull.mark ELSE ckpt.high]
  /\ UNCHANGED <<table, projection, resetKnown, stream>>

(* The server answers from one read snapshot.  Only the first page of a     *)
(* whole projection names a row to put first.                               *)
PullAnswer ==
  /\ pull.at = "request"
  /\ \E prio \in IF pull.after = 0 /\ pull.high # None
                  THEN Entity \cup {None} ELSE {None} :
       \E reply \in PullReply(pull.after, pull.high, prio) :
         pull' = [at |-> "reply", mark |-> pull.mark, kind |-> pull.kind,
                  after |-> pull.after, high |-> pull.high, reply |-> reply]
  /\ UNCHANGED <<table, projection, resetKnown, stream>>

(* The request or its answer is lost: the same request again, or an error   *)
(* that ends the refresh.                                                   *)
PullFails ==
  /\ pull.at \in {"request", "reply"}
  /\ pull' \in {Idle, [at |-> "request", mark |-> pull.mark, kind |-> pull.kind,
                       after |-> pull.after, high |-> pull.high]}
  /\ UNCHANGED <<table, projection, resetKnown, stream>>

(* A reset answer: start over with the whole projection. *)
PullReset ==
  /\ pull.at = "reply" /\ pull.reply.reset
  /\ ResetProjection
  /\ pull' = Loop(pull.mark, 0, "whole")
  /\ UNCHANGED <<table, stream>>

(* A page: its rows, then the checkpoint.  The next page, if there is one,  *)
(* is asked for with the initialHigh of this answer.                        *)
PullApply ==
  /\ pull.at = "reply" /\ ~pull.reply.reset
  /\ LET r == pull.reply
         more == Cardinality(r.docs) = PageLimit /\ r.checkpoint < r.maxSeq
     IN  /\ marker' = IF pull.high # None /\ marker < r.initialHigh
                      THEN r.initialHigh ELSE marker
         /\ cache' = Persisted(r.docs)
         /\ ckpt' = Advanced(r.checkpoint, r.initialHigh)
         /\ ready' = IF ready = "none" THEN "ready" ELSE ready
         /\ pull' = IF more THEN Loop(pull.mark, r.initialHigh, pull.kind)
                    ELSE [at |-> "finish"]
  /\ UNCHANGED <<table, complete, resetKnown, stream>>

\* Mutant of PullInterrupted: the checkpoint is stored before the rows.
PullInterruptedLate ==
  /\ pull.at = "reply" /\ ~pull.reply.reset
  /\ ckpt' = Advanced(pull.reply.checkpoint, pull.reply.initialHigh)
  /\ pull' = Loop(pull.mark, pull.high, pull.kind)
  /\ UNCHANGED <<table, cache, marker, complete, ready, resetKnown, stream>>

(* The epoch changes while a page is being applied, or a write fails: its   *)
(* rows, which are one bulkWrite, are stored or not, the checkpoint does    *)
(* not move, and the loop starts over or the refresh ends.                  *)
PullInterrupted ==
  /\ pull.at = "reply" /\ ~pull.reply.reset
  /\ \E stored \in {{}, pull.reply.docs} : cache' = Persisted(stored)
  /\ marker' = IF pull.high # None /\ marker < pull.reply.initialHigh
               THEN pull.reply.initialHigh ELSE marker
  /\ \/ "stream" \in Paths /\ pull' = Loop(pull.mark, pull.high, pull.kind)
     \/ pull' = Idle
  /\ UNCHANGED <<table, ckpt, complete, ready, resetKnown, stream>>

(* The refresh ends: the projection is whole. *)
PullFinish ==
  /\ pull.at = "finish"
  /\ complete' = TRUE
  /\ ready' = "ready"
  /\ pull' = Idle
  /\ UNCHANGED <<table, cache, ckpt, marker, resetKnown, stream>>

(* The last view of the projection closes and another opens it again: the   *)
(* refresh under way stops and what only it knew is forgotten.              *)
Reacquire ==
  /\ "pull" \in Paths
  /\ pull.at # "idle"
  /\ pull' = Idle
  /\ resetKnown' = FALSE
  /\ UNCHANGED <<table, projection, stream>>

(* The stream shows another epoch: an answer under way is thrown away and   *)
(* the loop starts over from the checkpoint it has.                         *)
EpochChanged ==
  /\ pull.at \in {"request", "reply"}
  /\ "stream" \in Paths
  /\ pull' = Loop(pull.mark, pull.high, pull.kind)
  /\ UNCHANGED <<table, projection, resetKnown, stream>>
-----------------------------------------------------------------------------
(* The resource stream. *)

Closed == [open |-> FALSE, base |-> None, first |-> FALSE, frames |-> << >>]

(* The client subscribes with the cursor of the projection it has applied. *)
Subscribe ==
  /\ "stream" \in Paths
  /\ ~stream.open
  /\ stream' = [open |-> TRUE, base |-> Cursor, first |-> TRUE, frames |-> << >>]
  /\ UNCHANGED <<table, projection, resetKnown, pull>>

(* entity_transfer::attach: the first frame is always sent, later ones not  *)
(* when they are empty deltas; the cursor moves with what is sent.          *)
SendFrame ==
  /\ stream.open
  /\ Len(stream.frames) < MaxFrames
  /\ LET f == Frame(stream.base)
     IN  /\ stream.first \/ f.snapshot \/ f.docs # {}
         /\ stream' = [stream EXCEPT !.base = f.through, !.first = FALSE,
                                     !.frames = Append(@, f)]
  /\ UNCHANGED <<table, projection, resetKnown, pull>>

(* A replacement snapshot evicts the rows up to it that it does not hold. *)
Evicted(f, stored) ==
  [e \in Entity |->
     IF /\ f.snapshot
        /\ stored[e].live /\ stored[e].seq <= f.through
        /\ \A d \in f.docs : d.entity # e
     THEN CacheRow(stored[e].seq, FALSE, TRUE)
     ELSE stored[e]]

\* Mutant of Whole: the wrong payload is written to the ready marker.
WholeMiswritten ==
  /\ complete' = TRUE
  /\ ready' = "complete"

(* persistStagedEntityTransfer: a snapshot makes the projection whole. *)
Whole ==
  /\ complete' = TRUE
  /\ ready' = "ready"

(* persistScopedEntities, persistStagedEntityTransfer.  A frame already     *)
(* covered is skipped; a delta without its base fails, and the stream is    *)
(* opened again.                                                            *)
ApplyFrame ==
  /\ stream.frames # << >>
  /\ LET f == Head(stream.frames)
         covered == Cursor # None /\ Cursor >= f.through
         gap == ~f.snapshot /\ (Cursor = None \/ Cursor < f.after)
     IN  IF covered \/ gap
         THEN /\ stream' = IF covered THEN [stream EXCEPT !.frames = Tail(@)]
                           ELSE Closed
              /\ UNCHANGED projection
         ELSE /\ cache' = Evicted(f, Persisted(f.docs))
              /\ ckpt' = Advanced(f.through, 0)
              /\ IF f.snapshot THEN Whole ELSE UNCHANGED <<complete, ready>>
              /\ stream' = [stream EXCEPT !.frames = Tail(@)]
              /\ UNCHANGED marker
  /\ UNCHANGED <<table, resetKnown, pull>>

(* The head of the queue is a frame that the client starts to apply. *)
Applying ==
  /\ stream.frames # << >>
  /\ Cursor = None \/ Cursor < Head(stream.frames).through
  /\ Head(stream.frames).snapshot \/ (Cursor # None /\ Cursor >= Head(stream.frames).after)

\* Mutant of FrameInterrupted: the checkpoint is dropped and the view is not.
FrameInterruptedForgets ==
  /\ Applying
  /\ ckpt' = [seq |-> 0, high |-> 0]
  /\ stream' = Closed
  /\ UNCHANGED <<table, cache, marker, complete, ready, resetKnown, pull>>

\* Mutant of FrameInterrupted: the stream goes on with the next frame.
FrameInterruptedSkips ==
  /\ Applying
  /\ stream' = [stream EXCEPT !.frames = Tail(@)]
  /\ UNCHANGED <<table, projection, resetKnown, pull>>

(* The application of a frame is cancelled or fails between two of its      *)
(* writes: some rows are stored and some evicted, or all are and the        *)
(* checkpoint is stored, perhaps with the marker that comes after it.       *)
FrameInterrupted ==
  /\ Applying
  /\ LET f == Head(stream.frames)
     IN  \/ /\ \E stored \in SUBSET f.docs,
                  gone \in SUBSET {e \in Entity : Evicted(f, cache)[e] # cache[e]} :
                 cache' = [e \in Entity |-> IF e \in gone
                                           THEN Evicted(f, Persisted(stored))[e]
                                           ELSE Persisted(stored)[e]]
            /\ UNCHANGED <<ckpt, complete>>
         \/ /\ cache' = Evicted(f, Persisted(f.docs))
            /\ ckpt' = Advanced(f.through, 0)
            /\ complete' \in {complete, complete \/ f.snapshot}
  /\ stream' = Closed
  /\ UNCHANGED <<table, marker, ready, resetKnown, pull>>

(* The connection ends with whatever was under way on it. *)
Disconnect ==
  /\ stream.open
  /\ stream' = Closed
  /\ UNCHANGED <<table, projection, resetKnown, pull>>
-----------------------------------------------------------------------------
Init ==
  /\ rows = [e \in Entity |-> NoRow]
  /\ floor = 0 /\ unscoped = 0 /\ elsewhere = 0 /\ pruning = FALSE
  /\ log = << >>
  /\ cache = [e \in Entity |-> NoCacheRow]
  /\ ckpt = [seq |-> 0, high |-> 0]
  /\ marker = None /\ complete = FALSE /\ ready = "none" /\ resetKnown = FALSE
  /\ pull = Idle
  /\ stream = Closed

Write == \/ \E e \in Entity, live \in BOOLEAN : PutEntity(e, live)
         \/ PutUnscoped \/ WriteElsewhere \/ DeleteElsewhere
Prune == PruneDue \/ PruneBatchOnce
Pull == \/ RefreshStart \/ PullRequest \/ PullAnswer \/ PullFails
        \/ PullReset \/ PullApply \/ PullInterrupted \/ PullFinish
        \/ Reacquire \/ EpochChanged
Stream == Subscribe \/ SendFrame \/ ApplyFrame \/ FrameInterrupted \/ Disconnect

Next == Write \/ Prune \/ Pull \/ Stream

Spec == Init /\ [][Next]_vars

(* The client that lost its stream opens it again, the server sends what    *)
(* there is to send, and a frame that is offered again and again is applied *)
(* at last.                                                                 *)
StreamFairness ==
  /\ WF_vars(Subscribe)
  /\ SF_vars(SendFrame)
  /\ SF_vars(ApplyFrame)

FairSpec == Spec /\ StreamFairness
-----------------------------------------------------------------------------
(* What the client shows. *)
Shown == complete /\ ready = "ready"
View == [e \in Entity |-> IF cache[e].live THEN cache[e].seq ELSE 0]

Replica == INSTANCE EntityReplica WITH shown <- Shown, view <- View,
                                       checkpoint <- ckpt.seq

(* The types of the variables; sequence numbers stay below the bound. *)
TypeOK ==
  LET Seqs == 0..MaxSeq
      Docs == [entity: Entity, seq: Seqs, live: BOOLEAN]
  IN  /\ rows \in [Entity -> [seq: Seqs, live: BOOLEAN]]
      /\ floor \in Seqs /\ unscoped \in Seqs /\ elsewhere \in Seqs /\ pruning \in BOOLEAN
      /\ log \in Seq([entity: Entity \cup {Elsewhere}, live: BOOLEAN])
      /\ cache \in [Entity -> [seq: Seqs, live: BOOLEAN, evicted: BOOLEAN]]
      /\ ckpt \in [seq: Seqs, high: Seqs]
      /\ marker \in Seqs \cup {None}
      /\ complete \in BOOLEAN
      /\ ready \in {"none", "ready", "resetting"}
      /\ resetKnown \in BOOLEAN
      /\ pull.at \in {"idle", "loop", "request", "reply", "finish"}
      /\ stream \in [open: BOOLEAN, base: Seqs \cup {None}, first: BOOLEAN,
                     frames: Seq([snapshot: BOOLEAN, after: Seqs, through: Seqs,
                                  docs: SUBSET Docs])]

(* next_sequence reads the greatest number that survives in four tables.    *)
(* Pruning deletes numbered entities, and durable rows whose number may     *)
(* then be given out again.  Still every number ever given to an entity     *)
(* (they end with the log), the floor and what a client was told to have    *)
(* caught up with stay below the next number, so that no later write of an  *)
(* entity hides behind a cursor.                                            *)
NumbersAreFresh ==
  /\ Len(log) < NextSequence
  /\ floor < NextSequence
  /\ ckpt.seq <= Len(log) /\ stream.base <= Len(log)

(* A row is the last write of its entity.  Where there is no row, there was *)
(* no write or the last one was a deletion at or below the floor: a client  *)
(* at or above the floor can still be told of every deletion it missed.     *)
TableIsTheLog ==
  \A e \in Entity :
    IF IsRow(rows[e])
    THEN /\ Replica!IsLast(e, rows[e].seq, Len(log))
         /\ rows[e].live = log[rows[e].seq].live
         /\ rows[e].live \/ rows[e].seq > floor
    ELSE \A n \in 1..Len(log) :
           Replica!IsLast(e, n, Len(log)) => ~log[n].live /\ n <= floor

(* No live entity is missing: what is live in the table and numbered up to  *)
(* the checkpoint of a whole projection is in it, in that version.          *)
NothingMissing ==
  Shown => \A e \in Entity :
    rows[e].live /\ rows[e].seq <= ckpt.seq => View[e] = rows[e].seq

(* No deleted entity is left: once the checkpoint of a whole projection has *)
(* passed the deletion of an entity that stays deleted, it is not shown.    *)
NothingLeftOver ==
  Shown => \A e \in Entity : View[e] # 0 =>
    \A n \in 1..ckpt.seq : Replica!IsLast(e, n, Len(log)) => log[n].live

(* What the client shows of each entity was true at some moment that is not *)
(* before its checkpoint: neither an old version nor a mixture of old and   *)
(* new that the checkpoint has passed.                                      *)
ShownIsFaithful == Replica!Faithful

(* The client implements the replica: besides, its checkpoint moves only    *)
(* forward while it shows its projection.                                   *)
IsReplica == Replica!Spec

(* The projection shows the table as it is. *)
UpToDate ==
  Shown /\ \A e \in Entity : View[e] = IF rows[e].live THEN rows[e].seq ELSE 0

(* Once the server has nothing left to write, a client that keeps its       *)
(* stream ends up showing the table as it is, through disconnections,       *)
(* interrupted writes and pruning.                                          *)
Converges == <>[]UpToDate
=============================================================================
