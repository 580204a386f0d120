-------------------------- MODULE EntityPullProofs --------------------------
(***************************************************************************)
(* Proofs about the pull path of EntitySync, for every set of entities,     *)
(* every limit and every bound.                                             *)
(*                                                                          *)
(* A page is right for ever about the moment it was read at: whatever is    *)
(* written, pruned or applied before it arrives, every entity that it would *)
(* have to hold and that is still live is in it.                            *)
(***************************************************************************)
EXTENDS EntitySyncProofs

(* The page r, asked for after the number after and read when the log was   *)
(* t long: its rows are right at t, and it holds every entity whose last    *)
(* write up to t is live and numbered between after and the checkpoint.     *)
PageRight(r, after, t) ==
  /\ r.checkpoint <= t
  /\ \A d \in r.docs : DocRight(d, t)
  /\ \A e \in Entity, k \in Nat :
       /\ Last(e, k, t)
       /\ k > after /\ k <= r.checkpoint
       /\ log[k].live
       => \E d \in r.docs : d.entity = e

(* The live entities that the checkpoint has passed are in the cache. *)
Held(e) ==
  rows[e].live /\ rows[e].seq <= ckpt.seq => cache[e].seq = rows[e].seq

(* A request was made from where the checkpoint is or was: between a reset  *)
(* and the next request the checkpoint only rises.                          *)
AskedBehind == pull.at \in {"request", "reply"} => pull.after <= ckpt.seq

ReplyRight ==
  pull.at = "reply" /\ ~pull.reply.reset =>
    \E t \in Given : PageRight(pull.reply, pull.after, t)

HeldInv ==
  /\ \A e \in Entity : CacheRight(e) /\ Held(e)
  /\ AskedBehind
  /\ ReplyRight
-----------------------------------------------------------------------------
(* What a page is right about stays so. *)
LEMMA LastStays ==
  ASSUME TableInv,
         (\E w \in LogEntry : log' = Logged(w)) \/ UNCHANGED log
  PROVE  /\ Len(log) \in Nat /\ Len(log') \in Nat /\ Len(log) <= Len(log')
         /\ \A n \in 1..Len(log) : log'[n] = log[n]
         /\ \A e \in Entity, p \in 0..Len(log), n \in Nat :
              Last(e, n, p)' <=> Last(e, n, p)
<1>1. log \in Seq(LogEntry) /\ Len(log) \in Nat
  BY DEF TableInv, TableTyped
<1>2. CASE UNCHANGED log
  BY <1>1, <1>2 DEF Last, Replica!IsLast
<1>3. ASSUME NEW w \in LogEntry, log' = Logged(w)
      PROVE  /\ Len(log') \in Nat /\ Len(log) <= Len(log')
             /\ \A n \in 1..Len(log) : log'[n] = log[n]
             /\ \A e \in Entity, p \in 0..Len(log), n \in Nat :
                  Last(e, n, p)' <=> Last(e, n, p)
  BY <1>1, <1>3, Extended
<1> QED
  BY <1>1, <1>2, <1>3

LEMMA RightStays ==
  ASSUME TableInv,
         (\E w \in LogEntry : log' = Logged(w)) \/ UNCHANGED log,
         NEW e \in Entity, NEW v, NEW p \in 0..Len(log), Replica!RightAt(e, v, p)
  PROVE  Replica!RightAt(e, v, p)'
<1>1. /\ Len(log) \in Nat
      /\ \A n \in 1..Len(log) : log'[n] = log[n]
      /\ \A n \in Nat : Last(e, n, p)' <=> Last(e, n, p)
  BY LastStays
<1>2. CASE v = 0
  BY <1>1, <1>2 DEF Replica!RightAt, Last
<1>3. CASE v # 0
  <2>1. v \in 1..Len(log)
    BY <1>1, <1>3 DEF Replica!RightAt, Replica!IsLast
  <2> QED
    BY <1>1, <1>3, <2>1 DEF Replica!RightAt, Last
<1> QED
  BY <1>2, <1>3

LEMMA CacheStaysRight ==
  ASSUME TableInv,
         (\E w \in LogEntry : log' = Logged(w)) \/ UNCHANGED log,
         NEW e \in Entity, NEW r, r.seq \in Given, RowFor(e, r)
  PROVE  /\ r.seq = 0 => ~r.live
         /\ r.seq > 0 =>
              /\ log'[r.seq].entity = e
              /\ r.live => log'[r.seq].live
              /\ ~r.live /\ ~r.evicted => ~log'[r.seq].live
         /\ r.evicted => ~r.live
                         /\ \E p \in r.seq..Len(log') : Replica!RightAt(e, 0, p)'
<1>1. /\ Len(log) \in Nat /\ Len(log') \in Nat /\ Len(log) <= Len(log')
      /\ \A n \in 1..Len(log) : log'[n] = log[n]
      /\ r.seq \in 0..Len(log)
  BY LastStays DEF Given
<1>2. ASSUME r.evicted
      PROVE  \E p \in r.seq..Len(log') : Replica!RightAt(e, 0, p)'
  <2>1. PICK p \in r.seq..Len(log) : Replica!RightAt(e, 0, p)
    BY <1>2 DEF RowFor
  <2>2. p \in 0..Len(log) /\ p \in r.seq..Len(log')
    BY <1>1
  <2> QED
    BY <2>1, <2>2, RightStays
<1> QED
  BY <1>1, <1>2 DEF RowFor

LEMMA PageStaysRight ==
  ASSUME TableInv,
         (\E w \in LogEntry : log' = Logged(w)) \/ UNCHANGED log,
         NEW r, r.docs \in SUBSET DocRecord, NEW after \in Nat,
         NEW t \in Given, PageRight(r, after, t)
  PROVE  PageRight(r, after, t)'
<1>1. /\ Len(log) \in Nat
      /\ \A n \in 1..Len(log) : log'[n] = log[n]
      /\ \A e \in Entity, n \in Nat : Last(e, n, t)' <=> Last(e, n, t)
      /\ t \in 0..Len(log)
  BY LastStays DEF Given
<1>2. \A e, n : Last(e, n, t) => n \in 1..Len(log)
  BY <1>1 DEF Last, Replica!IsLast
<1>3. ASSUME NEW d \in r.docs PROVE DocRight(d, t)'
  <2>1. DocRight(d, t) /\ d.entity \in Entity /\ d.seq \in Nat
    BY <1>1 DEF PageRight, DocRecord, Given
  <2>2. d.seq \in 1..Len(log) /\ Last(d.entity, d.seq, t)'
    BY <1>1, <1>2, <2>1 DEF DocRight
  <2> QED
    BY <1>1, <2>1, <2>2 DEF DocRight
<1>4. ASSUME NEW e \in Entity, NEW k \in Nat, Last(e, k, t)',
             k > after, k <= r.checkpoint, log'[k].live
      PROVE  \E d \in r.docs : d.entity = e
  <2>1. Last(e, k, t) /\ log[k].live
    BY <1>1, <1>2, <1>4
  <2> QED
    BY <1>4, <2>1 DEF PageRight
<1> QED
  BY <1>3, <1>4 DEF PageRight

(* pull_entity_view: a page is right at the moment it is read.  A full page *)
(* ends at its last row in the page's order, and every row that was not     *)
(* read is numbered above it; the row that is put first does not count.     *)
LEMMA PageIsRight ==
  ASSUME TableInv, NEW after \in Given, NEW high \in Given \cup {None}, NEW prio,
         NEW reply \in PullReply(after, high, prio), ~reply.reset
  PROVE  PageRight(reply, after, Len(log))
<1> DEFINE fresh == high # None
           initialHigh == IF ~fresh THEN 0
                          ELSE IF high > 0 THEN Min({MaxSequence, high})
                          ELSE MaxSequence
           selected == Selected(after, fresh, initialHigh)
<1>0. /\ MaxSequence \in Given /\ Given \in SUBSET Nat /\ after \in Nat
      /\ \A e \in Entity : rows[e].seq \in 0..Len(log)
      /\ \A e \in Entity : rows[e].seq \in Nat
      /\ \A e \in Entity : rows[e].seq <= MaxSequence
      /\ Len(log) \in Nat
  BY Numbering DEF TableInv, TableTyped, NumbersGivenOut, Given
<1> HIDE DEF initialHigh
<1>1. PICK S \in SUBSET selected :
        /\ IsPage(S, selected, prio)
        /\ reply = [reset |-> FALSE, docs |-> DocsOf(S),
                    checkpoint |-> IF Cardinality(S) = PageLimit
                                   THEN LastSeq(S, prio) ELSE MaxSequence,
                    initialHigh |-> initialHigh, maxSeq |-> MaxSequence]
  BY DEF PullReply, ResetReply, initialHigh
<1>2. /\ reply.docs = DocsOf(S)
      /\ reply.checkpoint = IF Cardinality(S) = PageLimit
                            THEN LastSeq(S, prio) ELSE MaxSequence
  BY <1>1
<1>3. /\ selected \subseteq Entity
      /\ \A e \in selected : rows[e].seq > after
      /\ \A e \in Entity : rows[e].seq > after /\ rows[e].live => e \in selected
  BY DEF Selected
<1> HIDE DEF selected
<1>4. reply.checkpoint <= Len(log)
  BY <1>0, ReplyTyped DEF Given
<1>5. ASSUME NEW d \in reply.docs PROVE DocRight(d, Len(log))
  <2>1. PICK e \in S : d = [entity |-> e, seq |-> rows[e].seq, live |-> rows[e].live]
    BY <1>2 DEF DocsOf
  <2>2. e \in Entity /\ IsRow(rows[e])
    BY <1>0, <1>1, <1>3 DEF IsRow
  <2> QED
    BY <1>0, <2>1, <2>2, RowRight
<1>6. ASSUME NEW e \in Entity, NEW k \in Nat, Last(e, k, Len(log)),
             k > after, k <= reply.checkpoint, log[k].live
      PROVE  \E d \in reply.docs : d.entity = e
  <2>1. k \in 1..Len(log)
    BY <1>6 DEF Last, Replica!IsLast
  <2>2. IsRow(rows[e])
    BY <1>6, <2>1 DEF TableInv, TableIsTheLog, Last
  <2>3. Last(e, rows[e].seq, Len(log)) /\ rows[e].live = log[rows[e].seq].live
    BY <2>2 DEF TableInv, TableIsTheLog, Last
  <2>4. rows[e].seq = k /\ rows[e].live
    BY <1>0, <1>6, <2>3, LastUnique
  <2>5. e \in selected
    BY <1>3, <1>6, <2>4
  <2>6. SUFFICES ASSUME e \notin S PROVE FALSE
    <3> DEFINE d == [entity |-> e, seq |-> rows[e].seq, live |-> rows[e].live]
    <3>1. e \in S => d \in reply.docs
      BY <1>2 DEF DocsOf
    <3>2. d.entity = e
      OBVIOUS
    <3> QED
      BY <3>1, <3>2
  <2>7. IsFiniteSet(selected)
    BY <1>3, SyncAssumption, FS_Subset
  <2>8. /\ IsFiniteSet(S) /\ Cardinality(S) \in Nat /\ Cardinality(selected) \in Nat
        /\ Cardinality(S) <= Cardinality(selected)
        /\ (Cardinality(S) = Cardinality(selected) => S = selected)
    BY <1>1, <2>7, FS_Subset, FS_CardinalityType
  <2>9. Cardinality(S) = Min({PageLimit, Cardinality(selected)})
    BY <1>1 DEF IsPage
  <2>10. Cardinality(S) = PageLimit
    <3>1. PageLimit \in Int /\ Cardinality(selected) \in Int
      BY <2>8, SyncAssumption
    <3>2. Cardinality(S) \in {PageLimit, Cardinality(selected)}
      BY <2>9, <3>1, MinOfTwo
    <3> QED
      BY <2>5, <2>6, <2>8, <3>2
  <2>11. S # {prio} /\ S # {}
    BY <2>10, FS_EmptySet, FS_Singleton, SyncAssumption
  <2> DEFINE N == {rows[g].seq : g \in S \ {prio}}
  <2>12. N \in SUBSET (0..Len(log)) /\ N # {}
    BY <1>0, <1>1, <1>3, <2>11
  <2>13. reply.checkpoint = Max(N)
    BY <1>2, <2>10, <2>11 DEF LastSeq
  <2>14. Max(N) \in N
    BY <1>0, <2>12, MaxOf
  <2>15. PICK g \in S \ {prio} : rows[g].seq = reply.checkpoint
    BY <2>13, <2>14
  <2>16. rows[g].seq < rows[e].seq
    BY <1>1, <2>5, <2>6, <2>15 DEF IsPage
  <2>17. g \in Entity
    BY <1>1, <1>3, <2>15
  <2> QED
    BY <1>0, <1>6, <2>4, <2>15, <2>16, <2>17
<1> QED
  BY <1>4, <1>5, <1>6 DEF PageRight
-----------------------------------------------------------------------------
(* Storing rows that are right at t: nothing goes back to an older version. *)
LEMMA StoredRow ==
  ASSUME BaseInv, NEW e \in Entity, CacheRight(e),
         NEW docs \in SUBSET DocRecord, NEW t \in Given,
         \A d \in docs : DocRight(d, t)
  PROVE  LET r == Persisted(docs)[e]
         IN  /\ RowFor(e, r) /\ r.seq \in Given /\ r.seq >= cache[e].seq
             /\ \A d \in docs : d.entity = e => r.seq >= d.seq
<1> DEFINE r == Persisted(docs)[e]
<1>0. /\ Len(log) \in Nat /\ t \in Nat /\ cache[e].seq \in Given /\ Given \in SUBSET Nat
      /\ cache[e].seq \in Nat
  BY DEF BaseInv, TableInv, TableTyped, ClientTyped, Given
<1>1. CASE \A d \in docs : d.entity # e
  <2>1. r = cache[e]
    BY <1>1, PersistedSame
  <2> QED
    BY <1>0, <1>1, <2>1 DEF CacheRight
<1>2. CASE \E d \in docs : d.entity = e
  <2>1. PICK d \in docs :
          /\ d.entity = e
          /\ r = IF Supersedes(cache[e], CacheRow(d.seq, d.live, FALSE))
                 THEN cache[e] ELSE CacheRow(d.seq, d.live, FALSE)
    BY <1>2, PersistedDoc
  <2>2. /\ d.seq \in Given /\ d.seq \in Nat \ {0} /\ log[d.seq].entity = e
        /\ d.live = log[d.seq].live /\ Last(e, d.seq, t)
    BY <1>0, <2>1 DEF DocRight, Last, Replica!IsLast, DocRecord
  <2>3. ASSUME NEW c \in docs, c.entity = e PROVE c.seq = d.seq
    <3>1. Last(e, c.seq, t) /\ c.seq \in Nat
      BY <1>0, <2>3 DEF DocRight, DocRecord
    <3> QED
      BY <1>0, <2>2, <3>1, LastUnique
  <2> DEFINE in == CacheRow(d.seq, d.live, FALSE)
  <2>4. in.seq = d.seq /\ in.live = d.live /\ in.evicted = FALSE
    BY DEF CacheRow
  <2> HIDE DEF in
  <2>5. CASE Supersedes(cache[e], in)
    <3>1. r = cache[e]
      BY <2>1, <2>5 DEF in
    <3>2. cache[e].seq >= d.seq
      BY <1>0, <2>2, <2>4, <2>5 DEF Supersedes
    <3> QED
      BY <1>0, <2>3, <3>1, <3>2 DEF CacheRight
  <2>6. CASE ~Supersedes(cache[e], in)
    <3>1. r = in
      BY <2>1, <2>6 DEF in
    <3>2. cache[e].seq <= d.seq
      BY <1>0, <2>2, <2>4, <2>6 DEF Supersedes
    <3>3. RowFor(e, in)
      BY <2>2, <2>4 DEF RowFor
    <3> HIDE DEF r
    <3> QED
      BY <1>0, <2>2, <2>3, <2>4, <3>1, <3>2, <3>3 DEF r
  <2> QED
    BY <2>5, <2>6
<1> QED
  BY <1>1, <1>2

(* A live row of the table is newer than what any projection row can be. *)
LEMMA RowBound ==
  ASSUME TableInv, NEW e \in Entity, rows[e].live,
         NEW r, r.seq \in Given, RowFor(e, r)
  PROVE  /\ r.seq <= rows[e].seq
         /\ r.seq = rows[e].seq => r.live
<1>0. /\ Len(log) \in Nat /\ r.seq \in 0..Len(log) /\ rows[e].seq \in 0..Len(log)
      /\ rows[e].seq # 0
  BY DEF TableInv, TableTyped, NumbersGivenOut, LiveHasNumber, Given
<1>1. /\ Last(e, rows[e].seq, Len(log)) /\ log[rows[e].seq].live
  BY <1>0 DEF TableInv, TableIsTheLog, Last, IsRow
<1>2. r.seq <= rows[e].seq
  BY <1>0, <1>1 DEF RowFor, Last, Replica!IsLast
<1>3. ASSUME r.seq = rows[e].seq, ~r.live PROVE FALSE
  <2>1. r.evicted
    BY <1>0, <1>1, <1>3 DEF RowFor
  <2>2. PICK p \in r.seq..Len(log) : Replica!RightAt(e, 0, p)
    BY <2>1 DEF RowFor
  <2>3. Replica!IsLast(e, rows[e].seq, p) /\ rows[e].seq \in 1..p
    BY <1>0, <1>1, <1>3, <2>2 DEF Last, Replica!IsLast
  <2> QED
    BY <1>1, <2>2, <2>3 DEF Replica!RightAt
<1> QED
  BY <1>2, <1>3

LEMMA StillHeld ==
  ASSUME BaseInv, NEW e \in Entity, CacheRight(e), rows[e].live,
         NEW docs \in SUBSET DocRecord, NEW t \in Given,
         \A d \in docs : DocRight(d, t),
         \/ cache[e].seq = rows[e].seq
         \/ rows[e].seq <= t /\ \E d \in docs : d.entity = e
  PROVE  Persisted(docs)[e].seq = rows[e].seq
<1> DEFINE r == Persisted(docs)[e]
<1>0. /\ TableInv /\ Len(log) \in Nat /\ t \in 0..Len(log)
      /\ cache[e].seq \in Nat /\ rows[e].seq \in 0..Len(log) /\ rows[e].seq # 0
      /\ Given \in SUBSET Nat
  BY DEF BaseInv, TableInv, TableTyped, NumbersGivenOut, LiveHasNumber, ClientTyped, Given
<1>1. /\ RowFor(e, r) /\ r.seq \in Given /\ r.seq >= cache[e].seq
      /\ \A d \in docs : d.entity = e => r.seq >= d.seq
  BY StoredRow
<1> HIDE DEF r
<1>2. r.seq <= rows[e].seq /\ r.seq \in Nat
  BY <1>0, <1>1, RowBound
<1>3. CASE cache[e].seq = rows[e].seq
  BY <1>0, <1>1, <1>2, <1>3 DEF r
<1>4. ASSUME rows[e].seq <= t, NEW d \in docs, d.entity = e
      PROVE  r.seq = rows[e].seq
  <2>1. Last(e, d.seq, t) /\ d.seq \in Nat
    BY <1>0, <1>4 DEF DocRight, DocRecord
  <2>2. Last(e, rows[e].seq, t)
    BY <1>0, <1>4, <2>1 DEF TableInv, TableIsTheLog, IsRow, Last, Replica!IsLast
  <2>3. d.seq = rows[e].seq
    BY <1>0, <2>1, <2>2, LastUnique
  <2> QED
    BY <1>0, <1>1, <1>2, <1>4, <2>3
<1> QED
  BY <1>3, <1>4 DEF r

(* persistScopedEntities, persistStagedEntityTransfer: what a frame that is *)
(* applied leaves.  An eviction never takes a row that is still live.       *)
LEMMA FrameHolds ==
  ASSUME BaseInv, HeldInv, Applying, NEW e \in Entity
  PROVE  LET f == Head(stream.frames)
             r == Evicted(f, Persisted(f.docs))[e]
         IN  /\ RowFor(e, r)
             /\ rows[e].live /\ rows[e].seq <= Advanced(f.through, 0).seq =>
                  r.seq = rows[e].seq
<1> DEFINE f == Head(stream.frames)
           stored == Persisted(f.docs)
           r == Evicted(f, stored)[e]
<1>0. /\ TableInv /\ StreamInv /\ ClientTyped /\ stream.frames # << >>
      /\ CacheRight(e) /\ Held(e)
  BY DEF BaseInv, HeldInv, Applying
<1>1. /\ f \in FrameRecord /\ FrameRight(f)
      /\ f.through \in Given /\ f.after \in Given /\ f.docs \in SUBSET DocRecord
  BY <1>0, HeadFrame
<1>2. f.snapshot \/ (Cursor # None /\ Cursor >= f.after)
  BY DEF Applying
<1> HIDE DEF f
<1>3. /\ Len(log) \in Nat /\ Given \in SUBSET Nat /\ f.through \in 0..Len(log)
      /\ rows[e].seq \in 0..Len(log) /\ ckpt.seq \in Nat /\ f.after \in Nat
      /\ 0 \in Given
  BY <1>0, <1>1 DEF TableInv, TableTyped, NumbersGivenOut, ClientTyped, Given
<1>4. \A d \in f.docs : DocRight(d, f.through)
  BY <1>1 DEF FrameRight
<1>5. RowFor(e, stored[e]) /\ stored[e].seq \in Nat
  BY <1>0, <1>1, <1>3, <1>4, StoredRow
<1>6. RowFor(e, r)
  BY <1>1, <1>5, EvictedRight
<1>7. r.seq = stored[e].seq
  BY DEF Evicted, CacheRow
<1>8. Advanced(f.through, 0).seq = ckpt.seq \/ Advanced(f.through, 0).seq = f.through
  BY DEF Advanced
<1>9. f.after = 0 \/ f.after <= ckpt.seq
  <2>1. CASE f.snapshot
    BY <1>1, <2>1 DEF FrameRight
  <2>2. CASE ~f.snapshot
    <3>1. Cursor = ckpt.seq
      BY <1>0, <1>2, <2>2, CursorTyped
    <3> QED
      BY <1>2, <1>3, <2>2, <3>1
  <2> QED
    BY <2>1, <2>2
<1>10. ASSUME rows[e].live, rows[e].seq <= Advanced(f.through, 0).seq
       PROVE  stored[e].seq = rows[e].seq
  <2>1. CASE rows[e].seq <= ckpt.seq
    <3>1. cache[e].seq = rows[e].seq
      BY <1>0, <1>10, <2>1 DEF Held
    <3> QED
      BY <1>0, <1>1, <1>4, <1>10, <3>1, StillHeld
  <2>2. CASE rows[e].seq > ckpt.seq
    <3> DEFINE k == rows[e].seq
    <3>1. k <= f.through /\ k # 0 /\ k > f.after /\ k \in Nat
      BY <1>0, <1>3, <1>8, <1>9, <1>10, <2>2 DEF TableInv, LiveHasNumber
    <3>2. Last(e, k, Len(log)) /\ log[k].live
      BY <1>0, <1>10, <3>1 DEF TableInv, TableIsTheLog, IsRow, Last
    <3>3. Last(e, k, f.through)
      BY <1>3, <3>1, <3>2 DEF Last, Replica!IsLast
    <3>4. \E d \in f.docs : d.entity = e
      BY <1>1, <3>1, <3>2, <3>3 DEF FrameRight
    <3> QED
      BY <1>0, <1>1, <1>4, <1>10, <3>1, <3>4, StillHeld
  <2> QED
    BY <1>3, <2>1, <2>2
<1> QED
  BY <1>6, <1>7, <1>10 DEF f

(* The same for a frame of which only a part was stored. *)
LEMMA PartHolds ==
  ASSUME BaseInv, HeldInv, Applying, NEW e \in Entity,
         NEW part \in SUBSET Head(stream.frames).docs
  PROVE  LET f == Head(stream.frames)
             r == Persisted(part)[e]
             g == Evicted(f, Persisted(part))[e]
         IN  /\ RowFor(e, r) /\ RowFor(e, g) /\ g.seq = r.seq
             /\ rows[e].live /\ rows[e].seq <= ckpt.seq => r.seq = rows[e].seq
<1> DEFINE f == Head(stream.frames)
           r == Persisted(part)[e]
           g == Evicted(f, Persisted(part))[e]
<1>0. /\ TableInv /\ StreamInv /\ ClientTyped /\ stream.frames # << >>
      /\ CacheRight(e) /\ Held(e)
  BY DEF BaseInv, HeldInv, Applying
<1>1. /\ f \in FrameRecord /\ FrameRight(f)
      /\ f.through \in Given /\ f.docs \in SUBSET DocRecord
  BY <1>0, HeadFrame
<1>2. part \in SUBSET DocRecord /\ \A d \in part : DocRight(d, f.through)
  BY <1>1 DEF FrameRight
<1> HIDE DEF f
<1>3. RowFor(e, r) /\ r.seq \in Given
  BY <1>0, <1>1, <1>2, StoredRow
<1>4. r.seq \in Nat
  BY <1>0, <1>3 DEF Given, TableInv, TableTyped
<1>5. RowFor(e, g)
  BY <1>1, <1>3, <1>4, EvictedRight
<1>6. g.seq = r.seq
  BY DEF Evicted, CacheRow
<1>7. ASSUME rows[e].live, rows[e].seq <= ckpt.seq
      PROVE  r.seq = rows[e].seq
  <2>1. cache[e].seq = rows[e].seq
    BY <1>0, <1>7 DEF Held
  <2> QED
    BY <1>0, <1>1, <1>2, <1>7, <2>1, StillHeld
<1> QED
  BY <1>3, <1>5, <1>6, <1>7 DEF f

(* A page that is applied, wholly or but for its checkpoint. *)
LEMMA PageHolds ==
  ASSUME BaseInv, HeldInv, pull.at = "reply", ~pull.reply.reset, NEW e \in Entity
  PROVE  LET r == Persisted(pull.reply.docs)[e]
             c == Advanced(pull.reply.checkpoint, pull.reply.initialHigh).seq
         IN  /\ RowFor(e, r)
             /\ rows[e].live /\ rows[e].seq <= ckpt.seq => r.seq = rows[e].seq
             /\ rows[e].live /\ rows[e].seq <= c => r.seq = rows[e].seq
<1> DEFINE p == pull.reply
           c == Advanced(p.checkpoint, p.initialHigh).seq
           r == Persisted(p.docs)[e]
<1>0. TableInv /\ ClientTyped /\ PullTyped /\ CacheRight(e) /\ Held(e)
  BY DEF BaseInv, HeldInv
<1>1. PICK t \in Given : PageRight(p, pull.after, t)
  BY DEF HeldInv, ReplyRight
<1>2. /\ p.checkpoint \in Given /\ p.docs \in SUBSET DocRecord
      /\ pull.after \in Given /\ pull.after <= ckpt.seq
  BY <1>0 DEF PullTyped, DocRecord, HeldInv, AskedBehind
<1>3. \A d \in p.docs : DocRight(d, t)
  BY <1>1 DEF PageRight
<1>4. /\ Len(log) \in Nat /\ Given \in SUBSET Nat /\ t \in 0..Len(log)
      /\ rows[e].seq \in 0..Len(log) /\ ckpt.seq \in Nat
      /\ p.checkpoint \in Nat /\ pull.after \in Nat
  BY <1>0, <1>2 DEF TableInv, TableTyped, NumbersGivenOut, ClientTyped, Given
<1>5. RowFor(e, r)
  BY <1>0, <1>2, <1>3, StoredRow
<1>6. ASSUME rows[e].live, rows[e].seq <= ckpt.seq
      PROVE  r.seq = rows[e].seq
  <2>1. cache[e].seq = rows[e].seq
    BY <1>0, <1>6 DEF Held
  <2> QED
    BY <1>0, <1>2, <1>3, <1>6, <2>1, StillHeld
<1>7. c = ckpt.seq \/ c = p.checkpoint
  BY DEF Advanced
<1>8. ASSUME rows[e].live, rows[e].seq <= c, rows[e].seq > ckpt.seq
      PROVE  r.seq = rows[e].seq
  <2> DEFINE k == rows[e].seq
  <2>1. k <= p.checkpoint /\ p.checkpoint <= t /\ k # 0 /\ k > pull.after
        /\ k \in Nat /\ k <= t
    BY <1>0, <1>1, <1>2, <1>4, <1>7, <1>8 DEF TableInv, LiveHasNumber, PageRight
  <2>2. Last(e, k, Len(log)) /\ log[k].live
    BY <1>0, <1>8, <2>1 DEF TableInv, TableIsTheLog, IsRow, Last
  <2>3. Last(e, k, t)
    BY <1>4, <2>1, <2>2 DEF Last, Replica!IsLast
  <2>4. \E d \in p.docs : d.entity = e
    BY <1>1, <2>1, <2>2, <2>3 DEF PageRight
  <2> QED
    BY <1>0, <1>2, <1>3, <1>8, <2>1, <2>4, StillHeld
<1> QED
  BY <1>4, <1>5, <1>6, <1>8

-----------------------------------------------------------------------------
(* A step that writes only the projection. *)
LEMMA RowsKept ==
  ASSUME UNCHANGED <<rows, log>>,
         \A e \in Entity : RowFor(e, cache'[e]),
         \A e \in Entity : rows[e].live /\ rows[e].seq <= ckpt'.seq =>
                             cache'[e].seq = rows[e].seq
  PROVE  \A e \in Entity : CacheRight(e)' /\ Held(e)'
BY DEF CacheRight, RowFor, Held, Replica!RightAt, Replica!IsLast

LEMMA ResetKept ==
  ASSUME BaseInv, HeldInv, ResetProjection, UNCHANGED <<rows, log>>
  PROVE  \A e \in Entity : CacheRight(e)' /\ Held(e)'
<1>1. ckpt'.seq = 0
  BY DEF ResetProjection
<1>2. ASSUME NEW e \in Entity PROVE RowFor(e, cache'[e])
  <2>1. cache'[e] = IF cache[e].live THEN NoCacheRow ELSE cache[e]
    BY DEF ResetProjection
  <2>2. RowFor(e, NoCacheRow)
    BY DEF RowFor, NoCacheRow, CacheRow
  <2>3. RowFor(e, cache[e])
    BY DEF HeldInv, CacheRight
  <2> QED
    BY <2>1, <2>2, <2>3
<1>3. \A e \in Entity : rows[e].live => ~(rows[e].seq <= 0)
  BY DEF BaseInv, TableInv, TableTyped, LiveHasNumber
<1> QED
  BY <1>1, <1>2, <1>3, RowsKept

LEMMA HeldStep ==
  ASSUME BaseInv, HeldInv, [Next]_vars
  PROVE  \A e \in Entity : CacheRight(e)' /\ Held(e)'
<1>0. TableInv /\ ClientTyped /\ \A e \in Entity : CacheRight(e) /\ Held(e)
  BY DEF BaseInv, HeldInv
<1>1. ASSUME UNCHANGED <<rows, log, projection>>
      PROVE  \A e \in Entity : CacheRight(e)' /\ Held(e)'
  BY <1>0, <1>1 DEF projection, CacheRight, RowFor, Held, Replica!RightAt, Replica!IsLast
<1>2. ASSUME UNCHANGED <<cache, ckpt>>,
             \A e \in Entity :
               \/ rows'[e].live => rows'[e] = rows[e]
               \/ rows'[e].seq \in Nat /\ rows'[e].seq > Len(log)
      PROVE  \A e \in Entity : CacheRight(e)' /\ Held(e)'
  <2> SUFFICES ASSUME NEW e \in Entity PROVE CacheRight(e)' /\ Held(e)'
    OBVIOUS
  <2>1. cache[e].seq \in Given /\ RowFor(e, cache[e])
    BY <1>0 DEF ClientTyped, CacheRight
  <2>2. CacheRight(e)'
    BY <1>0, <1>2, <2>1, LogGrows, CacheStaysRight DEF CacheRight, RowFor
  <2>3. ckpt.seq \in 0..Len(log) /\ Len(log) \in Nat
    BY <1>0 DEF ClientTyped, Given, TableInv, TableTyped
  <2>4. Held(e)'
    BY <1>0, <1>2, <2>3 DEF Held
  <2> QED
    BY <2>2, <2>4
<1>3. CASE Write
  <2>1. UNCHANGED <<cache, ckpt>>
    BY <1>3 DEF Write, PutEntity, PutUnscoped, WriteElsewhere, DeleteElsewhere, projection
  <2>2. CASE PutUnscoped \/ WriteElsewhere \/ DeleteElsewhere
    BY <1>2, <2>1, <2>2 DEF PutUnscoped, WriteElsewhere, DeleteElsewhere
  <2>3. ASSUME NEW e \in Entity, NEW live \in BOOLEAN, PutEntity(e, live)
        PROVE  \A g \in Entity : \/ rows'[g] = rows[g]
                                 \/ rows'[g].seq \in Nat /\ rows'[g].seq > Len(log)
    <3>1. rows' = [rows EXCEPT ![e] = Row(NextSequence, live)]
      BY <2>3 DEF PutEntity
    <3>2. NextSequence \in Nat /\ NextSequence > Len(log)
      BY <1>0, Numbering
    <3> QED
      BY <1>0, <3>1, <3>2 DEF TableInv, TableTyped, Row
  <2> QED
    BY <1>2, <1>3, <2>1, <2>2, <2>3 DEF Write
<1>4. CASE Prune
  <2>1. UNCHANGED <<cache, ckpt, log>>
    BY <1>4 DEF Prune, PruneDue, PruneBatchOnce, projection
  <2>2. CASE UNCHANGED rows
    BY <1>2, <2>1, <2>2
  <2>3. ASSUME NEW S, rows' = [e \in Entity |-> IF e \in S THEN NoRow ELSE rows[e]]
        PROVE  \A e \in Entity : rows'[e].live => rows'[e] = rows[e]
    BY <2>3 DEF NoRow, Row
  <2>4. \/ UNCHANGED rows
        \/ \E S : rows' = [e \in Entity |-> IF e \in S THEN NoRow ELSE rows[e]]
    BY <1>4 DEF Prune, PruneDue, PruneBatchOnce
  <2> QED
    BY <1>2, <2>1, <2>2, <2>3, <2>4
<1>5. CASE RefreshStart
  <2>1. CASE ResetProjection
    BY <1>5, <2>1, ResetKept DEF RefreshStart, table
  <2>2. CASE UNCHANGED projection
    BY <1>1, <1>5, <2>2 DEF RefreshStart, table
  <2> QED
    BY <1>5, <2>1, <2>2 DEF RefreshStart
<1>6. CASE PullRequest \/ PullAnswer \/ PullFails \/ Reacquire \/ EpochChanged
  BY <1>1, <1>6 DEF PullRequest, PullAnswer, PullFails, Reacquire, EpochChanged, table
<1>7. CASE PullReset
  BY <1>7, ResetKept DEF PullReset, table
<1>8. CASE PullApply
  <2>1. /\ pull.at = "reply" /\ ~pull.reply.reset /\ UNCHANGED <<rows, log>>
        /\ cache' = Persisted(pull.reply.docs)
        /\ ckpt' = Advanced(pull.reply.checkpoint, pull.reply.initialHigh)
    BY <1>8 DEF PullApply, table
  <2> QED
    BY <2>1, PageHolds, RowsKept
<1>9. CASE PullInterrupted
  <2>1. /\ pull.at = "reply" /\ ~pull.reply.reset /\ UNCHANGED <<rows, log, ckpt>>
        /\ cache' = Persisted({}) \/ cache' = Persisted(pull.reply.docs)
    BY <1>9 DEF PullInterrupted, table
  <2>2. CASE cache' = Persisted(pull.reply.docs)
    BY <2>1, <2>2, PageHolds, RowsKept
  <2>3. CASE cache' = Persisted({})
    <3>1. \A e \in Entity : cache'[e] = cache[e]
      BY <2>3, PersistedSame
    <3> QED
      BY <1>0, <2>1, <3>1, RowsKept DEF CacheRight, Held
  <2> QED
    BY <2>1, <2>2, <2>3
<1>10. CASE PullFinish
  <2>1. UNCHANGED <<rows, log, cache, ckpt>>
    BY <1>10 DEF PullFinish, table
  <2> QED
    BY <1>2, <2>1
<1>11. CASE Subscribe \/ SendFrame \/ Disconnect
  BY <1>1, <1>11 DEF Subscribe, SendFrame, Disconnect, table
<1>12. CASE ApplyFrame
  <2>1. CASE UNCHANGED projection
    BY <1>1, <1>12, <2>1 DEF ApplyFrame, table
  <2>2. CASE ~UNCHANGED projection
    <3>1. /\ Applying /\ UNCHANGED <<rows, log>>
          /\ cache' = Evicted(Head(stream.frames), Persisted(Head(stream.frames).docs))
          /\ ckpt' = Advanced(Head(stream.frames).through, 0)
      <4> DEFINE f == Head(stream.frames)
      <4>1. f.through \in Nat /\ f.after \in Nat
        <5>1. f \in FrameRecord
          BY <1>12, HeadFrame DEF ApplyFrame, BaseInv
        <5> QED
          BY <5>1 DEF FrameRecord
      <4>2. Cursor \in Int
        BY <1>0, CursorTyped DEF Given, TableInv, TableTyped, None
      <4> QED
        BY <1>12, <2>2, <4>1, <4>2 DEF ApplyFrame, Applying, table
    <3> QED
      BY <3>1, FrameHolds, RowsKept
  <2> QED
    BY <2>1, <2>2
<1>13. CASE FrameInterrupted
  <2> DEFINE f == Head(stream.frames)
  <2>1. Applying /\ UNCHANGED <<rows, log>>
    BY <1>13 DEF FrameInterrupted, table
  <2>2. ASSUME NEW part \in SUBSET f.docs, NEW gone,
               cache' = [e \in Entity |-> IF e \in gone
                                          THEN Evicted(f, Persisted(part))[e]
                                          ELSE Persisted(part)[e]],
               UNCHANGED ckpt
        PROVE  \A e \in Entity : CacheRight(e)' /\ Held(e)'
    <3>1. \A e \in Entity :
            /\ RowFor(e, Persisted(part)[e])
            /\ RowFor(e, Evicted(f, Persisted(part))[e])
            /\ Evicted(f, Persisted(part))[e].seq = Persisted(part)[e].seq
            /\ rows[e].live /\ rows[e].seq <= ckpt.seq =>
                 Persisted(part)[e].seq = rows[e].seq
      BY <2>1, <2>2, PartHolds
    <3>2. \A e \in Entity : \/ cache'[e] = Persisted(part)[e]
                            \/ cache'[e] = Evicted(f, Persisted(part))[e]
      BY <2>2
    <3> QED
      BY <2>1, <2>2, <3>1, <3>2, RowsKept
  <2>3. CASE /\ cache' = Evicted(f, Persisted(f.docs))
             /\ ckpt' = Advanced(f.through, 0)
    BY <2>1, <2>3, FrameHolds, RowsKept
  <2> QED
    BY <1>13, <2>2, <2>3 DEF FrameInterrupted
<1>14. CASE UNCHANGED vars
  BY <1>1, <1>14 DEF vars, table
<1> QED
  BY <1>3, <1>4, <1>5, <1>6, <1>7, <1>8, <1>9, <1>10, <1>11, <1>12, <1>13, <1>14
     DEF Next, Pull, Stream

(* While a request or its answer is under way nothing resets the            *)
(* checkpoint, and everything else raises it.                               *)
LEMMA AskedStep ==
  ASSUME BaseInv, AskedBehind, [Next]_vars
  PROVE  AskedBehind'
<1>0. /\ TableInv /\ ClientTyped /\ PullTyped /\ ckpt.seq \in Nat
      /\ Given \in SUBSET Nat
  BY DEF BaseInv, ClientTyped, TableInv, TableTyped, Given
<1>1. ASSUME pull'.at \in {"request", "reply"} =>
               pull.at \in {"request", "reply"} /\ pull'.after = pull.after,
             ckpt'.seq >= ckpt.seq, ckpt'.seq \in Nat
      PROVE  AskedBehind'
  <2>1. pull.at \in {"request", "reply"} => pull.after \in Nat /\ pull.after <= ckpt.seq
    BY <1>0 DEF PullTyped, AskedBehind
  <2> QED
    BY <1>0, <1>1, <2>1 DEF AskedBehind
<1>2. ASSUME pull'.at \in {"idle", "loop", "finish"} PROVE AskedBehind'
  BY <1>2 DEF AskedBehind
<1>3. CASE Write \/ Prune
  <2>1. UNCHANGED <<pull, ckpt>>
    BY <1>3 DEF Write, Prune, PutEntity, PutUnscoped, WriteElsewhere, DeleteElsewhere, PruneDue, PruneBatchOnce,
       projection
  <2> QED
    BY <1>0, <1>1, <2>1
<1>4. CASE RefreshStart \/ PullReset \/ PullApply \/ PullInterrupted \/ PullFinish
           \/ Reacquire \/ EpochChanged
  BY <1>2, <1>4 DEF RefreshStart, PullReset, PullApply, PullInterrupted, PullFinish,
     Reacquire, EpochChanged, Loop, Idle
<1>5. CASE PullRequest
  <2>1. pull'.after = ckpt.seq /\ UNCHANGED ckpt
    BY <1>5 DEF PullRequest, projection
  <2> QED
    BY <1>0, <2>1 DEF AskedBehind
<1>6. CASE PullAnswer
  <2>1. pull.at = "request" /\ pull'.after = pull.after /\ UNCHANGED ckpt
    BY <1>6 DEF PullAnswer, projection
  <2> QED
    BY <1>0, <1>1, <2>1
<1>7. CASE PullFails
  BY <1>0, <1>1, <1>7 DEF PullFails, projection, Idle
<1>8. CASE Subscribe \/ SendFrame \/ Disconnect
  BY <1>0, <1>1, <1>8 DEF Subscribe, SendFrame, Disconnect, projection
<1>9. CASE ApplyFrame \/ FrameInterrupted
  <2> DEFINE f == Head(stream.frames)
  <2>1. stream.frames # << >> /\ UNCHANGED pull
    BY <1>9 DEF ApplyFrame, FrameInterrupted, Applying
  <2>2. f.through \in Given /\ 0 \in Given
    BY <1>0, <2>1, HeadFrame DEF BaseInv, Given, TableInv, TableTyped
  <2>3. /\ Advanced(f.through, 0).seq >= ckpt.seq /\ Advanced(f.through, 0).seq \in Nat
    BY <1>0, <2>2, AdvancedTyped
  <2>4. UNCHANGED ckpt \/ ckpt' = Advanced(f.through, 0)
    BY <1>9 DEF ApplyFrame, FrameInterrupted, projection
  <2> QED
    BY <1>0, <1>1, <2>1, <2>3, <2>4
<1>10. CASE UNCHANGED vars
  BY <1>0, <1>1, <1>10 DEF vars, projection
<1> QED
  BY <1>3, <1>4, <1>5, <1>6, <1>7, <1>8, <1>9, <1>10 DEF Next, Pull, Stream

LEMMA ReplyStep ==
  ASSUME BaseInv, ReplyRight, [Next]_vars
  PROVE  ReplyRight'
<1>0. /\ TableInv /\ PullTyped /\ Given \in SUBSET Nat
      /\ (\E w \in LogEntry : log' = Logged(w)) \/ UNCHANGED log
      /\ Given \subseteq Given'
  BY LogGrows DEF BaseInv, TableInv, TableTyped, Given
<1>1. ASSUME UNCHANGED pull PROVE ReplyRight'
  <2> SUFFICES ASSUME pull.at = "reply", ~pull.reply.reset
               PROVE  \E t \in Given' : PageRight(pull.reply, pull.after, t)'
    BY <1>1 DEF ReplyRight, PageRight, DocRight, Last, Replica!IsLast
  <2>1. PICK r, after : r = pull.reply /\ after = pull.after
    OBVIOUS
  <2>2. PICK t \in Given : PageRight(r, after, t)
    BY <2>1 DEF ReplyRight
  <2>3. r.docs \in SUBSET DocRecord /\ after \in Nat
    BY <1>0, <2>1 DEF PullTyped, DocRecord
  <2>4. PageRight(r, after, t)'
    BY <1>0, <2>2, <2>3, PageStaysRight
  <2>5. r = pull'.reply /\ after = pull'.after
    BY <1>1, <2>1
  <2> QED
    BY <1>0, <2>2, <2>4, <2>5 DEF PageRight
<1>2. ASSUME pull'.at # "reply" PROVE ReplyRight'
  BY <1>2 DEF ReplyRight
<1>3. CASE PullAnswer
  <2>0. pull.after \in Given /\ pull.high \in Given \cup {None} /\ UNCHANGED <<log, rows>>
    BY <1>0, <1>3 DEF PullAnswer, PullTyped, table
  <2>1. PICK prio : \E reply \in PullReply(pull.after, pull.high, prio) :
          pull' = [at |-> "reply", mark |-> pull.mark, kind |-> pull.kind,
                   after |-> pull.after, high |-> pull.high, reply |-> reply]
    BY <1>3 DEF PullAnswer
  <2>2. PICK reply \in PullReply(pull.after, pull.high, prio) :
          pull' = [at |-> "reply", mark |-> pull.mark, kind |-> pull.kind,
                   after |-> pull.after, high |-> pull.high, reply |-> reply]
    BY <2>1
  <2>3. pull'.reply = reply /\ pull'.after = pull.after
    BY <2>2
  <2>4. ~reply.reset => PageRight(reply, pull.after, Len(log))
    BY <1>0, <2>0, PageIsRight
  <2>5. Len(log) \in Given'
    BY <1>0, <2>0 DEF Given, TableInv, TableTyped
  <2>6. ~reply.reset => PageRight(pull.reply, pull.after, Len(log))'
    BY <2>0, <2>3, <2>4 DEF PageRight, DocRight, Last, Replica!IsLast
  <2> QED
    BY <2>0, <2>3, <2>5, <2>6 DEF ReplyRight
<1>4. CASE Write \/ Prune \/ Stream \/ UNCHANGED vars
  BY <1>1, <1>4 DEF Write, Prune, PutEntity, PutUnscoped, WriteElsewhere, DeleteElsewhere, PruneDue,
     PruneBatchOnce, Stream, Subscribe, SendFrame, ApplyFrame, FrameInterrupted,
     Disconnect, vars
<1>5. CASE RefreshStart \/ PullRequest \/ PullFails \/ PullReset \/ PullApply
           \/ PullInterrupted \/ PullFinish \/ Reacquire \/ EpochChanged
  BY <1>2, <1>5 DEF RefreshStart, PullRequest, PullFails, PullReset, PullApply,
     PullInterrupted, PullFinish, Reacquire, EpochChanged, Loop, Idle
<1> QED
  BY <1>3, <1>4, <1>5 DEF Next, Pull

LEMMA HeldAlways == Spec => [](BaseInv /\ HeldInv)
<1>1. Init => BaseInv /\ HeldInv
  <2> SUFFICES ASSUME Init PROVE HeldInv
    BY BaseInit
  <2>1. /\ pull.at = "idle"
        /\ \A e \in Entity : ~rows[e].live /\ cache[e] = NoCacheRow
    BY DEF Init, Idle, NoRow, Row
  <2>2. \A e \in Entity : CacheRight(e)
    BY <2>1 DEF CacheRight, RowFor, NoCacheRow, CacheRow
  <2> QED
    BY <2>1, <2>2 DEF HeldInv, Held, AskedBehind, ReplyRight
<1>2. BaseInv /\ HeldInv /\ [Next]_vars => (BaseInv /\ HeldInv)'
  <2> SUFFICES ASSUME BaseInv, HeldInv, [Next]_vars PROVE HeldInv'
    BY BaseStep
  <2>1. AskedBehind' /\ ReplyRight'
    BY AskedStep, ReplyStep DEF HeldInv
  <2>2. \A e \in Entity : CacheRight(e)' /\ Held(e)'
    BY HeldStep
  <2> QED
    BY <2>1, <2>2 DEF HeldInv
<1> QED
  BY <1>1, <1>2, PTL DEF Spec

(* No live entity is missing from a projection that is fed by pulls, by the *)
(* stream or by both at once (refresh, persistScopedEntities): what is live *)
(* and numbered up to the checkpoint is shown in its present version,       *)
(* however pages, frames, resets, interruptions and pruning interleave.     *)
THEOREM NeverMissing == Spec => []NothingMissing
<1>1. BaseInv /\ HeldInv => NothingMissing
  <2> SUFFICES ASSUME BaseInv, HeldInv, NEW e \in Entity,
                      rows[e].live, rows[e].seq <= ckpt.seq
               PROVE  View[e] = rows[e].seq
    BY DEF NothingMissing
  <2>1. cache[e].seq = rows[e].seq /\ CacheRight(e)
    BY DEF HeldInv, Held
  <2>2. cache[e].live
    BY <2>1, RowBound DEF BaseInv, ClientTyped, CacheRight
  <2> QED
    BY <2>1, <2>2 DEF View
<1> QED
  BY <1>1, HeldAlways, PTL

-----------------------------------------------------------------------------
(* A client fed by pulls alone, whose pages hold the table and whose table  *)
(* is never pruned.  Without these the pull path does leave deleted         *)
(* entities in the projection.                                              *)
WholePages ==
  /\ Paths = {"pull"}
  /\ Cardinality(Entity) < PageLimit
  /\ Cardinality(Entity) <= TombstoneLimit

NotPruned == ~pruning /\ floor = 0

(* A page that holds the table was read when the log was t long: its        *)
(* checkpoint is above every row, and the only rows after the request's     *)
(* number that it leaves out are deletions up to initialHigh.               *)
WholeRight(r, after, high, t) ==
  /\ after <= r.checkpoint /\ r.checkpoint <= t /\ r.maxSeq = r.checkpoint
  /\ \A d \in r.docs : DocRight(d, t)
  /\ \A e \in Entity, k \in Nat :
       Last(e, k, t) =>
         /\ k <= r.checkpoint
         /\ k > after /\ (high = None \/ log[k].live \/ k > r.initialHigh) =>
              \E d \in r.docs : d.entity = e
  /\ high # None => r.initialHigh = IF high > 0 THEN high ELSE r.checkpoint
  /\ high <= r.checkpoint

(* The markers of an unfinished bootstrap stay behind its checkpoint. *)
Markers ==
  /\ ckpt.seq <= MaxSequence /\ marker <= MaxSequence
  /\ ready # "resetting"
  /\ ckpt.seq = 0 => ckpt.high = 0
  /\ ~complete /\ ckpt.seq > 0 => 1 <= marker /\ marker <= ckpt.seq

(* What a refresh under way remembers is what the projection says. *)
Asked ==
  /\ pull.at \in {"loop", "request", "reply"} =>
       (pull.high = None <=> complete) /\ pull.mark = marker
  /\ pull.at \in {"request", "reply"} =>
       /\ pull.after = ckpt.seq
       /\ pull.high # None => pull.high = IF marker = None THEN 0 ELSE marker
  /\ pull.at = "reply" =>
       /\ ~pull.reply.reset
       /\ pull.reply.checkpoint <= MaxSequence
       /\ \E t \in Given : WholeRight(pull.reply, pull.after, pull.high, t)

(* A projection with a checkpoint is right since then; rows that an         *)
(* interrupted bootstrap has left are right since its marker.               *)
RightSinceBasis ==
  /\ complete \/ ckpt.seq > 0 \/ pull.at = "finish" =>
       \A e \in Entity : Replica!RightSince(e, View[e], ckpt.seq)
  /\ ~complete /\ ckpt.seq = 0 =>
       \A e \in Entity : View[e] # 0 =>
         marker >= 1 /\ Replica!RightSince(e, View[e], marker)

FedByPull ==
  /\ stream = Closed
  /\ NotPruned
  /\ Markers
  /\ Asked
  /\ RightSinceBasis

LEMMA NumbersTyped ==
  BaseInv => /\ Len(log) \in Nat /\ Given = 0..Len(log) /\ Given \in SUBSET Nat
             /\ MaxSequence \in Nat /\ MaxSequence <= Len(log)
             /\ ckpt.seq \in Nat /\ ckpt.seq <= Len(log)
             /\ marker \in Int /\ (marker # None => marker \in Nat)
             /\ marker <= Len(log)
             /\ \A e \in Entity : cache[e].seq \in Nat
             /\ \A e \in Entity : rows[e].seq \in Nat
<1> SUFFICES ASSUME BaseInv
             PROVE  /\ Len(log) \in Nat /\ Given = 0..Len(log) /\ Given \in SUBSET Nat
                    /\ MaxSequence \in Nat /\ MaxSequence <= Len(log)
                    /\ ckpt.seq \in Nat /\ ckpt.seq <= Len(log)
                    /\ marker \in Int /\ (marker # None => marker \in Nat)
                    /\ marker <= Len(log)
                    /\ \A e \in Entity : cache[e].seq \in Nat
                    /\ \A e \in Entity : rows[e].seq \in Nat
  OBVIOUS
<1>1. Len(log) \in Nat /\ Given = 0..Len(log) /\ Given \in SUBSET Nat
  BY DEF BaseInv, TableInv, TableTyped, Given
<1>2. MaxSequence \in 0..Len(log)
  BY Numbering DEF BaseInv
<1>3. /\ ckpt.seq \in Given /\ marker \in Given \cup {None}
      /\ \A e \in Entity : cache[e].seq \in Given
  BY DEF BaseInv, ClientTyped
<1>4. \A e \in Entity : rows[e].seq \in Nat
  BY DEF BaseInv, TableInv, TableTyped
<1> QED
  BY <1>1, <1>2, <1>3, <1>4 DEF None

LEMMA SinceEarlier ==
  ASSUME NEW e, NEW v, NEW c \in Int, NEW b \in Int, b <= c, Len(log) \in Nat,
         Replica!RightSince(e, v, c)
  PROVE  Replica!RightSince(e, v, b)
<1>1. PICK p \in c..Len(log) : Replica!RightAt(e, v, p)
  BY DEF Replica!RightSince
<1>2. p \in b..Len(log)
  OBVIOUS
<1> QED
  BY <1>1, <1>2 DEF Replica!RightSince

LEMMA SinceStays ==
  ASSUME TableInv, (\E w \in LogEntry : log' = Logged(w)) \/ UNCHANGED log,
         NEW e \in Entity, NEW v, NEW c \in Nat, Replica!RightSince(e, v, c)
  PROVE  Replica!RightSince(e, v, c)'
<1>1. PICK p \in c..Len(log) : Replica!RightAt(e, v, p)
  BY DEF Replica!RightSince
<1>2. Len(log) \in Nat /\ Len(log') \in Nat /\ Len(log) <= Len(log')
  BY LastStays
<1>3. p \in 0..Len(log) /\ p \in c..Len(log')
  BY <1>2
<1>4. Replica!RightAt(e, v, p)'
  BY <1>1, <1>3, RightStays
<1> QED
  BY <1>3, <1>4 DEF Replica!RightSince

(* An entity that is not written between two positions. *)
LEMMA Silent ==
  ASSUME NEW e \in Entity, NEW v, NEW p \in Nat, NEW t \in Nat, p <= t,
         \A m \in p + 1..t : log[m].entity # e,
         Replica!RightAt(e, v, p)
  PROVE  Replica!RightAt(e, v, t)
<1>1. \A n \in Nat : Replica!IsLast(e, n, t) <=> Replica!IsLast(e, n, p)
  BY DEF Replica!IsLast
<1>2. CASE v = 0
  BY <1>1, <1>2 DEF Replica!RightAt, Replica!IsLast
<1>3. CASE v # 0
  <2>1. v \in Nat
    BY <1>3 DEF Replica!RightAt, Replica!IsLast
  <2> QED
    BY <1>1, <1>3, <2>1 DEF Replica!RightAt
<1> QED
  BY <1>2, <1>3

(* pull_entity_view of a page that holds the table. *)
LEMMA WholeIsRight ==
  ASSUME WholePages, TableInv, floor = 0,
         NEW after \in Given, after <= MaxSequence,
         NEW high \in Given \cup {None}, high <= MaxSequence, NEW prio,
         NEW reply \in PullReply(after, high, prio)
  PROVE  /\ ~reply.reset
         /\ reply.checkpoint = MaxSequence
         /\ WholeRight(reply, after, high, Len(log))
<1> DEFINE fresh == high # None
           initialHigh == IF ~fresh THEN 0
                          ELSE IF high > 0 THEN Min({MaxSequence, high})
                          ELSE MaxSequence
           selected == Selected(after, fresh, initialHigh)
<1>0. /\ MaxSequence \in Given /\ Given \in SUBSET Nat /\ after \in Nat
      /\ MaxSequence \in Nat
      /\ \A e \in Entity : rows[e].seq \in 0..MaxSequence
      /\ \A e \in Entity : rows[e].seq \in Nat
      /\ Len(log) \in Nat /\ MaxSequence <= Len(log)
  BY Numbering DEF TableInv, TableTyped, NumbersGivenOut, Given
<1>1. ~(~fresh /\ after > 0 /\ (after < floor \/ after > MaxSequence))
  BY <1>0
<1>2. fresh => initialHigh = IF high > 0 THEN high ELSE MaxSequence
  <2> SUFFICES ASSUME fresh, high > 0 PROVE Min({MaxSequence, high}) = high
    OBVIOUS
  <2>1. high \in Int /\ MaxSequence \in Int
    BY <1>0
  <2> QED
    BY <2>1, MinOfTwo
<1> HIDE DEF initialHigh
<1>3. PICK S \in SUBSET selected :
        /\ IsPage(S, selected, prio)
        /\ reply = [reset |-> FALSE, docs |-> DocsOf(S),
                    checkpoint |-> IF Cardinality(S) = PageLimit
                                   THEN LastSeq(S, prio) ELSE MaxSequence,
                    initialHigh |-> initialHigh, maxSeq |-> MaxSequence]
  BY <1>1 DEF PullReply, initialHigh
<1>4. /\ selected \subseteq Entity
      /\ \A e \in selected : rows[e].seq > after
      /\ \A e \in Entity :
           /\ rows[e].seq > after
           /\ rows[e].live \/ rows[e].seq > floor
           /\ ~fresh \/ rows[e].live \/ rows[e].seq > initialHigh
           => e \in selected
  BY DEF Selected
<1> HIDE DEF selected
<1>5. IsFiniteSet(selected) /\ IsFiniteSet(Entity)
      /\ Cardinality(selected) <= Cardinality(Entity)
      /\ Cardinality(Entity) \in Nat /\ Cardinality(selected) \in Nat
  BY <1>4, SyncAssumption, FS_Subset, FS_CardinalityType
<1>6. Cardinality(S) # PageLimit /\ S = selected
  <2>1. PageLimit \in Int /\ Cardinality(selected) \in Int
    BY <1>5, SyncAssumption
  <2>2. Cardinality(S) \in {PageLimit, Cardinality(selected)}
        /\ Cardinality(S) <= Cardinality(selected)
    BY <1>3, <2>1, MinOfTwo DEF IsPage
  <2>3. Cardinality(selected) < PageLimit
    BY <1>5, <2>1 DEF WholePages
  <2>4. Cardinality(S) = Cardinality(selected) => S = selected
    BY <1>3, <1>5, FS_Subset
  <2> QED
    BY <2>1, <2>2, <2>3, <2>4
<1>7. /\ ~reply.reset /\ reply.checkpoint = MaxSequence /\ reply.maxSeq = MaxSequence
      /\ reply.initialHigh = initialHigh /\ reply.docs = DocsOf(S)
  BY <1>3, <1>6
<1>8. ASSUME NEW d \in reply.docs PROVE DocRight(d, Len(log))
  <2>1. PICK e \in S : d = [entity |-> e, seq |-> rows[e].seq, live |-> rows[e].live]
    BY <1>7 DEF DocsOf
  <2>2. e \in Entity /\ IsRow(rows[e]) /\ rows[e].seq <= Len(log)
    BY <1>0, <1>3, <1>4 DEF IsRow
  <2> QED
    BY <1>0, <2>1, <2>2, RowRight
<1>9. ASSUME NEW e \in Entity, NEW k \in Nat, Last(e, k, Len(log))
      PROVE  /\ k <= reply.checkpoint
             /\ k > after /\ (high = None \/ log[k].live \/ k > reply.initialHigh) =>
                  \E d \in reply.docs : d.entity = e
  <2>1. k \in 1..Len(log)
    BY <1>9 DEF Last, Replica!IsLast
  <2>2. IsRow(rows[e])
    BY <1>9, <2>1 DEF TableInv, TableIsTheLog, Last
  <2>3. Last(e, rows[e].seq, Len(log)) /\ rows[e].live = log[rows[e].seq].live
    BY <2>2 DEF TableInv, TableIsTheLog, Last
  <2>4. rows[e].seq = k /\ rows[e].live = log[k].live
    BY <1>0, <1>9, <2>3, LastUnique
  <2>5. k <= reply.checkpoint
    BY <1>0, <1>7, <2>4
  <2>6. ASSUME k > after, high = None \/ log[k].live \/ k > reply.initialHigh
        PROVE  \E d \in reply.docs : d.entity = e
    <3> DEFINE d == [entity |-> e, seq |-> rows[e].seq, live |-> rows[e].live]
    <3>1. rows[e].seq > after /\ rows[e].seq > floor
      BY <1>0, <2>4, <2>6
    <3>2. ~fresh \/ rows[e].live \/ rows[e].seq > initialHigh
      BY <1>7, <2>4, <2>6
    <3>3. e \in S
      BY <1>4, <1>6, <3>1, <3>2
    <3>4. d \in reply.docs
      BY <1>7, <3>3 DEF DocsOf
    <3>5. d.entity = e
      OBVIOUS
    <3> QED
      BY <3>4, <3>5
  <2> QED
    BY <2>5, <2>6
<1>10. high <= MaxSequence
  OBVIOUS
<1> QED
  BY <1>0, <1>2, <1>7, <1>8, <1>9 DEF WholeRight

LEMMA WholeStaysRight ==
  ASSUME TableInv,
         (\E w \in LogEntry : log' = Logged(w)) \/ UNCHANGED log,
         NEW r, r.docs \in SUBSET DocRecord, NEW after \in Nat, NEW high,
         NEW t \in Given, WholeRight(r, after, high, t)
  PROVE  WholeRight(r, after, high, t)'
<1>1. /\ Len(log) \in Nat
      /\ \A n \in 1..Len(log) : log'[n] = log[n]
      /\ \A e \in Entity, n \in Nat : Last(e, n, t)' <=> Last(e, n, t)
      /\ t \in 0..Len(log)
  BY LastStays DEF Given
<1>2. \A e, n : Last(e, n, t) => n \in 1..Len(log)
  BY <1>1 DEF Last, Replica!IsLast
<1>3. ASSUME NEW d \in r.docs PROVE DocRight(d, t)'
  <2>1. DocRight(d, t) /\ d.entity \in Entity /\ d.seq \in Nat
    BY <1>1 DEF WholeRight, DocRecord, Given
  <2>2. d.seq \in 1..Len(log) /\ Last(d.entity, d.seq, t)'
    BY <1>1, <1>2, <2>1 DEF DocRight
  <2> QED
    BY <1>1, <2>1, <2>2 DEF DocRight
<1>4. ASSUME NEW e \in Entity, NEW k \in Nat, Last(e, k, t)'
      PROVE  Last(e, k, t) /\ log'[k] = log[k]
  BY <1>1, <1>2, <1>4
<1> QED
  BY <1>3, <1>4 DEF WholeRight

-----------------------------------------------------------------------------
(* The answer that a pull under way is to apply. *)
LEMMA ReplyFacts ==
  ASSUME BaseInv, FedByPull, pull.at = "reply"
  PROVE  /\ ~pull.reply.reset
         /\ pull.reply.docs \in SUBSET DocRecord
         /\ pull.reply.checkpoint \in Nat /\ pull.reply.initialHigh \in Nat
         /\ pull.after = ckpt.seq
         /\ pull.high = None <=> complete
         /\ pull.high # None => pull.high = IF marker = None THEN 0 ELSE marker
         /\ \E t \in Given : WholeRight(pull.reply, pull.after, pull.high, t)
<1>1. /\ ~pull.reply.reset
      /\ pull.after = ckpt.seq
      /\ pull.high = None <=> complete
      /\ pull.high # None => pull.high = IF marker = None THEN 0 ELSE marker
      /\ \E t \in Given : WholeRight(pull.reply, pull.after, pull.high, t)
  BY DEF FedByPull, Asked
<1>2. Given \in SUBSET Nat
  BY NumbersTyped
<1>3. /\ pull.reply.docs \in SUBSET DocRecord
      /\ pull.reply.checkpoint \in Given /\ pull.reply.initialHigh \in Given
  BY <1>1 DEF BaseInv, PullTyped, DocRecord
<1> QED
  BY <1>1, <1>2, <1>3

(* An entity that the answer leaves out has not been written between what   *)
(* it is known to be right at and the moment of the answer.                 *)
LEMMA LeftOut ==
  ASSUME BaseInv, FedByPull, pull.at = "reply", NEW e \in Entity,
         \A d \in pull.reply.docs : d.entity # e,
         NEW t \in Given, WholeRight(pull.reply, pull.after, pull.high, t),
         NEW b \in Nat, pull.after <= b,
         pull.high # None => pull.reply.initialHigh <= b,
         Replica!RightSince(e, View[e], b)
  PROVE  Replica!RightSince(e, View[e], pull.reply.checkpoint)
<1> DEFINE c == pull.reply.checkpoint
<1>0. /\ Len(log) \in Nat /\ t \in Nat /\ t <= Len(log) /\ c \in Nat /\ c <= t
      /\ pull.reply.initialHigh \in Nat /\ pull.after \in Nat
  BY NumbersTyped, ReplyFacts DEF WholeRight
<1>1. PICK p \in b..Len(log) : Replica!RightAt(e, View[e], p)
  BY DEF Replica!RightSince
<1>2. CASE p >= c
  <2>1. p \in c..Len(log)
    BY <1>0, <1>2
  <2> QED
    BY <1>1, <2>1 DEF Replica!RightSince
<1>3. CASE p < c
  <2>1. p \in Nat /\ p <= t
    BY <1>0, <1>3
  <2>2. ASSUME NEW m \in p + 1..t, log[m].entity = e PROVE FALSE
    <3>1. m \in 1..t
      BY <2>1
    <3>2. PICK k \in m..t : Last(e, k, t)
      BY <1>0, <2>2, <3>1, LastExists
    <3>3. k \in Nat /\ k > b
      BY <1>0, <2>1
    <3>4. k > pull.after /\ (pull.high # None => k > pull.reply.initialHigh)
      BY <1>0, <3>3
    <3> QED
      BY <3>2, <3>3, <3>4 DEF WholeRight
  <2>3. Replica!RightAt(e, View[e], t)
    BY <1>0, <1>1, <2>1, <2>2, Silent
  <2>4. t \in c..Len(log)
    BY <1>0
  <2> QED
    BY <2>3, <2>4 DEF Replica!RightSince
<1> QED
  BY <1>0, <1>2, <1>3

(* What the stored rows of an answer show is right since its checkpoint. *)
LEMMA PulledRight ==
  ASSUME BaseInv, HeldInv, FedByPull, pull.at = "reply", NEW e \in Entity
  PROVE  Replica!RightSince(e, Version(Persisted(pull.reply.docs)[e]),
                            pull.reply.checkpoint)
<1> DEFINE c == pull.reply.checkpoint
<1>0. /\ Len(log) \in Nat /\ ckpt.seq \in Nat /\ Given = 0..Len(log)
      /\ pull.after = ckpt.seq /\ c \in Nat /\ pull.reply.initialHigh \in Nat
      /\ pull.reply.docs \in SUBSET DocRecord /\ CacheRight(e)
      /\ marker \in Int
  BY NumbersTyped, ReplyFacts DEF HeldInv
<1>1. PICK t \in Given : WholeRight(pull.reply, pull.after, pull.high, t)
  BY ReplyFacts
<1>2. t \in Nat /\ t <= Len(log) /\ c <= t /\ ckpt.seq <= c
  BY <1>0, <1>1 DEF WholeRight
<1>3. CASE \E d \in pull.reply.docs : d.entity = e
  <2>1. PICK d \in pull.reply.docs :
          /\ d.entity = e
          /\ Persisted(pull.reply.docs)[e] =
               IF Supersedes(cache[e], CacheRow(d.seq, d.live, FALSE))
               THEN cache[e] ELSE CacheRow(d.seq, d.live, FALSE)
    BY <1>3, PersistedDoc
  <2>2. d \in Doc /\ DocRight(d, t)
    BY <1>0, <1>1 DEF WholeRight, DocRecord, Doc
  <2>3. ckpt.seq <= t
    BY <1>0, <1>2
  <2>4. Replica!RightSince(e, Version(Persisted(pull.reply.docs)[e]), t)
    BY <1>0, <2>1, <2>2, <2>3, StoredRight
  <2> QED
    BY <1>0, <1>2, <2>4, SinceEarlier
<1>4. CASE \A d \in pull.reply.docs : d.entity # e
  <2>1. Version(Persisted(pull.reply.docs)[e]) = View[e]
    BY <1>4, PersistedSame, ViewIsVersion
  <2>2. CASE complete \/ ckpt.seq > 0
    <3>1. Replica!RightSince(e, View[e], ckpt.seq)
      BY <2>2 DEF FedByPull, RightSinceBasis
    <3>2. pull.high # None => pull.reply.initialHigh <= ckpt.seq
      <4> SUFFICES ASSUME pull.high # None PROVE pull.reply.initialHigh <= ckpt.seq
        OBVIOUS
      <4>1. 1 <= marker /\ marker <= ckpt.seq
        BY <2>2, ReplyFacts DEF FedByPull, Markers
      <4>2. pull.high = marker
        BY <1>0, <4>1, ReplyFacts DEF None
      <4> QED
        BY <1>0, <1>1, <4>1, <4>2 DEF WholeRight
    <3>3. pull.after <= ckpt.seq
      BY <1>0
    <3> QED
      BY <1>0, <1>1, <1>4, <2>1, <3>1, <3>2, <3>3, LeftOut
  <2>3. CASE ~complete /\ ckpt.seq = 0 /\ View[e] # 0
    <3>1. marker >= 1 /\ Replica!RightSince(e, View[e], marker)
      BY <2>3 DEF FedByPull, RightSinceBasis
    <3>2. pull.high = marker /\ marker \in Nat
      BY <1>0, <2>3, <3>1, ReplyFacts DEF None
    <3>3. pull.reply.initialHigh <= marker /\ pull.after <= marker
      <4>1. pull.high # None /\ pull.high > 0
        BY <3>1, <3>2 DEF None
      <4>2. pull.reply.initialHigh = pull.high
        BY <1>1, <4>1 DEF WholeRight
      <4> QED
        BY <1>0, <2>3, <3>1, <3>2, <4>2
    <3> QED
      BY <1>0, <1>1, <1>4, <2>1, <3>1, <3>2, <3>3, LeftOut
  <2>4. CASE ~complete /\ ckpt.seq = 0 /\ View[e] = 0
    <3>1. ASSUME NEW n \in 1..t, Replica!IsLast(e, n, t), log[n].live PROVE FALSE
      <4>1. n \in Nat /\ n > pull.after
        BY <1>0, <2>4
      <4> QED
        BY <1>1, <1>4, <3>1, <4>1 DEF WholeRight, Last
    <3>2. Replica!RightAt(e, 0, t)
      BY <3>1 DEF Replica!RightAt
    <3>3. t \in c..Len(log)
      BY <1>0, <1>2
    <3> QED
      BY <2>1, <2>4, <3>2, <3>3 DEF Replica!RightSince
  <2> QED
    BY <1>0, <2>2, <2>3, <2>4
<1> QED
  BY <1>3, <1>4

(* The marker after an answer: never above the answer's checkpoint, and     *)
(* there once the answer has shown anything.                                *)
LEMMA MarkerAfter ==
  ASSUME BaseInv, FedByPull, pull.at = "reply", pull.high # None
  PROVE  LET high == pull.reply.initialHigh
             m == IF marker < high THEN high ELSE marker
         IN  /\ m \in Int /\ m <= pull.reply.checkpoint
             /\ pull.reply.checkpoint > 0 => m >= 1
             /\ marker >= 1 => m = marker
<1> DEFINE high == pull.reply.initialHigh
           c == pull.reply.checkpoint
<1>0. /\ c \in Nat /\ high \in Nat /\ marker \in Int
      /\ (marker # None => marker \in Nat)
  BY NumbersTyped, ReplyFacts
<1>1. PICK t \in Given : WholeRight(pull.reply, pull.after, pull.high, t)
  BY ReplyFacts
<1>2. /\ high = IF pull.high > 0 THEN pull.high ELSE c
      /\ pull.high <= c
  BY <1>1 DEF WholeRight
<1>3. pull.high = IF marker = None THEN 0 ELSE marker
  BY ReplyFacts
<1> QED
  BY <1>0, <1>2, <1>3 DEF None

LEMMA ShownHasMarker ==
  ASSUME BaseInv, FedByPull, pull.at = "reply", NEW e \in Entity,
         ~complete, ckpt.seq = 0, Version(Persisted(pull.reply.docs)[e]) # 0
  PROVE  marker >= 1 \/ pull.reply.checkpoint > 0
<1>0. pull.reply.docs \in SUBSET DocRecord /\ pull.reply.checkpoint \in Nat
      /\ Given \in SUBSET Nat
  BY ReplyFacts, NumbersTyped
<1>1. CASE \E d \in pull.reply.docs : d.entity = e
  <2>1. PICK t \in Given : WholeRight(pull.reply, pull.after, pull.high, t)
    BY ReplyFacts
  <2>2. PICK d \in pull.reply.docs : d.entity = e
    BY <1>1
  <2>3. Last(e, d.seq, t) /\ d.seq \in Nat
    BY <1>0, <2>1, <2>2 DEF WholeRight, DocRight, DocRecord
  <2>4. d.seq <= pull.reply.checkpoint
    BY <2>1, <2>3 DEF WholeRight
  <2>5. d.seq > 0
    BY <2>3 DEF Last, Replica!IsLast
  <2> QED
    BY <1>0, <2>3, <2>4, <2>5
<1>2. CASE \A d \in pull.reply.docs : d.entity # e
  <2>1. View[e] # 0
    BY <1>2, PersistedSame, ViewIsVersion
  <2> QED
    BY <2>1 DEF FedByPull, RightSinceBasis
<1> QED
  BY <1>1, <1>2

-----------------------------------------------------------------------------
(* Nothing is pruned: there are never more tombstones than the limit. *)
LEMMA NothingPruned ==
  ASSUME WholePages, NotPruned
  PROVE  ~PruneDue /\ ~PruneBatchOnce
<1>1. /\ IsFiniteSet(Entity) /\ Tombstones \subseteq Entity
      /\ TombstoneLimit \in Nat /\ PruneBatch \in Nat
  BY SyncAssumption DEF Tombstones
<1>2. /\ Cardinality(Tombstones) \in Nat /\ Cardinality(Entity) \in Nat
      /\ Cardinality(Tombstones) <= Cardinality(Entity)
  BY <1>1, FS_Subset, FS_CardinalityType
<1>3. Cardinality(Tombstones) <= TombstoneLimit
  BY <1>1, <1>2 DEF WholePages
<1> DEFINE slack == Min({PruneBatch, TombstoneLimit \div 20})
<1>4. slack \in Nat
  <2>1. TombstoneLimit \div 20 \in Nat
    BY <1>1
  <2>2. slack \in {PruneBatch, TombstoneLimit \div 20}
    BY <1>1, <2>1, MinOfTwo
  <2> QED
    BY <1>1, <2>1, <2>2
<1> HIDE DEF slack
<1>5. ~(Cardinality(Tombstones) > TombstoneLimit + slack)
  BY <1>1, <1>2, <1>3, <1>4
<1> QED
  BY <1>5 DEF PruneDue, PruneBatchOnce, NotPruned, slack

(* The steps that such a client and its server can take. *)
LEMMA PullSteps ==
  ASSUME WholePages, FedByPull, [Next]_vars
  PROVE  /\ \/ Write
            \/ RefreshStart /\ UNCHANGED projection
            \/ PullRequest \/ PullAnswer \/ PullFails \/ PullApply
            \/ PullInterrupted /\ pull' = Idle
            \/ PullFinish \/ Reacquire \/ UNCHANGED vars
         /\ stream' = Closed /\ NotPruned'
<1>1. stream = Closed /\ NotPruned /\ ready # "resetting" /\ "stream" \notin Paths
      /\ ~stream.open /\ stream.frames = << >>
  BY DEF FedByPull, Markers, WholePages, Closed
<1>2. pull.at = "reply" => ~pull.reply.reset
  BY DEF FedByPull, Asked
<1>3. ~Prune /\ ~Stream /\ ~EpochChanged /\ ~PullReset
  BY <1>1, <1>2, NothingPruned DEF Prune, Stream, Subscribe, SendFrame, ApplyFrame,
     FrameInterrupted, Applying, Disconnect, EpochChanged, PullReset
<1>4. RefreshStart => UNCHANGED projection
  BY <1>1 DEF RefreshStart
<1>5. PullInterrupted => pull' = Idle
  BY <1>1 DEF PullInterrupted
<1>6. \/ Write \/ (RefreshStart /\ UNCHANGED projection)
      \/ PullRequest \/ PullAnswer \/ PullFails \/ PullApply
      \/ (PullInterrupted /\ pull' = Idle)
      \/ PullFinish \/ Reacquire \/ UNCHANGED vars
  BY <1>3, <1>4, <1>5 DEF Next, Pull
<1>7. UNCHANGED <<stream, pruning, floor>>
  BY <1>6 DEF Write, PutEntity, PutUnscoped, WriteElsewhere, DeleteElsewhere, RefreshStart, PullRequest, PullAnswer,
     PullFails, PullApply, PullInterrupted, PullFinish, Reacquire, vars, table
<1> QED
  BY <1>1, <1>6, <1>7 DEF NotPruned

LEMMA MarkersKept ==
  ASSUME BaseInv, BaseInv', [Next]_vars, Markers, UNCHANGED projection
  PROVE  Markers'
<1>1. MaxSequence <= MaxSequence' /\ MaxSequence \in Nat /\ MaxSequence' \in Nat
  BY NumbersBelowMax, NumbersBelowMaxNext, MaxSequenceGrows DEF BaseInv
<1>2. ckpt.seq \in Nat /\ marker \in Int
  BY NumbersTyped
<1>3. ckpt.seq <= MaxSequence' /\ marker <= MaxSequence'
  BY <1>1, <1>2 DEF Markers
<1> QED
  BY <1>3 DEF Markers, projection

LEMMA BasisKept ==
  ASSUME BaseInv, [Next]_vars, RightSinceBasis, UNCHANGED projection,
         pull'.at = "finish" => pull.at = "finish"
  PROVE  RightSinceBasis'
<1>0. /\ TableInv /\ ckpt.seq \in Nat /\ marker \in Int
      /\ (\E w \in LogEntry : log' = Logged(w)) \/ UNCHANGED log
  BY NumbersTyped, LogGrows DEF BaseInv
<1>1. UNCHANGED <<View, ckpt, marker, complete>>
  BY DEF projection, View
<1>2. ASSUME NEW e \in Entity, NEW v, NEW c \in Nat, Replica!RightSince(e, v, c)
      PROVE  \E p \in c..Len(log') : Replica!RightAt(e, v, p)'
  BY <1>0, <1>2, SinceStays DEF Replica!RightSince
<1>3. ASSUME NEW e \in Entity, Replica!RightSince(e, View[e], ckpt.seq)
      PROVE  Replica!RightSince(e, View[e], ckpt.seq)'
  <2>1. PICK v, c : v = View[e] /\ c = ckpt.seq
    OBVIOUS
  <2>2. \E p \in c..Len(log') : Replica!RightAt(e, v, p)'
    BY <1>0, <1>2, <1>3, <2>1
  <2>3. v = View'[e] /\ c = ckpt'.seq
    BY <1>1, <2>1
  <2> QED
    BY <2>2, <2>3 DEF Replica!RightSince, Replica!RightAt, Replica!IsLast
<1>4. ASSUME NEW e \in Entity, marker >= 1, Replica!RightSince(e, View[e], marker)
      PROVE  Replica!RightSince(e, View[e], marker)'
  <2>1. PICK v, c : v = View[e] /\ c = marker
    OBVIOUS
  <2>2. c \in Nat
    BY <1>0, <1>4, <2>1
  <2>3. \E p \in c..Len(log') : Replica!RightAt(e, v, p)'
    BY <1>2, <1>4, <2>1, <2>2
  <2>4. v = View'[e] /\ c = marker'
    BY <1>1, <2>1
  <2> QED
    BY <2>3, <2>4 DEF Replica!RightSince, Replica!RightAt, Replica!IsLast
<1> QED
  BY <1>1, <1>3, <1>4 DEF RightSinceBasis

LEMMA AskedKept ==
  ASSUME BaseInv, BaseInv', [Next]_vars, Asked, UNCHANGED <<projection, pull>>
  PROVE  Asked'
<1>0. /\ TableInv /\ Given \in SUBSET Nat /\ Given \subseteq Given'
      /\ (\E w \in LogEntry : log' = Logged(w)) \/ UNCHANGED log
      /\ MaxSequence <= MaxSequence' /\ MaxSequence \in Nat /\ MaxSequence' \in Nat
  BY NumbersTyped, LogGrows, NumbersBelowMax, NumbersBelowMaxNext, MaxSequenceGrows
     DEF BaseInv
<1>1. ASSUME pull.at = "reply"
      PROVE  /\ pull.reply.checkpoint <= MaxSequence'
             /\ \E t \in Given' : WholeRight(pull.reply, pull.after, pull.high, t)'
  <2>1. PICK r, after, high : r = pull.reply /\ after = pull.after /\ high = pull.high
    OBVIOUS
  <2>2. PICK t \in Given : WholeRight(r, after, high, t)
    BY <1>1, <2>1 DEF Asked
  <2>3. /\ r.docs \in SUBSET DocRecord /\ after \in Nat
        /\ pull.reply.checkpoint \in Nat /\ pull.reply.checkpoint <= MaxSequence
    BY <1>0, <1>1, <2>1 DEF Asked, BaseInv, PullTyped, DocRecord
  <2>4. WholeRight(r, after, high, t)'
    BY <1>0, <2>2, <2>3, WholeStaysRight
  <2>5. r = pull'.reply /\ after = pull'.after /\ high = pull'.high
    BY <2>1
  <2>6. pull.reply.checkpoint <= MaxSequence'
    BY <1>0, <2>3
  <2> QED
    BY <1>0, <2>2, <2>4, <2>5, <2>6 DEF WholeRight
<1>2. UNCHANGED <<complete, marker, ckpt, pull>>
  BY DEF projection
<1> QED
  BY <1>1, <1>2 DEF Asked

LEMMA AnswerAsked ==
  ASSUME WholePages, BaseInv, FedByPull, PullAnswer
  PROVE  Asked'
<1>0. /\ TableInv /\ floor = 0 /\ pull.at = "request" /\ UNCHANGED <<projection, table>>
      /\ pull.after \in Given /\ pull.high \in Given \cup {None}
  BY DEF PullAnswer, FedByPull, NotPruned, BaseInv, PullTyped
<1>1. /\ (pull.high = None <=> complete) /\ pull.mark = marker /\ pull.after = ckpt.seq
      /\ pull.high # None => pull.high = IF marker = None THEN 0 ELSE marker
      /\ ckpt.seq <= MaxSequence /\ marker <= MaxSequence /\ MaxSequence \in Nat
  BY <1>0, NumbersTyped DEF FedByPull, Asked, Markers
<1>2. pull.after <= MaxSequence /\ pull.high <= MaxSequence
  BY <1>1 DEF None
<1>3. PICK prio : \E reply \in PullReply(pull.after, pull.high, prio) :
        pull' = [at |-> "reply", mark |-> pull.mark, kind |-> pull.kind,
                 after |-> pull.after, high |-> pull.high, reply |-> reply]
  BY DEF PullAnswer
<1>4. PICK reply \in PullReply(pull.after, pull.high, prio) :
        pull' = [at |-> "reply", mark |-> pull.mark, kind |-> pull.kind,
                 after |-> pull.after, high |-> pull.high, reply |-> reply]
  BY <1>3
<1>5. /\ ~reply.reset /\ reply.checkpoint = MaxSequence
      /\ WholeRight(reply, pull.after, pull.high, Len(log))
  BY <1>0, <1>2, WholeIsRight
<1>6. /\ pull'.at = "reply" /\ pull'.reply = reply /\ pull'.after = pull.after
      /\ pull'.high = pull.high /\ pull'.mark = pull.mark
  BY <1>4
<1>7. /\ UNCHANGED <<log, ckpt, marker, complete>>
      /\ MaxSequence' = MaxSequence
  BY <1>0 DEF table, projection, MaxSequence
<1>8. Len(log) \in Given'
  BY <1>0, <1>7 DEF Given, TableInv, TableTyped
<1>9. WholeRight(pull.reply, pull.after, pull.high, Len(log))'
  BY <1>5, <1>6, <1>7 DEF WholeRight, DocRight, Last, Replica!IsLast
<1>10. \E t \in Given' : WholeRight(pull.reply, pull.after, pull.high, t)'
  <2>1. PICK t : t = Len(log)
    OBVIOUS
  <2>2. WholeRight(pull.reply, pull.after, pull.high, t)'
    BY <1>7, <1>9, <2>1 DEF WholeRight, DocRight, Last, Replica!IsLast
  <2> QED
    BY <1>8, <2>1, <2>2
<1>11. pull'.reply.checkpoint <= MaxSequence'
  BY <1>1, <1>5, <1>6, <1>7
<1> QED
  BY <1>1, <1>5, <1>6, <1>7, <1>10, <1>11 DEF Asked

(* A page that is stored, with its checkpoint or without. *)
LEMMA StoredPage ==
  ASSUME WholePages, BaseInv, BaseInv', HeldInv, FedByPull, UNCHANGED table,
         pull.at = "reply", UNCHANGED complete, ready' # "resetting",
         pull'.at \in {"idle", "finish"},
         cache' = Persisted(pull.reply.docs) \/ UNCHANGED cache,
         \/ UNCHANGED ckpt /\ pull'.at = "idle"
         \/ /\ ckpt' = Advanced(pull.reply.checkpoint, pull.reply.initialHigh)
            /\ cache' = Persisted(pull.reply.docs),
         marker' = IF pull.high # None /\ marker < pull.reply.initialHigh
                   THEN pull.reply.initialHigh ELSE marker
  PROVE  Markers' /\ Asked' /\ RightSinceBasis'
<1> DEFINE c == pull.reply.checkpoint
<1>0. /\ c \in Nat /\ ckpt.seq \in Nat /\ marker \in Int /\ MaxSequence \in Nat
      /\ Len(log) \in Nat /\ Given = 0..Len(log)
      /\ pull.after = ckpt.seq /\ (pull.high = None <=> complete)
      /\ pull.reply.initialHigh \in Nat
  BY NumbersTyped, ReplyFacts
<1>1. ckpt.seq <= c /\ c <= Len(log)
  BY <1>0, ReplyFacts DEF WholeRight
<1>2. c <= MaxSequence /\ ckpt.seq <= MaxSequence /\ marker <= MaxSequence
  BY DEF FedByPull, Asked, Markers
<1>3. UNCHANGED <<log, rows, floor>> /\ MaxSequence' = MaxSequence
  BY DEF table, MaxSequence
<1>4. ~complete =>
        /\ marker' \in Int /\ marker' <= c
        /\ c > 0 => marker' >= 1
        /\ marker >= 1 => marker' = marker
  BY <1>0, MarkerAfter
<1>5. complete => marker' = marker
  BY <1>0
<1>6. \/ ckpt'.seq = ckpt.seq /\ pull'.at = "idle"
      \/ ckpt'.seq = c /\ cache' = Persisted(pull.reply.docs)
  BY <1>0, <1>1 DEF Advanced
<1>7. ckpt'.seq = 0 => ckpt'.high = 0
  BY <1>0, <1>1 DEF FedByPull, Markers, Advanced
<1>8. marker' <= MaxSequence' /\ ckpt'.seq <= MaxSequence' /\ marker' \in Int
      /\ ckpt'.seq \in Nat
  BY <1>0, <1>2, <1>3, <1>4, <1>5, <1>6
<1>9. ~complete' /\ ckpt'.seq > 0 => 1 <= marker' /\ marker' <= ckpt'.seq
  <2> SUFFICES ASSUME ~complete, ckpt'.seq > 0
               PROVE  1 <= marker' /\ marker' <= ckpt'.seq
    OBVIOUS
  <2>1. CASE ckpt'.seq = c
    BY <1>0, <1>4, <2>1
  <2>2. CASE ckpt'.seq = ckpt.seq
    <3>1. 1 <= marker /\ marker <= ckpt.seq
      BY <2>2 DEF FedByPull, Markers
    <3> QED
      BY <1>4, <2>2, <3>1
  <2> QED
    BY <1>6, <2>1, <2>2
<1>10. Markers'
  BY <1>7, <1>8, <1>9 DEF Markers
<1>11. Asked'
  BY DEF Asked
<1>12. ASSUME NEW e \in Entity
       PROVE  \/ cache'[e] = cache[e] /\ ckpt'.seq = ckpt.seq /\ pull'.at = "idle"
              \/ /\ View'[e] = Version(Persisted(pull.reply.docs)[e])
                 /\ Replica!RightSince(e, View'[e], c)
  <2>1. CASE cache' = Persisted(pull.reply.docs)
    <3>1. View'[e] = Version(Persisted(pull.reply.docs)[e])
      BY <2>1 DEF View, Version
    <3>2. Replica!RightSince(e, Version(Persisted(pull.reply.docs)[e]), c)
      BY PulledRight
    <3> QED
      BY <3>1, <3>2
  <2>2. CASE cache' # Persisted(pull.reply.docs)
    BY <1>6, <2>2
  <2> QED
    BY <2>1, <2>2
<1>13. ASSUME complete \/ ckpt'.seq > 0 \/ pull'.at = "finish", NEW e \in Entity
       PROVE  Replica!RightSince(e, View'[e], ckpt'.seq)
  <2>1. CASE cache'[e] = cache[e] /\ ckpt'.seq = ckpt.seq /\ pull'.at = "idle"
    <3>1. View'[e] = View[e]
      BY <2>1 DEF View
    <3> QED
      BY <1>13, <2>1, <3>1 DEF FedByPull, RightSinceBasis
  <2>2. CASE Replica!RightSince(e, View'[e], c)
    <3>1. ckpt'.seq <= c /\ ckpt'.seq \in Int /\ c \in Int
      BY <1>0, <1>1, <1>6, <1>8
    <3> QED
      BY <1>0, <2>2, <3>1, SinceEarlier
  <2> QED
    BY <1>12, <2>1, <2>2
<1>14. ASSUME ~complete, ckpt'.seq = 0, NEW e \in Entity, View'[e] # 0
       PROVE  marker' >= 1 /\ Replica!RightSince(e, View'[e], marker')
  <2>0. ckpt.seq = 0
    BY <1>0, <1>1, <1>6, <1>14
  <2>1. CASE cache'[e] = cache[e] /\ ckpt'.seq = ckpt.seq /\ pull'.at = "idle"
    <3>1. View'[e] = View[e]
      BY <2>1 DEF View
    <3>2. marker >= 1 /\ Replica!RightSince(e, View[e], marker)
      BY <1>14, <2>0, <3>1 DEF FedByPull, RightSinceBasis
    <3> QED
      BY <1>4, <1>14, <3>1, <3>2
  <2>2. CASE /\ View'[e] = Version(Persisted(pull.reply.docs)[e])
             /\ Replica!RightSince(e, View'[e], c)
    <3>1. marker >= 1 \/ c > 0
      BY <1>14, <2>0, <2>2, ShownHasMarker
    <3>2. marker' >= 1 /\ marker' <= c /\ marker' \in Int /\ c \in Int
      BY <1>0, <1>4, <1>14, <3>1
    <3> QED
      BY <1>0, <2>2, <3>2, SinceEarlier
  <2> QED
    BY <1>12, <2>1, <2>2
<1>15. RightSinceBasis'
  BY <1>3, <1>13, <1>14 DEF RightSinceBasis, Replica!RightSince, Replica!RightAt,
     Replica!IsLast
<1> QED
  BY <1>10, <1>11, <1>15

LEMMA FedByPullStep ==
  ASSUME WholePages, BaseInv, BaseInv', HeldInv, FedByPull, [Next]_vars
  PROVE  FedByPull'
<1>0. /\ \/ Write
         \/ RefreshStart /\ UNCHANGED projection
         \/ PullRequest \/ PullAnswer \/ PullFails \/ PullApply
         \/ PullInterrupted /\ pull' = Idle
         \/ PullFinish \/ Reacquire \/ UNCHANGED vars
      /\ stream' = Closed /\ NotPruned'
  BY PullSteps
<1>1. Markers /\ Asked /\ RightSinceBasis
  BY DEF FedByPull
<1>2. SUFFICES Markers' /\ Asked' /\ RightSinceBasis'
  BY <1>0 DEF FedByPull
<1>3. ASSUME UNCHANGED projection, pull'.at = "finish" => pull.at = "finish"
      PROVE  Markers' /\ RightSinceBasis'
  BY <1>1, <1>3, MarkersKept, BasisKept
<1>4. CASE Write \/ UNCHANGED vars
  <2>1. UNCHANGED <<projection, pull>>
    BY <1>4 DEF Write, PutEntity, PutUnscoped, WriteElsewhere, DeleteElsewhere, vars
  <2> QED
    BY <1>1, <1>3, <2>1, AskedKept
<1>5. CASE RefreshStart /\ UNCHANGED projection
  <2>1. pull' = IF complete THEN Loop(marker, None, "delta")
                ELSE Loop(marker, IF marker # None THEN marker ELSE 0, "whole")
    BY <1>5 DEF RefreshStart, FedByPull, Markers
  <2>2. /\ pull'.at = "loop" /\ pull'.mark = marker
        /\ pull'.high = IF complete THEN None ELSE IF marker # None THEN marker ELSE 0
    BY <2>1 DEF Loop
  <2>3. UNCHANGED <<complete, marker>>
    BY <1>5 DEF projection
  <2>4. Asked'
    BY <2>2, <2>3 DEF Asked, None
  <2> QED
    BY <1>3, <1>5, <2>2, <2>4
<1>6. CASE PullRequest
  <2>1. /\ pull.at = "loop" /\ UNCHANGED projection
        /\ pull'.at = "request" /\ pull'.mark = pull.mark /\ pull'.after = ckpt.seq
        /\ pull'.high = IF pull.high = None THEN None
                        ELSE IF pull.mark # None THEN pull.mark ELSE ckpt.high
    BY <1>6 DEF PullRequest
  <2>2. (pull.high = None <=> complete) /\ pull.mark = marker
    BY <1>1, <2>1 DEF Asked
  <2>3. ~complete /\ marker = None => ckpt.high = 0
    <3>1. ckpt.seq \in Nat
      BY NumbersTyped
    <3> QED
      BY <1>1, <3>1 DEF Markers, None
  <2>4. UNCHANGED <<complete, marker, ckpt>>
    BY <2>1 DEF projection
  <2>5. Asked'
    BY <2>1, <2>2, <2>3, <2>4 DEF Asked, None
  <2> QED
    BY <1>3, <2>1, <2>5
<1>7. CASE PullAnswer
  <2>1. UNCHANGED projection /\ pull'.at = "reply"
    BY <1>7 DEF PullAnswer
  <2> QED
    BY <1>3, <1>7, <2>1, AnswerAsked
<1>8. CASE PullFails
  <2>1. /\ UNCHANGED projection /\ pull.at \in {"request", "reply"}
        /\ \/ pull'.at = "idle"
           \/ /\ pull'.at = "request" /\ pull'.mark = pull.mark
              /\ pull'.after = pull.after /\ pull'.high = pull.high
    BY <1>8 DEF PullFails, Idle
  <2>2. UNCHANGED <<complete, marker, ckpt>>
    BY <2>1 DEF projection
  <2>3. Asked'
    BY <1>1, <2>1, <2>2 DEF Asked
  <2> QED
    BY <1>3, <2>1, <2>3
<1>9. CASE PullApply
  <2>1. /\ pull.at = "reply" /\ ~pull.reply.reset
        /\ UNCHANGED <<table, complete>>
        /\ cache' = Persisted(pull.reply.docs)
        /\ ckpt' = Advanced(pull.reply.checkpoint, pull.reply.initialHigh)
        /\ marker' = IF pull.high # None /\ marker < pull.reply.initialHigh
                     THEN pull.reply.initialHigh ELSE marker
        /\ ready' = IF ready = "none" THEN "ready" ELSE ready
    BY <1>9 DEF PullApply
  <2>2. ~(pull.reply.checkpoint < pull.reply.maxSeq)
    BY <2>1, ReplyFacts DEF WholeRight
  <2>3. pull' = [at |-> "finish"]
    BY <1>9, <2>2 DEF PullApply
  <2>4. ready' # "resetting"
    BY <1>1, <2>1 DEF Markers
  <2> QED
    BY <2>1, <2>3, <2>4, StoredPage
<1>10. CASE PullInterrupted /\ pull' = Idle
  <2>1. /\ pull.at = "reply" /\ UNCHANGED <<table, complete, ckpt, ready>>
        /\ cache' = Persisted({}) \/ cache' = Persisted(pull.reply.docs)
        /\ marker' = IF pull.high # None /\ marker < pull.reply.initialHigh
                     THEN pull.reply.initialHigh ELSE marker
        /\ pull'.at = "idle"
    BY <1>10 DEF PullInterrupted, Idle
  <2>2. Persisted({}) = cache
    <3>1. cache = [e \in Entity |-> cache[e]]
      BY DEF BaseInv, ClientTyped
    <3> QED
      BY <3>1 DEF Persisted
  <2>3. ready' # "resetting"
    BY <1>1, <2>1 DEF Markers
  <2> QED
    BY <2>1, <2>2, <2>3, StoredPage
<1>11. CASE PullFinish
  <2>1. /\ pull.at = "finish" /\ complete' /\ pull'.at = "idle" /\ ready' = "ready"
        /\ UNCHANGED <<log, rows, floor, unscoped, cache, ckpt, marker>>
    BY <1>11 DEF PullFinish, Idle, table
  <2>2. MaxSequence' = MaxSequence /\ View' = View
    BY <2>1 DEF MaxSequence, View
  <2>3. Markers'
    BY <1>1, <2>1, <2>2 DEF Markers
  <2>4. Asked'
    BY <2>1 DEF Asked
  <2>5. \A e \in Entity : Replica!RightSince(e, View[e], ckpt.seq)
    BY <1>1, <2>1 DEF RightSinceBasis
  <2>6. RightSinceBasis'
    BY <2>1, <2>2, <2>5 DEF RightSinceBasis, Replica!RightSince, Replica!RightAt,
       Replica!IsLast
  <2> QED
    BY <2>3, <2>4, <2>6
<1>12. CASE Reacquire
  <2>1. UNCHANGED projection /\ pull'.at = "idle"
    BY <1>12 DEF Reacquire, Idle
  <2>2. Asked'
    BY <2>1 DEF Asked
  <2> QED
    BY <1>3, <2>1, <2>2
<1> QED
  BY <1>0, <1>4, <1>5, <1>6, <1>7, <1>8, <1>9, <1>10, <1>11, <1>12

LEMMA FedByPullAlways ==
  ASSUME WholePages
  PROVE  Spec => [](BaseInv /\ HeldInv /\ FedByPull)
<1>1. Init => FedByPull
  <2> SUFFICES ASSUME Init PROVE FedByPull
    OBVIOUS
  <2>1. MaxSequence \in Nat
    BY TableInit, Numbering DEF TableInv, TableTyped
  <2>2. \A e \in Entity : View[e] = 0
    BY DEF Init, View, NoCacheRow, CacheRow
  <2>3. Markers
    BY <2>1 DEF Init, Markers, None
  <2> QED
    BY <2>2, <2>3 DEF Init, FedByPull, NotPruned, Asked, RightSinceBasis, Idle
<1>2. (BaseInv /\ HeldInv) /\ (BaseInv /\ HeldInv)' /\ FedByPull /\ [Next]_vars
        => FedByPull'
  BY FedByPullStep
<1> QED
  BY <1>1, <1>2, HeldAlways, PTL DEF Spec

(* A client that pulls whole pages shows every entity as it was at some     *)
(* moment from its checkpoint on (refresh), through lost answers,           *)
(* interrupted writes and refreshes that stop half way.                     *)
THEOREM PullFaithful ==
  ASSUME WholePages
  PROVE  Spec => []ShownIsFaithful
<1>1. FedByPull => ShownIsFaithful
  BY DEF FedByPull, RightSinceBasis, ShownIsFaithful, Replica!Faithful, Shown
<1> QED
  BY <1>1, FedByPullAlways, PTL

(* A deleted entity whose deletion the checkpoint has passed is not in the  *)
(* projection that whole pages feed.                                        *)
THEOREM PullRemoves ==
  ASSUME WholePages
  PROVE  Spec => []NothingLeftOver
<1>1. BaseInv /\ FedByPull => NothingLeftOver
  <2> SUFFICES ASSUME BaseInv, FedByPull, Shown, NEW e \in Entity, View[e] # 0,
                      NEW n \in 1..ckpt.seq, Replica!IsLast(e, n, Len(log))
               PROVE  log[n].live
    BY DEF NothingLeftOver
  <2> DEFINE v == View[e]
  <2>1. PICK p \in ckpt.seq..Len(log) : Replica!RightAt(e, v, p)
    BY DEF FedByPull, RightSinceBasis, Shown, Replica!RightSince
  <2>2. Len(log) \in Nat /\ ckpt.seq \in Nat /\ p \in Nat /\ p <= Len(log) /\ n <= p
        /\ n \in Nat
    BY NumbersTyped
  <2>3. Replica!IsLast(e, n, p)
    BY <2>2 DEF Replica!IsLast
  <2> HIDE DEF v
  <2>4. Replica!IsLast(e, v, p) /\ log[v].live /\ v \in Nat
    BY <2>1, <2>2 DEF Replica!RightAt, Replica!IsLast, v
  <2>5. v = n
    BY <2>2, <2>3, <2>4, LastUnique DEF Last
  <2> QED
    BY <2>4, <2>5
<1> QED
  BY <1>1, FedByPullAlways, PTL

(* Every step of a client that pulls whole pages is a step of the replica. *)
LEMMA PullRefines ==
  ASSUME WholePages, BaseInv, BaseInv', FedByPull, FedByPull', [Next]_vars
  PROVE  [Replica!Next]_(Replica!vars)
<1>1. CASE Write
  <2>1. UNCHANGED projection
    BY <1>1 DEF Write, PutEntity, PutUnscoped, WriteElsewhere, DeleteElsewhere
  <2>2. UNCHANGED <<Shown, View, ckpt.seq>>
    BY <2>1 DEF projection, Shown, View
  <2>3. CASE UNCHANGED log
    BY <2>2, <2>3 DEF Replica!vars
  <2>4. CASE \E w \in LogEntry : log' = Logged(w)
    BY <2>2, <2>4, WriteExtends DEF BaseInv, Replica!Next
  <2> QED
    BY <2>3, <2>4, LogGrows DEF BaseInv
<1>2. CASE ~Write
  <2>1. UNCHANGED log
    BY <1>2, PullSteps DEF RefreshStart, PullRequest, PullAnswer, PullFails, PullApply,
       PullInterrupted, PullFinish, Reacquire, vars, table
  <2>2. View' \in [Entity -> 0..Len(log)] /\ ckpt'.seq \in 0..Len(log)
    <3>1. Given' = 0..Len(log) /\ 0 \in Given'
      BY <2>1 DEF Given, BaseInv, TableInv, TableTyped
    <3>2. \A e \in Entity : View'[e] \in Given'
      BY <3>1 DEF View, BaseInv, ClientTyped
    <3>3. View' = [e \in Entity |-> View'[e]]
      BY DEF View
    <3> QED
      BY <3>1, <3>2, <3>3 DEF BaseInv, ClientTyped
  <2>3. ckpt.seq <= ckpt'.seq
    <3>1. ckpt.seq \in Nat
      BY NumbersTyped
    <3>2. CASE UNCHANGED ckpt
      BY <3>1, <3>2
    <3>3. CASE PullApply
      BY <3>1, <3>3, ReplyFacts DEF PullApply, Advanced
    <3> QED
      BY <1>2, <3>2, <3>3, PullSteps DEF projection, PullRequest, PullAnswer, PullFails,
         PullInterrupted, PullFinish, Reacquire, vars
  <2>4. CASE Shown'
    <3>1. \A e \in Entity : Replica!RightSince(e, View[e], ckpt.seq)'
      BY <2>4 DEF FedByPull, RightSinceBasis, Shown
    <3>2. \A e \in Entity : Replica!RightSince(e, View'[e], ckpt'.seq)
      BY <2>1, <3>1 DEF Replica!RightSince, Replica!RightAt, Replica!IsLast
    <3>3. Replica!CatchUp
      BY <2>1, <2>2, <2>3, <2>4, <3>2 DEF Replica!CatchUp
    <3> QED
      BY <3>3 DEF Replica!Next
  <2>5. CASE ~Shown'
    <3>1. Replica!Rebuild
      BY <2>1, <2>2, <2>5 DEF Replica!Rebuild
    <3> QED
      BY <3>1 DEF Replica!Next
  <2> QED
    BY <2>4, <2>5
<1> QED
  BY <1>1, <1>2

(* A client that pulls whole pages implements the replica: it shows only    *)
(* what was true since its checkpoint, and the checkpoint moves only        *)
(* forward while it shows its projection.                                   *)
THEOREM PullImplementsReplica ==
  ASSUME WholePages
  PROVE  Spec => IsReplica
<1>1. Init => Replica!Init
  BY DEF Init, Replica!Init, Shown, View, NoCacheRow, CacheRow
<1>2. (BaseInv /\ FedByPull) /\ (BaseInv /\ FedByPull)' /\ [Next]_vars
        => [Replica!Next]_(Replica!vars)
  BY PullRefines
<1> QED
  BY <1>1, <1>2, FedByPullAlways, PTL DEF Spec, IsReplica, Replica!Spec

(* When no write has come after the checkpoint of a client that pulls whole *)
(* pages, its projection is the table.                                      *)
THEOREM PullSettles ==
  ASSUME WholePages
  PROVE  Spec => [](Shown /\ ckpt.seq = MaxSequence => UpToDate)
<1>1. (BaseInv /\ HeldInv /\ FedByPull) /\ NothingMissing /\ NothingLeftOver
        => (Shown /\ ckpt.seq = MaxSequence => UpToDate)
  <2> SUFFICES ASSUME BaseInv, HeldInv, FedByPull, NothingMissing, NothingLeftOver,
                      Shown, ckpt.seq = MaxSequence
               PROVE  UpToDate
    OBVIOUS
  <2>1. floor <= MaxSequence /\ \A e \in Entity : rows[e].seq <= MaxSequence
    BY NumbersBelowMax DEF BaseInv
  <2>2. \A e \in Entity : CacheRight(e)
    BY DEF HeldInv
  <2> QED
    BY <2>1, <2>2, CaughtUp
<1> QED
  BY <1>1, FedByPullAlways, NeverMissing, PullRemoves, PTL
=============================================================================
