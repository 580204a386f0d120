-------------------------- MODULE EntitySyncProofs --------------------------
(***************************************************************************)
(* Proofs about EntitySync, for every set of entities, every limit and      *)
(* every bound.                                                             *)
(*                                                                          *)
(* The history log turns what is under way into facts that do not change:   *)
(* a frame that was read at number t holds the last write up to t of every  *)
(* entity it is about, whatever is written or pruned afterwards.            *)
(***************************************************************************)
EXTENDS EntitySync, FiniteSetTheorems, WellFoundedInduction, TLAPS

LogEntry == [entity: Entity \cup {Elsewhere}, live: BOOLEAN]

Last(e, n, p) == Replica!IsLast(e, n, p)
-----------------------------------------------------------------------------
(* The greatest element of a bounded set of numbers is one of them. *)
LEMMA MaxOf ==
  ASSUME NEW n \in Nat, NEW S \in SUBSET (0..n), S # {}
  PROVE  Max(S) \in S /\ \A y \in S : y <= Max(S)
<1> DEFINE R == OpToRel(<, Nat)
           T == {n - x : x \in S}
<1>1. IsWellFoundedOn(R, Nat)
  BY NatLessThanWellFounded, Zenon
<1> HIDE DEF R, T
<1>2. T \in SUBSET Nat /\ T # {}
  <2>1. PICK x \in S : TRUE
    OBVIOUS
  <2>2. n - x \in T
    BY DEF T
  <2>3. \A y \in T : y \in Nat
    BY DEF T
  <2> QED
    BY <2>2, <2>3
<1>3. PICK m \in T : \A y \in T : ~ (<<y, m>> \in R)
  BY <1>1, <1>2, WFMin
<1>4. \A y \in T : ~(y < m)
  BY <1>2, <1>3 DEF R, OpToRel
<1>5. PICK x \in S : m = n - x
  BY DEF T
<1>6. \A y \in S : n - y \in T
  BY DEF T
<1>7. \A y \in S : x >= y
  BY <1>4, <1>5, <1>6
<1> QED
  BY <1>7 DEF Max

(* The least of two numbers. *)
LEMMA MinOfTwo ==
  ASSUME NEW a \in Int, NEW b \in Int
  PROVE  Min({a, b}) \in {a, b} /\ Min({a, b}) <= a /\ Min({a, b}) <= b
<1>1. \E x \in {a, b} : \A y \in {a, b} : x =< y
  <2>1. CASE a <= b
    BY <2>1
  <2>2. CASE b <= a
    BY <2>2
  <2> QED
    BY <2>1, <2>2
<1> QED
  BY <1>1 DEF Min

(* At each position an entity has one last write at most, and one if it was *)
(* written at all.                                                          *)
LEMMA LastUnique ==
  ASSUME NEW e, NEW p \in Nat, NEW n \in Nat, NEW m \in Nat,
         Last(e, n, p), Last(e, m, p)
  PROVE  n = m
BY DEF Last, Replica!IsLast

LEMMA LastExists ==
  ASSUME NEW e, NEW p \in Nat, NEW k \in 1..p, log[k].entity = e
  PROVE  \E n \in k..p : Last(e, n, p)
<1> DEFINE S == {n \in 1..p : log[n].entity = e}
<1>1. S \in SUBSET (0..p) /\ S # {} /\ k \in S
  OBVIOUS
<1> HIDE DEF S
<1>2. Max(S) \in S /\ \A y \in S : y <= Max(S)
  BY <1>1, MaxOf
<1>3. Max(S) \in k..p /\ log[Max(S)].entity = e
  BY <1>1, <1>2 DEF S
<1>4. \A m \in Max(S) + 1..p : log[m].entity # e
  BY <1>1, <1>2, <1>3 DEF S
<1>5. Max(S) \in 1..p
  BY <1>3
<1> QED
  BY <1>3, <1>4, <1>5 DEF Last, Replica!IsLast

-----------------------------------------------------------------------------
(* The table.  The greatest number ever given to an entity is still in the  *)
(* table, which is why next_sequence stays above it although the other      *)
(* tables may lose their greatest.                                          *)
TableTyped ==
  /\ rows \in [Entity -> [seq: Nat, live: BOOLEAN]]
  /\ unscoped \in Nat /\ elsewhere \in Nat /\ floor \in Nat /\ pruning \in BOOLEAN
  /\ log \in Seq(LogEntry)

NumbersGivenOut ==
  /\ Len(log) <= MaxSeq /\ elsewhere <= MaxSeq
  /\ unscoped <= Len(log) /\ floor <= Len(log)
  /\ \A e \in Entity : rows[e].seq <= Len(log)

LiveHasNumber == \A e \in Entity : rows[e].live => rows[e].seq # 0

TopSurvives ==
  unscoped = Len(log) \/ \E e \in Entity : rows[e].seq = Len(log)

TableInv ==
  TableTyped /\ NumbersGivenOut /\ LiveHasNumber /\ TopSurvives /\ TableIsTheLog

(* What the two maxima of the code are. *)
LEMMA NextAbove ==
  ASSUME TableInv, NEW other \in Nat
  PROVE  NextAfter(other) \in Nat /\ Len(log) < NextAfter(other) /\ other < NextAfter(other)
<1> USE DEF TableInv, TableTyped, NumbersGivenOut, TopSurvives
<1> DEFINE S == {rows[e].seq : e \in Entity} \cup {unscoped, other}
           n == Len(log) + other
<1>0. Len(log) \in Nat /\ \A e \in Entity : rows[e].seq \in 0..Len(log)
  OBVIOUS
<1>1. n \in Nat /\ S \in SUBSET (0..n) /\ S # {} /\ other \in S
  BY <1>0
<1>2. Len(log) \in S
  BY <1>0
<1> HIDE DEF S, n
<1>3. Max(S) \in S /\ \A y \in S : y <= Max(S)
  BY <1>1, MaxOf
<1>4. Max(S) \in 0..n /\ Len(log) <= Max(S) /\ other <= Max(S)
  BY <1>1, <1>2, <1>3, Zenon
<1>5. NextAfter(other) = Max(S) + 1
  BY DEF NextAfter, S
<1> QED
  BY <1>0, <1>1, <1>4, <1>5

LEMMA Numbering ==
  ASSUME TableInv
  PROVE  /\ NextSequence \in Nat /\ Len(log) < NextSequence
         /\ MaxSequence = Len(log)
         /\ MaxSequence \in 0..Len(log)
         /\ floor <= MaxSequence
         /\ \A e \in Entity : rows[e].seq \in 0..MaxSequence
<1> USE DEF TableInv, TableTyped, NumbersGivenOut, TopSurvives
<1> DEFINE T == {rows[e].seq : e \in Entity} \cup {unscoped, floor}
<1>0. Len(log) \in Nat /\ \A e \in Entity : rows[e].seq \in 0..Len(log)
  OBVIOUS
<1>1. T \in SUBSET (0..Len(log)) /\ T # {} /\ Len(log) \in T
  BY <1>0
<1> HIDE DEF T
<1>2. Max(T) \in T /\ \A y \in T : y <= Max(T)
  BY <1>0, <1>1, MaxOf
<1>3. Max(T) \in 0..Len(log) /\ Len(log) <= Max(T)
  BY <1>1, <1>2
<1>4. MaxSequence = Len(log)
  BY <1>0, <1>3 DEF MaxSequence, T
<1>5. NextSequence \in Nat /\ Len(log) < NextSequence
  BY NextAbove DEF NextSequence
<1> QED
  BY <1>0, <1>4, <1>5

(* A write at a later position leaves what came before. *)
LEMMA Extended ==
  ASSUME TableInv, NEW w \in LogEntry, log' = Logged(w)
  PROVE  /\ log' \in Seq(LogEntry)
         /\ Len(log) \in Nat
         /\ Len(log') = NextSequence
         /\ Len(log') \in Nat /\ Len(log) < Len(log')
         /\ \A n \in 1..Len(log) : log'[n] = log[n]
         /\ log'[Len(log')] = w
         /\ \A e \in Entity, p \in 0..Len(log), n \in Nat :
              Last(e, n, p)' <=> Last(e, n, p)
         /\ \A e \in Entity, n \in Nat :
              Last(e, n, Len(log))' <=>
                IF w.entity = e THEN n = Len(log') ELSE Last(e, n, Len(log))
<1> DEFINE N == NextSequence
           gap == [entity |-> Elsewhere, live |-> TRUE]
<1>0. log \in Seq(LogEntry) /\ Len(log) \in Nat
  BY DEF TableInv, TableTyped
<1>1. N \in Nat /\ Len(log) < N
  BY Numbering
<1>2. gap \in LogEntry /\ \A e \in Entity : gap.entity # e
  BY SyncAssumption DEF LogEntry
<1>3. log' = [n \in 1..N |-> IF n <= Len(log) THEN log[n] ELSE IF n = N THEN w ELSE gap]
  BY DEF Logged
<1> HIDE DEF N, gap
<1>4. \A n \in 1..N : log'[n] \in LogEntry
  BY <1>0, <1>1, <1>2, <1>3
<1>5. log' \in [1..N -> LogEntry]
  BY <1>3, <1>4
<1>6. log' \in Seq(LogEntry) /\ Len(log') = N
  BY <1>1, <1>5
<1>7. /\ \A n \in 1..Len(log) : log'[n] = log[n]
      /\ log'[N] = w
      /\ \A n \in Len(log) + 1..N - 1 : log'[n] = gap
  BY <1>0, <1>1, <1>3
<1>8. \A e \in Entity, p \in 0..Len(log), n \in Nat :
        Last(e, n, p)' <=> Last(e, n, p)
  BY <1>0, <1>7 DEF Last, Replica!IsLast
<1>9. ASSUME NEW e \in Entity, NEW n \in Nat
      PROVE  Last(e, n, Len(log))' <=>
               IF w.entity = e THEN n = N ELSE Last(e, n, Len(log))
  <2>0. \A m \in Len(log) + 1..N - 1 : log'[m].entity # e
    BY <1>2, <1>7
  <2>1. CASE w.entity = e
    BY <1>0, <1>1, <1>6, <1>7, <2>0, <2>1 DEF Last, Replica!IsLast
  <2>2. CASE w.entity # e
    <3>1. \A m \in Len(log) + 1..N : log'[m].entity # e
      BY <1>0, <1>1, <1>7, <2>0, <2>2
    <3> QED
      BY <1>0, <1>1, <1>6, <1>7, <2>2, <3>1 DEF Last, Replica!IsLast
  <2> QED
    BY <2>1, <2>2
<1> QED
  BY <1>0, <1>1, <1>6, <1>7, <1>8, <1>9 DEF N

LEMMA TableInit == Init => TableInv
<1> SUFFICES ASSUME Init PROVE TableInv
  OBVIOUS
<1>1. log = << >> /\ Len(log) = 0 /\ log \in Seq(LogEntry)
  BY DEF Init
<1>2. /\ rows = [e \in Entity |-> NoRow]
      /\ floor = 0 /\ unscoped = 0 /\ elsewhere = 0
      /\ pruning \in BOOLEAN
      /\ NoRow \in [seq: Nat, live: BOOLEAN] /\ NoRow.seq = 0 /\ ~NoRow.live
  BY DEF Init, NoRow, Row
<1>4. TableTyped /\ NumbersGivenOut /\ LiveHasNumber /\ TopSurvives
  BY <1>1, <1>2, SyncAssumption
     DEF TableTyped, NumbersGivenOut, LiveHasNumber, TopSurvives
<1>3. TableIsTheLog
  BY <1>1 DEF Init, TableIsTheLog, IsRow, NoRow, Row
<1> QED
  BY <1>3, <1>4 DEF TableInv

LEMMA PutEntityTable ==
  ASSUME TableInv, NEW e \in Entity, NEW live \in BOOLEAN, PutEntity(e, live)
  PROVE  TableInv'
<1> DEFINE w == [entity |-> e, live |-> live]
           N == NextSequence
<1>0. w \in LogEntry /\ log \in Seq(LogEntry) /\ Len(log) \in Nat
  BY DEF LogEntry, TableInv, TableTyped
<1>1. N \in Nat /\ Len(log) < N
  BY Numbering
<1>2. /\ log' = Logged(w)
      /\ rows' = [rows EXCEPT ![e] = Row(N, live)]
      /\ N <= MaxSeq
      /\ UNCHANGED <<floor, unscoped, elsewhere, pruning>>
  BY DEF PutEntity
<1> HIDE DEF w
<1>3. /\ log' \in Seq(LogEntry)
      /\ Len(log') = N
      /\ \A n \in 1..Len(log) : log'[n] = log[n]
      /\ log'[N] = w
      /\ \A f \in Entity, n \in Nat :
           Last(f, n, Len(log))' <=>
             IF w.entity = f THEN n = N ELSE Last(f, n, Len(log))
  BY <1>0, <1>2, Extended
<1> HIDE DEF N
<1>4. TableTyped' /\ NumbersGivenOut' /\ LiveHasNumber' /\ TopSurvives'
  BY <1>0, <1>1, <1>2, <1>3
     DEF TableInv, TableTyped, NumbersGivenOut, LiveHasNumber, TopSurvives, Row
<1>5. TableIsTheLog'
  <2> SUFFICES ASSUME NEW f \in Entity
               PROVE  IF IsRow(rows'[f])
                      THEN /\ Last(f, rows[f].seq, Len(log))'
                           /\ rows'[f].live = log'[rows'[f].seq].live
                           /\ rows'[f].live \/ rows'[f].seq > floor'
                      ELSE \A n \in 1..Len(log') :
                             Last(f, n, Len(log))' => ~log'[n].live /\ n <= floor'
    BY DEF TableIsTheLog, Last
  <2>1. CASE f = e
    BY <1>0, <1>1, <1>2, <1>3, <2>1
       DEF TableInv, TableTyped, NumbersGivenOut, Row, IsRow, w
  <2>2. CASE f # e
    <3>1. rows'[f] = rows[f] /\ w.entity # f
      BY <1>2, <2>2 DEF TableInv, TableTyped, w
    <3>2. \A n \in Nat : Last(f, n, Len(log))' <=> Last(f, n, Len(log))
      BY <1>3, <3>1
    <3>3. IF IsRow(rows[f])
          THEN /\ Last(f, rows[f].seq, Len(log))
               /\ rows[f].live = log[rows[f].seq].live
               /\ rows[f].live \/ rows[f].seq > floor
          ELSE \A n \in 1..Len(log) :
                 Last(f, n, Len(log)) => ~log[n].live /\ n <= floor
      BY DEF TableInv, TableIsTheLog, Last
    <3>4. \A n \in Nat : Last(f, n, Len(log)) => n \in 1..Len(log)
      BY DEF Last, Replica!IsLast
    <3>5. rows[f].seq \in Nat
      BY DEF TableInv, TableTyped
    <3>6. CASE IsRow(rows[f])
      BY <1>2, <1>3, <3>1, <3>2, <3>3, <3>4, <3>5, <3>6
    <3>7. CASE ~IsRow(rows[f])
      BY <1>0, <1>1, <1>2, <1>3, <3>1, <3>2, <3>3, <3>4, <3>7
    <3> QED
      BY <3>6, <3>7
  <2> QED
    BY <2>1, <2>2
<1> QED
  BY <1>4, <1>5 DEF TableInv

LEMMA PutUnscopedTable ==
  ASSUME TableInv, PutUnscoped
  PROVE  TableInv'
<1> DEFINE w == [entity |-> Elsewhere, live |-> TRUE]
           N == NextSequence
<1>0. /\ w \in LogEntry /\ w.entity = Elsewhere
      /\ log \in Seq(LogEntry) /\ Len(log) \in Nat
  BY DEF LogEntry, TableInv, TableTyped
<1>1. N \in Nat /\ Len(log) < N
  BY Numbering
<1>2. /\ log' = Logged(w)
      /\ unscoped' = N
      /\ N <= MaxSeq
      /\ UNCHANGED <<rows, floor, elsewhere, pruning>>
  BY <1>1, SyncAssumption DEF PutUnscoped
<1> HIDE DEF w
<1>3. /\ log' \in Seq(LogEntry)
      /\ Len(log') = N
      /\ \A n \in 1..Len(log) : log'[n] = log[n]
      /\ \A f \in Entity, n \in Nat :
           Last(f, n, Len(log))' <=>
             IF w.entity = f THEN n = N ELSE Last(f, n, Len(log))
  BY <1>0, <1>2, Extended
<1> HIDE DEF N
<1>4. TableTyped' /\ NumbersGivenOut' /\ LiveHasNumber' /\ TopSurvives'
  BY <1>0, <1>1, <1>2, <1>3
     DEF TableInv, TableTyped, NumbersGivenOut, LiveHasNumber, TopSurvives
<1>5. TableIsTheLog'
  <2> SUFFICES ASSUME NEW f \in Entity
               PROVE  IF IsRow(rows'[f])
                      THEN /\ Last(f, rows[f].seq, Len(log))'
                           /\ rows'[f].live = log'[rows'[f].seq].live
                           /\ rows'[f].live \/ rows'[f].seq > floor'
                      ELSE \A n \in 1..Len(log') :
                             Last(f, n, Len(log))' => ~log'[n].live /\ n <= floor'
    BY DEF TableIsTheLog, Last
  <2>1. w.entity # f
    BY <1>0, SyncAssumption
  <2>2. \A n \in Nat : Last(f, n, Len(log))' <=> Last(f, n, Len(log))
    BY <1>3, <2>1
  <2>3. IF IsRow(rows[f])
        THEN /\ Last(f, rows[f].seq, Len(log))
             /\ rows[f].live = log[rows[f].seq].live
             /\ rows[f].live \/ rows[f].seq > floor
        ELSE \A n \in 1..Len(log) :
               Last(f, n, Len(log)) => ~log[n].live /\ n <= floor
    BY DEF TableInv, TableIsTheLog, Last
  <2>4. \A n \in Nat : Last(f, n, Len(log)) => n \in 1..Len(log)
    BY DEF Last, Replica!IsLast
  <2>5. rows[f].seq \in Nat
    BY DEF TableInv, TableTyped
  <2>6. CASE IsRow(rows[f])
    BY <1>2, <1>3, <2>2, <2>3, <2>4, <2>5, <2>6
  <2>7. CASE ~IsRow(rows[f])
    BY <1>0, <1>1, <1>2, <1>3, <2>2, <2>3, <2>4, <2>7
  <2> QED
    BY <2>6, <2>7
<1> QED
  BY <1>4, <1>5 DEF TableInv

(* What the other tables do moves their greatest number only. *)
LEMMA ElsewhereTable ==
  ASSUME TableInv, WriteElsewhere \/ DeleteElsewhere
  PROVE  TableInv'
<1>1. UNCHANGED <<rows, floor, unscoped, pruning, log>>
  BY DEF WriteElsewhere, DeleteElsewhere
<1>2. elsewhere' \in Nat /\ elsewhere' <= MaxSeq
  <2>1. elsewhere \in Nat
    BY DEF TableInv, TableTyped
  <2>2. PICK other \in 0..elsewhere :
          NextAfter(other) <= MaxElsewhere /\ elsewhere' = NextAfter(other)
    BY <2>1 DEF WriteElsewhere, DeleteElsewhere, NextSequence
  <2>3. NextAfter(other) \in Nat
    BY <2>1, NextAbove
  <2> QED
    BY <2>2, <2>3, SyncAssumption
<1>3. TableIsTheLog'
  BY <1>1 DEF TableInv, TableIsTheLog, Replica!IsLast
<1> QED
  BY <1>1, <1>2, <1>3
     DEF TableInv, TableTyped, NumbersGivenOut, LiveHasNumber, TopSurvives

(* Pruning leaves a tombstone that is younger than all it deletes. *)
LEMMA PruneBatchTable ==
  ASSUME TableInv, PruneBatchOnce
  PROVE  TableInv'
<1> DEFINE excess == Cardinality(Tombstones) - TombstoneLimit
<1>0. UNCHANGED <<unscoped, elsewhere, log>>
  BY DEF PruneBatchOnce
<1>1. CASE excess <= 0
  <2>1. UNCHANGED <<rows, floor>> /\ pruning' = FALSE
    BY <1>1 DEF PruneBatchOnce
  <2> QED
    BY <1>0, <2>1 DEF TableInv, TableTyped, NumbersGivenOut, LiveHasNumber, TopSurvives,
                      TableIsTheLog, Replica!IsLast
<1>2. CASE ~(excess <= 0)
  <2>1. PICK S \in SUBSET Tombstones :
          /\ Oldest(S, Min({PruneBatch, excess}))
          /\ rows' = [e \in Entity |-> IF e \in S THEN NoRow ELSE rows[e]]
          /\ floor' = RaisedFloor(S)
          /\ pruning' = pruning
    BY <1>2 DEF PruneBatchOnce
  <2>2. IsFiniteSet(Tombstones) /\ Cardinality(Tombstones) \in Nat
    BY SyncAssumption, FS_Subset, FS_CardinalityType DEF Tombstones
  <2>3. S # Tombstones
    <3>1. excess \in Int /\ excess < Cardinality(Tombstones)
      BY <2>2, SyncAssumption
    <3>2. Min({PruneBatch, excess}) <= excess
      BY <3>1, MinOfTwo, SyncAssumption
    <3>3. Min({PruneBatch, excess}) \in Int
      <4>1. PruneBatch \in Int
        BY SyncAssumption
      <4> HIDE DEF excess
      <4>2. Min({PruneBatch, excess}) \in {PruneBatch, excess}
        BY <3>1, <4>1, MinOfTwo
      <4> QED
        BY <3>1, <4>1, <4>2
    <3>4. Cardinality(S) = Min({PruneBatch, excess})
      BY <2>1 DEF Oldest
    <3> QED
      BY <2>2, <3>1, <3>2, <3>3, <3>4
  <2>4. PICK young \in Tombstones \ S : TRUE
    BY <2>3
  <2>5. \A e \in S : rows[e].seq < rows[young].seq
    BY <2>1, <2>4 DEF Oldest
  <2>6. /\ Len(log) \in Nat /\ floor \in 0..Len(log)
        /\ \A e \in Entity : rows[e].seq \in 0..Len(log)
        /\ S \subseteq Entity /\ young \in Entity
        /\ \A e \in S : IsTombstone(rows[e])
    BY <2>4 DEF TableInv, TableTyped, NumbersGivenOut, Tombstones
  <2>7. /\ floor' \in {floor} \cup {rows[e].seq : e \in S}
        /\ floor <= floor'
        /\ \A e \in S : rows[e].seq <= floor'
    <3> DEFINE F == {floor} \cup {rows[e].seq : e \in S}
    <3>1. F \in SUBSET (0..Len(log)) /\ F # {} /\ floor \in F
      BY <2>6
    <3>2. \A e \in S : rows[e].seq \in F
      OBVIOUS
    <3>3. floor' = Max(F)
      BY <2>1 DEF RaisedFloor
    <3> HIDE DEF F
    <3>4. Max(F) \in F /\ \A y \in F : y <= Max(F)
      BY <2>6, <3>1, MaxOf
    <3>5. floor <= floor' /\ (\A e \in S : rows[e].seq <= floor') /\ floor' \in F
      BY <3>1, <3>2, <3>3, <3>4
    <3> QED
      BY <3>5 DEF F
  <2>8. /\ floor' \in 0..Len(log)
        /\ \A e \in Tombstones \ S : rows[e].seq > floor'
    <3>1. \A e \in Tombstones : ~rows[e].live /\ IsRow(rows[e]) /\ e \in Entity
      BY DEF Tombstones, IsTombstone
    <3>2. \A e \in Tombstones \ S : rows[e].seq > floor
      BY <3>1 DEF TableInv, TableIsTheLog
    <3>3. \A e \in S, f \in Tombstones \ S : rows[e].seq < rows[f].seq
      BY <2>1 DEF Oldest
    <3> QED
      BY <2>6, <2>7, <3>1, <3>2, <3>3
  <2>9. TableTyped' /\ NumbersGivenOut' /\ LiveHasNumber'
    <3>1. NoRow \in [seq: Nat, live: BOOLEAN] /\ NoRow.seq = 0 /\ ~NoRow.live
      BY DEF NoRow, Row
    <3>2. rows' \in [Entity -> [seq: Nat, live: BOOLEAN]]
      BY <2>1, <3>1 DEF TableInv, TableTyped
    <3>3. \A e \in Entity : rows'[e].seq <= Len(log)
      BY <2>1, <2>6, <3>1
    <3>4. LiveHasNumber'
      BY <2>1, <3>1 DEF TableInv, LiveHasNumber
    <3> QED
      BY <1>0, <2>1, <2>8, <3>2, <3>3, <3>4 DEF TableInv, TableTyped, NumbersGivenOut
  <2>10. TopSurvives'
    <3>1. CASE unscoped = Len(log)
      BY <1>0, <3>1 DEF TopSurvives
    <3>2. CASE \E e \in Entity : rows[e].seq = Len(log)
      <4>1. PICK e \in Entity : rows[e].seq = Len(log)
        BY <3>2
      <4>2. e \notin S
        BY <2>5, <2>6, <4>1
      <4> QED
        BY <1>0, <2>1, <4>1, <4>2 DEF TopSurvives
    <3> QED
      BY <3>1, <3>2 DEF TableInv, TopSurvives
  <2>11. TableIsTheLog'
    <3> SUFFICES ASSUME NEW f \in Entity
                 PROVE  IF IsRow(rows'[f])
                        THEN /\ Last(f, rows'[f].seq, Len(log))
                             /\ rows'[f].live = log[rows'[f].seq].live
                             /\ rows'[f].live \/ rows'[f].seq > floor'
                        ELSE \A n \in 1..Len(log) :
                               Last(f, n, Len(log)) => ~log[n].live /\ n <= floor'
      BY <1>0 DEF TableIsTheLog, Last, Replica!IsLast
    <3>0. IF IsRow(rows[f])
          THEN /\ Last(f, rows[f].seq, Len(log))
               /\ rows[f].live = log[rows[f].seq].live
               /\ rows[f].live \/ rows[f].seq > floor
          ELSE \A n \in 1..Len(log) :
                 Last(f, n, Len(log)) => ~log[n].live /\ n <= floor
      BY DEF TableInv, TableIsTheLog, Last
    <3>1. CASE f \in S
      <4>1. rows'[f] = NoRow /\ ~IsRow(rows'[f])
        BY <2>1, <3>1 DEF NoRow, Row, IsRow
      <4>2. IsRow(rows[f]) /\ ~rows[f].live
        BY <2>6, <3>1 DEF IsTombstone
      <4>3. \A n \in 1..Len(log) : Last(f, n, Len(log)) => n = rows[f].seq
        BY <2>6, <3>0, <4>2, LastUnique
      <4> QED
        BY <2>7, <3>0, <3>1, <4>1, <4>2, <4>3
    <3>2. CASE f \notin S
      <4>1. rows'[f] = rows[f]
        BY <2>1, <3>2
      <4>2. CASE IsRow(rows[f])
        <5>1. rows[f].live \/ f \in Tombstones \ S
          BY <3>2, <4>2 DEF Tombstones, IsTombstone
        <5> QED
          BY <2>8, <3>0, <4>1, <4>2, <5>1
      <4>3. CASE ~IsRow(rows[f])
        BY <2>6, <2>7, <2>8, <3>0, <4>1, <4>3
      <4> QED
        BY <4>2, <4>3
    <3> QED
      BY <3>1, <3>2
  <2> QED
    BY <2>9, <2>10, <2>11 DEF TableInv
<1> QED
  BY <1>1, <1>2

LEMMA TableStep == TableInv /\ [Next]_vars => TableInv'
<1> SUFFICES ASSUME TableInv, [Next]_vars PROVE TableInv'
  OBVIOUS
<1>1. ASSUME UNCHANGED table PROVE TableInv'
  BY <1>1 DEF table, TableInv, TableTyped, NumbersGivenOut, LiveHasNumber, TopSurvives,
              TableIsTheLog, Replica!IsLast
<1>2. CASE Write
  BY <1>2, PutEntityTable, PutUnscopedTable, ElsewhereTable DEF Write
<1>3. CASE PruneDue
  <2>1. UNCHANGED <<rows, floor, unscoped, elsewhere, log>> /\ pruning' = TRUE
    BY <1>3 DEF PruneDue
  <2> QED
    BY <2>1 DEF TableInv, TableTyped, NumbersGivenOut, LiveHasNumber, TopSurvives,
                TableIsTheLog, Replica!IsLast
<1>4. CASE PruneBatchOnce
  BY <1>4, PruneBatchTable
<1>5. CASE Pull
  BY <1>1, <1>5 DEF Pull, RefreshStart, PullRequest, PullAnswer, PullFails,
     PullReset, PullApply, PullInterrupted, PullFinish, Reacquire, EpochChanged
<1>6. CASE Stream
  BY <1>1, <1>6 DEF Stream, Subscribe, SendFrame, ApplyFrame, FrameInterrupted,
     Disconnect
<1>7. CASE UNCHANGED vars
  BY <1>1, <1>7 DEF vars
<1> QED
  BY <1>2, <1>3, <1>4, <1>5, <1>6, <1>7 DEF Next, Prune

LEMMA TableAlways == Spec => []TableInv
  BY TableInit, TableStep, PTL DEF Spec
-----------------------------------------------------------------------------
(* The numbers given out so far. *)
Given == 0..Len(log)

(* The frames on the stream, each right for ever about what it was read at. *)
Doc == [entity: Entity, seq: Nat, live: BOOLEAN]

FrameRecord == [snapshot: BOOLEAN, after: Nat, through: Nat, docs: SUBSET Doc]

DocRight(d, t) == Last(d.entity, d.seq, t) /\ d.live = log[d.seq].live

FrameRight(f) ==
  /\ f.after <= f.through /\ f.through <= Len(log)
  /\ f.snapshot => f.after = 0
  /\ \A d \in f.docs : DocRight(d, f.through)
  /\ \A e \in Entity, k \in Nat :
       /\ Last(e, k, f.through)
       /\ k > f.after
       /\ f.snapshot => log[k].live
       => \E d \in f.docs : d.entity = e

StreamTyped ==
  stream \in [open: BOOLEAN, base: Nat \cup {None}, first: BOOLEAN,
              frames: Seq(FrameRecord)]

FramesRight == \A i \in 1..Len(stream.frames) : FrameRight(stream.frames[i])

BaseGiven == stream.base \in Given \cup {None}

StreamInv == StreamTyped /\ FramesRight /\ BaseGiven

(* A row of the table is right at every position from its number on. *)
LEMMA RowRight ==
  ASSUME TableInv, NEW e \in Entity, IsRow(rows[e]),
         NEW t \in 0..Len(log), rows[e].seq <= t
  PROVE  DocRight([entity |-> e, seq |-> rows[e].seq, live |-> rows[e].live], t)
<1>1. Last(e, rows[e].seq, Len(log)) /\ rows[e].live = log[rows[e].seq].live
  BY DEF TableInv, TableIsTheLog, Last
<1>2. rows[e].seq \in Nat /\ Len(log) \in Nat
  BY DEF TableInv, TableTyped
<1>3. Last(e, rows[e].seq, t)
  BY <1>1, <1>2 DEF Last, Replica!IsLast
<1> QED
  BY <1>1, <1>3 DEF DocRight

LEMMA FrameIsRight ==
  ASSUME TableInv, NEW since \in Nat \cup {None}
  PROVE  Frame(since) \in FrameRecord /\ FrameRight(Frame(since))
<1> DEFINE snap == since = None \/ since < floor \/ since > MaxSequence
           after == IF snap THEN 0 ELSE since
           S == {e \in Entity : rows[e].seq > after /\ (~snap \/ rows[e].live)}
           f == Frame(since)
<1>0. /\ MaxSequence \in 0..Len(log) /\ floor <= MaxSequence
      /\ \A e \in Entity : rows[e].seq \in 0..MaxSequence
      /\ Len(log) \in Nat /\ floor \in Nat
      /\ \A e \in Entity : rows[e] \in [seq: Nat, live: BOOLEAN]
  BY Numbering DEF TableInv, TableTyped
<1>1. snap \in BOOLEAN /\ after \in 0..MaxSequence /\ (snap => after = 0)
      /\ (~snap => floor <= after)
  BY <1>0 DEF None
<1>2. f = [snapshot |-> snap, after |-> after, through |-> MaxSequence,
           docs |-> DocsOf(S)]
  BY DEF Frame
<1> HIDE DEF snap, after, f
<1>3. /\ f.snapshot = snap /\ f.after = after /\ f.through = MaxSequence
      /\ f.docs = DocsOf(S)
  BY <1>2
<1>4. DocsOf(S) \in SUBSET Doc
  BY <1>0 DEF DocsOf, Doc
<1>5. f \in FrameRecord
  BY <1>0, <1>1, <1>2, <1>4 DEF FrameRecord
<1>6. ASSUME NEW d \in DocsOf(S) PROVE DocRight(d, MaxSequence)
  <2>1. PICK e \in S : d = [entity |-> e, seq |-> rows[e].seq, live |-> rows[e].live]
    BY <1>6 DEF DocsOf
  <2>2. e \in Entity /\ rows[e].seq > 0 /\ rows[e].seq <= MaxSequence
    BY <1>0, <1>1
  <2> QED
    BY <1>0, <2>1, <2>2, RowRight DEF IsRow
<1>7. ASSUME NEW e \in Entity, NEW k \in Nat, Last(e, k, MaxSequence),
             k > after, snap => log[k].live
      PROVE  \E d \in DocsOf(S) : d.entity = e
  <2>1. IsRow(rows[e])
    <3> SUFFICES ASSUME ~IsRow(rows[e]) PROVE FALSE
      OBVIOUS
    <3>1. k \in 1..Len(log) /\ log[k].entity = e
      BY <1>0, <1>7 DEF Last, Replica!IsLast
    <3>2. PICK n \in k..Len(log) : Last(e, n, Len(log))
      BY <1>0, <3>1, LastExists
    <3>3. ~log[n].live /\ n <= floor
      BY <1>0, <3>1, <3>2 DEF TableInv, TableIsTheLog, Last
    <3>4. n <= MaxSequence
      BY <1>0, <3>2, <3>3
    <3>5. n = k
      BY <1>0, <1>7, <3>2, <3>4 DEF Last, Replica!IsLast
    <3> QED
      BY <1>0, <1>1, <1>7, <3>3, <3>5
  <2>2. DocRight([entity |-> e, seq |-> rows[e].seq, live |-> rows[e].live], MaxSequence)
    BY <1>0, <2>1, RowRight
  <2>3. rows[e].seq = k /\ rows[e].live = log[k].live
    BY <1>0, <1>7, <2>2, LastUnique DEF DocRight
  <2>4. e \in S
    BY <1>0, <1>1, <1>7, <2>3
  <2>5. [entity |-> e, seq |-> rows[e].seq, live |-> rows[e].live] \in DocsOf(S)
    BY <2>4 DEF DocsOf
  <2> QED
    BY <2>5
<1> HIDE DEF S
<1>8. FrameRight(f)
  BY <1>0, <1>1, <1>3, <1>6, <1>7 DEF FrameRight
<1> QED
  BY <1>5, <1>8 DEF f

LEMMA FrameStaysRight ==
  ASSUME TableInv, NEW f \in FrameRecord, FrameRight(f),
         \/ \E w \in LogEntry : log' = Logged(w)
         \/ UNCHANGED log
  PROVE  FrameRight(f)'
<1>1. CASE UNCHANGED log
  BY <1>1 DEF FrameRight, DocRight, Last, Replica!IsLast
<1>2. CASE \E w \in LogEntry : log' = Logged(w)
  <2>1. PICK w \in LogEntry : log' = Logged(w)
    BY <1>2
  <2>2. /\ Len(log) < Len(log') /\ Len(log) \in Nat /\ Len(log') \in Nat
        /\ \A n \in 1..Len(log) : log'[n] = log[n]
        /\ \A e \in Entity, p \in 0..Len(log), n \in Nat :
             Last(e, n, p)' <=> Last(e, n, p)
    BY <2>1, Extended
  <2>3. f.through \in 0..Len(log) /\ f.docs \in SUBSET Doc
    BY <2>2 DEF FrameRight, FrameRecord
  <2>4. \A e \in Entity, n \in Nat : Last(e, n, f.through) => n \in 1..Len(log)
    BY <2>2, <2>3 DEF Last, Replica!IsLast
  <2>5. \A e \in Entity, n \in Nat :
          Last(e, n, f.through)' <=> Last(e, n, f.through)
    BY <2>2, <2>3
  <2>6. ASSUME NEW d \in f.docs PROVE DocRight(d, f.through)'
    <3>1. d.entity \in Entity /\ d.seq \in Nat /\ DocRight(d, f.through)
      BY <2>3, <2>6 DEF Doc, FrameRight
    <3> QED
      BY <2>2, <2>4, <2>5, <3>1 DEF DocRight
  <2>7. ASSUME NEW e \in Entity, NEW k \in Nat, Last(e, k, f.through)',
               k > f.after, f.snapshot => log'[k].live
        PROVE  \E d \in f.docs : d.entity = e
    BY <2>2, <2>4, <2>5, <2>7 DEF FrameRight
  <2>8. /\ f.after <= f.through /\ f.through <= Len(log')
        /\ f.snapshot => f.after = 0
    BY <2>2, <2>3 DEF FrameRight
  <2> QED
    BY <2>6, <2>7, <2>8, Zenon DEF FrameRight
<1> QED
  BY <1>1, <1>2
-----------------------------------------------------------------------------
(* The client's own state: every number it holds was given out. *)
ClientTyped ==
  /\ cache \in [Entity -> [seq: Given, live: BOOLEAN, evicted: BOOLEAN]]
  /\ ckpt \in [seq: Given, high: Given]
  /\ marker \in Given \cup {None}
  /\ complete \in BOOLEAN
  /\ ready \in {"none", "ready", "resetting"}
  /\ resetKnown \in BOOLEAN

PullTyped ==
  /\ pull.at \in {"idle", "loop", "request", "reply", "finish"}
  /\ pull.at \in {"loop", "request", "reply"} =>
       pull.mark \in Given \cup {None} /\ pull.high \in Given \cup {None}
  /\ pull.at \in {"request", "reply"} => pull.after \in Given
  /\ pull.at = "reply" /\ ~pull.reply.reset =>
       /\ pull.reply.checkpoint \in Given
       /\ pull.reply.initialHigh \in Given
       /\ pull.reply.docs \in SUBSET [entity: Entity, seq: Given, live: BOOLEAN]

BaseInv == TableInv /\ StreamInv /\ ClientTyped /\ PullTyped

LEMMA LogGrows ==
  ASSUME TableInv, [Next]_vars
  PROVE  /\ (\E w \in LogEntry : log' = Logged(w)) \/ UNCHANGED log
         /\ Len(log) \in Nat /\ Len(log') \in Nat /\ Len(log) <= Len(log')
         /\ Given \subseteq Given'
<1>1. (\E w \in LogEntry : log' = Logged(w)) \/ UNCHANGED log
  <2>1. CASE Write
    <3>1. CASE PutUnscoped
      <4>1. [entity |-> Elsewhere, live |-> TRUE] \in LogEntry
        BY DEF LogEntry
      <4> QED
        BY <3>1, <4>1 DEF PutUnscoped
    <3>3. CASE WriteElsewhere \/ DeleteElsewhere
      BY <3>3 DEF WriteElsewhere, DeleteElsewhere
    <3>2. CASE \E e \in Entity, live \in BOOLEAN : PutEntity(e, live)
      <4>1. PICK e \in Entity, live \in BOOLEAN : PutEntity(e, live)
        BY <3>2
      <4>2. [entity |-> e, live |-> live] \in LogEntry
        BY DEF LogEntry
      <4> QED
        BY <4>1, <4>2 DEF PutEntity
    <3> QED
      BY <2>1, <3>1, <3>2, <3>3 DEF Write
  <2>2. CASE Prune
    BY <2>2 DEF Prune, PruneDue, PruneBatchOnce
  <2>3. CASE Pull
    BY <2>3 DEF Pull, RefreshStart, PullRequest, PullAnswer, PullFails, table,
       PullReset, PullApply, PullInterrupted, PullFinish, Reacquire, EpochChanged
  <2>4. CASE Stream
    BY <2>4 DEF Stream, Subscribe, SendFrame, ApplyFrame, FrameInterrupted,
       Disconnect, table
  <2>5. CASE UNCHANGED vars
    BY <2>5 DEF vars, table
  <2> QED
    BY <2>1, <2>2, <2>3, <2>4, <2>5 DEF Next
<1>2. log \in Seq(LogEntry)
  BY DEF TableInv, TableTyped
<1>3. Len(log) \in Nat /\ Len(log') \in Nat /\ Len(log) <= Len(log')
  BY <1>1, <1>2, Extended
<1> QED
  BY <1>1, <1>3 DEF Given

LEMMA ClosedTyped ==
  /\ Closed \in [open: BOOLEAN, base: Nat \cup {None}, first: BOOLEAN,
                 frames: Seq(FrameRecord)]
  /\ Closed.frames = << >>
  /\ Closed.base = None
BY DEF Closed

LEMMA CursorTyped ==
  ASSUME ClientTyped
  PROVE  Cursor \in Given \cup {None} /\ (Cursor # None => Cursor = ckpt.seq)
BY DEF ClientTyped, Cursor

LEMMA StreamStep == BaseInv /\ [Next]_vars => StreamInv'
<1> SUFFICES ASSUME BaseInv, [Next]_vars PROVE StreamInv'
  OBVIOUS
<1>0. TableInv /\ StreamTyped /\ FramesRight /\ BaseGiven /\ ClientTyped
  BY DEF BaseInv, StreamInv
<1>1. /\ (\E w \in LogEntry : log' = Logged(w)) \/ UNCHANGED log
      /\ Len(log) \in Nat
      /\ Given \subseteq Given' /\ (UNCHANGED log => Given' = Given)
  BY <1>0, LogGrows DEF Given
<1>2. \A i \in 1..Len(stream.frames) : stream.frames[i] \in FrameRecord
  BY <1>0 DEF StreamTyped
<1>3. \A i \in 1..Len(stream.frames) : FrameRight(stream.frames[i])
  BY <1>0 DEF FramesRight
<1>4. ASSUME NEW f \in FrameRecord, FrameRight(f) PROVE FrameRight(f)'
  BY <1>0, <1>1, <1>4, FrameStaysRight
<1>5. ASSUME UNCHANGED stream PROVE StreamInv'
  <2>1. ASSUME NEW i \in 1..Len(stream.frames) PROVE FrameRight(stream.frames[i])'
    <3> DEFINE f == stream.frames[i]
    <3>1. f \in FrameRecord /\ FrameRight(f)
      BY <1>2, <1>3
    <3> HIDE DEF f
    <3>2. \A g \in FrameRecord : FrameRight(g) => FrameRight(g)'
      BY <1>4
    <3>3. PICK g \in FrameRecord : g = f
      BY <3>1
    <3>4. FrameRight(g)'
      BY <3>1, <3>2, <3>3
    <3>5. stream.frames'[i] = g
      BY <1>5, <3>3 DEF f
    <3> QED
      BY <3>4, <3>5 DEF FrameRight
  <2> QED
    BY <1>0, <1>1, <1>5, <2>1 DEF StreamInv, StreamTyped, FramesRight, BaseGiven
<1>6. ASSUME stream' = Closed PROVE StreamInv'
  BY <1>6, ClosedTyped DEF StreamInv, StreamTyped, FramesRight, BaseGiven
<1>7. CASE Subscribe
  <2>1. stream' = [open |-> TRUE, base |-> Cursor, first |-> TRUE, frames |-> << >>]
    BY <1>7 DEF Subscribe
  <2>2. Cursor \in Nat \cup {None} /\ Cursor \in Given \cup {None}
    BY <1>0, <1>1, CursorTyped DEF Given
  <2>3. UNCHANGED log
    BY <1>7 DEF Subscribe, table
  <2> QED
    BY <1>1, <2>1, <2>2, <2>3 DEF StreamInv, StreamTyped, FramesRight, BaseGiven
<1>8. CASE SendFrame
  <2> DEFINE f == Frame(stream.base)
  <2>1. /\ stream' = [stream EXCEPT !.base = f.through, !.first = FALSE,
                                   !.frames = Append(@, f)]
        /\ UNCHANGED log
    BY <1>8 DEF SendFrame, table
  <2>2. f \in FrameRecord /\ FrameRight(f)
    BY <1>0, FrameIsRight DEF StreamTyped
  <2> HIDE DEF f
  <2>3. f.through \in Nat
    BY <2>2 DEF FrameRecord
  <2>4. StreamTyped'
    <3>1. Append(stream.frames, f) \in Seq(FrameRecord)
      BY <1>0, <2>2 DEF StreamTyped
    <3> QED
      BY <1>0, <2>1, <2>3, <3>1 DEF StreamTyped
  <2>5. \A i \in 1..Len(stream'.frames) : FrameRight(stream'.frames[i])
    <3>1. stream'.frames = Append(stream.frames, f) /\ stream.frames \in Seq(FrameRecord)
      BY <1>0, <2>1 DEF StreamTyped
    <3>2. /\ Len(stream'.frames) = Len(stream.frames) + 1
          /\ \A i \in 1..Len(stream.frames) : stream'.frames[i] = stream.frames[i]
          /\ stream'.frames[Len(stream.frames) + 1] = f
          /\ Len(stream.frames) \in Nat
      BY <2>2, <3>1
    <3>3. \A i \in 1..Len(stream'.frames) : i \in 1..Len(stream.frames)
                                              \/ i = Len(stream.frames) + 1
      BY <3>2
    <3> QED
      BY <1>3, <2>2, <3>2, <3>3
  <2>6. BaseGiven'
    <3>1. stream'.base = f.through /\ f.through \in Given
      BY <1>0, <1>1, <2>1, <2>2, <2>3 DEF StreamTyped, FrameRight, Given
    <3> QED
      BY <1>1, <2>1, <3>1 DEF BaseGiven
  <2> QED
    BY <2>1, <2>4, <2>5, <2>6
       DEF StreamInv, FramesRight, FrameRight, DocRight, Last, Replica!IsLast
<1>9. CASE ApplyFrame
  <2>1. CASE stream' = Closed
    BY <1>6, <2>1
  <2>2. CASE stream' # Closed
    <3>1. /\ stream.frames # << >> /\ UNCHANGED log
          /\ stream' = [stream EXCEPT !.frames = Tail(@)]
      BY <1>9, <2>2 DEF ApplyFrame, table
    <3>2. StreamTyped'
      <4>1. Tail(stream.frames) \in Seq(FrameRecord)
        BY <1>0, <3>1 DEF StreamTyped
      <4> QED
        BY <1>0, <3>1, <4>1 DEF StreamTyped
    <3>3. \A i \in 1..Len(stream'.frames) : FrameRight(stream'.frames[i])
      <4>1. stream'.frames = Tail(stream.frames) /\ stream.frames \in Seq(FrameRecord)
        BY <1>0, <3>1 DEF StreamTyped
      <4>2. \A i \in 1..Len(stream'.frames) :
              /\ i + 1 \in 1..Len(stream.frames)
              /\ stream'.frames[i] = stream.frames[i + 1]
        BY <3>1, <4>1
      <4> QED
        BY <1>3, <4>2
    <3>4. BaseGiven'
      BY <1>0, <1>1, <3>1 DEF BaseGiven, StreamTyped
    <3> QED
      BY <3>1, <3>2, <3>3, <3>4
         DEF StreamInv, FramesRight, FrameRight, DocRight, Last, Replica!IsLast
  <2> QED
    BY <2>1, <2>2
<1>10. CASE FrameInterrupted \/ Disconnect
  BY <1>6, <1>10 DEF FrameInterrupted, Disconnect
<1>11. CASE Write \/ Prune
  BY <1>5, <1>11 DEF Write, Prune, PutEntity, PutUnscoped, WriteElsewhere,
     DeleteElsewhere, PruneDue, PruneBatchOnce
<1>12. CASE Pull
  BY <1>5, <1>12 DEF Pull, RefreshStart, PullRequest, PullAnswer, PullFails,
     PullReset, PullApply, PullInterrupted, PullFinish, Reacquire, EpochChanged
<1>13. CASE UNCHANGED vars
  BY <1>5, <1>13 DEF vars
<1> QED
  BY <1>7, <1>8, <1>9, <1>10, <1>11, <1>12, <1>13 DEF Next, Stream

CacheRecord == [seq: Given, live: BOOLEAN, evicted: BOOLEAN]
DocRecord == [entity: Entity, seq: Given, live: BOOLEAN]

(* What persistProjectionBatch leaves of one entity. *)
LEMMA PersistedRow ==
  ASSUME NEW docs, NEW e \in Entity
  PROVE  \/ (\A d \in docs : d.entity # e) /\ Persisted(docs)[e] = cache[e]
         \/ \E d \in docs :
              /\ d.entity = e
              /\ Persisted(docs)[e] =
                   IF Supersedes(cache[e], CacheRow(d.seq, d.live, FALSE))
                   THEN cache[e] ELSE CacheRow(d.seq, d.live, FALSE)
<1>1. CASE \E d \in docs : d.entity = e
  <2> DEFINE d == CHOOSE d \in docs : d.entity = e
  <2>1. d \in docs /\ d.entity = e
    BY <1>1
  <2>2. Persisted(docs)[e] =
          IF Supersedes(cache[e], CacheRow(d.seq, d.live, FALSE))
          THEN cache[e] ELSE CacheRow(d.seq, d.live, FALSE)
    BY <1>1 DEF Persisted
  <2> HIDE DEF d
  <2> QED
    BY <2>1, <2>2
<1>2. CASE ~ \E d \in docs : d.entity = e
  BY <1>2 DEF Persisted
<1> QED
  BY <1>1, <1>2

LEMMA PersistedTyped ==
  ASSUME ClientTyped, NEW docs \in SUBSET DocRecord
  PROVE  Persisted(docs) \in [Entity -> CacheRecord]
<1>1. ASSUME NEW e \in Entity PROVE Persisted(docs)[e] \in CacheRecord
  <2>1. cache[e] \in CacheRecord
    BY DEF ClientTyped, CacheRecord
  <2>2. \A d \in docs : CacheRow(d.seq, d.live, FALSE) \in CacheRecord
    BY DEF CacheRow, CacheRecord, DocRecord
  <2> QED
    BY <2>1, <2>2, PersistedRow
<1>2. Persisted(docs) = [e \in Entity |-> Persisted(docs)[e]]
  BY DEF Persisted
<1> QED
  BY <1>1, <1>2

LEMMA HeadFrame ==
  ASSUME TableInv, StreamInv, stream.frames # << >>
  PROVE  LET f == Head(stream.frames)
         IN  /\ f \in FrameRecord /\ FrameRight(f)
             /\ f.through \in Given /\ f.after \in Given
             /\ f.docs \in SUBSET DocRecord
<1> DEFINE f == Head(stream.frames)
<1>1. f = stream.frames[1] /\ 1 \in 1..Len(stream.frames) /\ f \in FrameRecord
  BY DEF StreamInv, StreamTyped
<1>2. FrameRight(f)
  BY <1>1 DEF StreamInv, FramesRight
<1> HIDE DEF f
<1>3. Len(log) \in Nat
  BY DEF TableInv, TableTyped
<1>4. f.through \in Given /\ f.after \in Given
  BY <1>1, <1>2, <1>3 DEF FrameRight, FrameRecord, Given
<1>5. ASSUME NEW d \in f.docs PROVE d \in DocRecord
  <2>1. d \in Doc /\ DocRight(d, f.through)
    BY <1>1, <1>2 DEF FrameRecord, FrameRight
  <2>2. d.seq \in Given
    BY <1>3, <1>4, <2>1 DEF DocRight, Last, Replica!IsLast, Given
  <2> QED
    BY <2>1, <2>2 DEF Doc, DocRecord
<1> QED
  BY <1>1, <1>2, <1>4, <1>5 DEF f

LEMMA EvictedTyped ==
  ASSUME NEW f, NEW stored \in [Entity -> CacheRecord]
  PROVE  Evicted(f, stored) \in [Entity -> CacheRecord]
<1>1. \A e \in Entity : CacheRow(stored[e].seq, FALSE, TRUE) \in CacheRecord
  BY DEF CacheRow, CacheRecord
<1> QED
  BY <1>1 DEF Evicted

LEMMA AdvancedTyped ==
  ASSUME TableInv, ClientTyped, NEW seq \in Given, NEW high \in Given
  PROVE  /\ Advanced(seq, high) \in [seq: Given, high: Given]
         /\ ckpt.seq <= Advanced(seq, high).seq
         /\ seq <= Advanced(seq, high).seq
<1>1. Given \in SUBSET Nat
  BY DEF Given, TableInv, TableTyped
<1>2. ckpt.seq \in Nat /\ seq \in Nat /\ ckpt \in [seq: Given, high: Given]
  BY <1>1 DEF ClientTyped
<1>3. CASE ckpt.seq < seq
  <2>1. Advanced(seq, high) = [seq |-> seq, high |-> high]
    BY <1>3 DEF Advanced
  <2>2. Advanced(seq, high).seq = seq
    BY <2>1
  <2>3. ckpt.seq <= seq /\ seq <= seq
    BY <1>2, <1>3
  <2> QED
    BY <2>1, <2>2, <2>3
<1>4. CASE ~(ckpt.seq < seq)
  <2>1. Advanced(seq, high) = ckpt
    BY <1>4 DEF Advanced
  <2>2. seq <= ckpt.seq /\ ckpt.seq <= ckpt.seq
    BY <1>2, <1>4
  <2> QED
    BY <1>2, <2>1, <2>2
<1> QED
  BY <1>3, <1>4

LEMMA ResetTyped ==
  ASSUME TableInv, ClientTyped, ResetProjection, UNCHANGED log
  PROVE  ClientTyped'
<1>0. 0 \in Given /\ Given' = Given
  BY DEF Given, TableInv, TableTyped
<1>1. NoCacheRow \in CacheRecord
  BY <1>0 DEF NoCacheRow, CacheRow, CacheRecord
<1>2. cache' \in [Entity -> CacheRecord]
  BY <1>1 DEF ResetProjection, ClientTyped, CacheRecord
<1> QED
  BY <1>0, <1>2 DEF ResetProjection, ClientTyped, CacheRecord

LEMMA ClientStep == BaseInv /\ [Next]_vars => ClientTyped'
<1> SUFFICES ASSUME BaseInv, [Next]_vars PROVE ClientTyped'
  OBVIOUS
<1>0. TableInv /\ StreamInv /\ ClientTyped /\ PullTyped
  BY DEF BaseInv
<1>1. Given \subseteq Given' /\ (UNCHANGED log => Given' = Given)
  BY <1>0, LogGrows DEF Given
<1>2. ASSUME UNCHANGED <<projection, resetKnown>> PROVE ClientTyped'
  <2>1. cache' \in [Entity -> [seq: Given', live: BOOLEAN, evicted: BOOLEAN]]
    BY <1>0, <1>1, <1>2 DEF ClientTyped, projection
  <2> QED
    BY <1>0, <1>1, <1>2, <2>1 DEF ClientTyped, projection
<1>3. CASE RefreshStart
  BY <1>0, <1>2, <1>3, ResetTyped DEF RefreshStart, table
<1>4. CASE PullReset
  BY <1>0, <1>4, ResetTyped DEF PullReset, table
<1>5. CASE PullApply
  <2> DEFINE r == pull.reply
  <2>1. /\ r.checkpoint \in Given /\ r.initialHigh \in Given
        /\ r.docs \in SUBSET DocRecord
    BY <1>0, <1>5 DEF PullApply, PullTyped, DocRecord
  <2>2. /\ cache' = Persisted(r.docs)
        /\ ckpt' = Advanced(r.checkpoint, r.initialHigh)
        /\ marker' \in {r.initialHigh, marker}
        /\ ready' \in {"ready", ready}
        /\ UNCHANGED <<log, complete, resetKnown>>
    BY <1>5 DEF PullApply, table
  <2> HIDE DEF r
  <2>3. cache' \in [Entity -> CacheRecord]
    BY <1>0, <2>1, <2>2, PersistedTyped
  <2>4. ckpt' \in [seq: Given, high: Given]
    BY <1>0, <2>1, <2>2, AdvancedTyped
  <2> QED
    BY <1>0, <1>1, <2>1, <2>2, <2>3, <2>4 DEF ClientTyped, CacheRecord
<1>6. CASE PullInterrupted
  <2> DEFINE r == pull.reply
  <2>1. r.initialHigh \in Given /\ r.docs \in SUBSET DocRecord
    BY <1>0, <1>6 DEF PullInterrupted, PullTyped, DocRecord
  <2>2. PICK stored \in {{}, r.docs} : cache' = Persisted(stored)
    BY <1>6 DEF PullInterrupted
  <2>4. /\ marker' \in {r.initialHigh, marker}
        /\ UNCHANGED <<log, ckpt, complete, ready, resetKnown>>
    BY <1>6 DEF PullInterrupted, table
  <2> HIDE DEF r
  <2>3. cache' \in [Entity -> CacheRecord]
    BY <1>0, <2>1, <2>2, PersistedTyped
  <2> QED
    BY <1>0, <1>1, <2>1, <2>3, <2>4 DEF ClientTyped, CacheRecord
<1>7. CASE PullFinish
  BY <1>0, <1>1, <1>7 DEF PullFinish, ClientTyped, table
<1>8. CASE Reacquire
  BY <1>0, <1>1, <1>8 DEF Reacquire, ClientTyped, table, projection
<1>9. CASE ApplyFrame
  <2> DEFINE f == Head(stream.frames)
  <2>0. UNCHANGED <<log, resetKnown>>
    BY <1>9 DEF ApplyFrame, table
  <2>1. CASE UNCHANGED projection
    BY <1>2, <2>0, <2>1
  <2>2. CASE ~UNCHANGED projection
    <3>1. /\ cache' = Evicted(f, Persisted(f.docs))
          /\ ckpt' = Advanced(f.through, 0)
          /\ (complete' = TRUE /\ ready' = "ready") \/ UNCHANGED <<complete, ready>>
          /\ UNCHANGED marker
      BY <1>9, <2>2 DEF ApplyFrame, Whole
    <3>2. stream.frames # << >>
      BY <1>9 DEF ApplyFrame
    <3>3. f.docs \in SUBSET DocRecord /\ f.through \in Given
      BY <1>0, <3>2, HeadFrame
    <3> HIDE DEF f
    <3>4. cache' \in [Entity -> CacheRecord]
      BY <1>0, <3>1, <3>3, PersistedTyped, EvictedTyped
    <3>5. 0 \in Given
      BY <1>0 DEF Given, TableInv, TableTyped
    <3>6. ckpt' \in [seq: Given, high: Given]
      BY <1>0, <3>1, <3>3, <3>5, AdvancedTyped
    <3> QED
      BY <1>0, <1>1, <2>0, <3>1, <3>4, <3>6 DEF ClientTyped, CacheRecord
  <2> QED
    BY <2>1, <2>2
<1>10. CASE FrameInterrupted
  <2> DEFINE f == Head(stream.frames)
  <2>1. /\ stream.frames # << >>
        /\ UNCHANGED <<log, marker, ready, resetKnown>>
    BY <1>10 DEF FrameInterrupted, Applying, table
  <2>2. f.docs \in SUBSET DocRecord /\ f.through \in Given /\ f.snapshot \in BOOLEAN
    BY <1>0, <2>1, HeadFrame DEF FrameRecord
  <2>3. \/ /\ \E stored \in SUBSET f.docs, gone \in SUBSET Entity :
               cache' = [e \in Entity |-> IF e \in gone
                                         THEN Evicted(f, Persisted(stored))[e]
                                         ELSE Persisted(stored)[e]]
           /\ UNCHANGED <<ckpt, complete>>
        \/ /\ cache' = Evicted(f, Persisted(f.docs))
           /\ ckpt' = Advanced(f.through, 0)
           /\ complete' \in {complete, complete \/ f.snapshot}
    BY <1>10 DEF FrameInterrupted
  <2> HIDE DEF f
  <2>4. CASE UNCHANGED <<ckpt, complete>> /\
             \E stored \in SUBSET f.docs, gone \in SUBSET Entity :
               cache' = [e \in Entity |-> IF e \in gone
                                         THEN Evicted(f, Persisted(stored))[e]
                                         ELSE Persisted(stored)[e]]
    <3>1. PICK stored \in SUBSET f.docs, gone \in SUBSET Entity :
             cache' = [e \in Entity |-> IF e \in gone
                                       THEN Evicted(f, Persisted(stored))[e]
                                       ELSE Persisted(stored)[e]]
      BY <2>4
    <3>2. stored \in SUBSET DocRecord
      BY <2>2
    <3>3. /\ Persisted(stored) \in [Entity -> CacheRecord]
          /\ Evicted(f, Persisted(stored)) \in [Entity -> CacheRecord]
      BY <1>0, <3>2, PersistedTyped, EvictedTyped
    <3>4. cache' \in [Entity -> CacheRecord]
      BY <3>1, <3>3
    <3> QED
      BY <1>0, <1>1, <2>1, <2>4, <3>4 DEF ClientTyped, CacheRecord
  <2>5. CASE /\ cache' = Evicted(f, Persisted(f.docs))
             /\ ckpt' = Advanced(f.through, 0)
             /\ complete' \in {complete, complete \/ f.snapshot}
    <3>1. cache' \in [Entity -> CacheRecord]
      BY <1>0, <2>2, <2>5, PersistedTyped, EvictedTyped
    <3>2. 0 \in Given
      BY <1>0 DEF Given, TableInv, TableTyped
    <3>3. ckpt' \in [seq: Given, high: Given]
      BY <1>0, <2>2, <2>5, <3>2, AdvancedTyped
    <3>4. complete' \in BOOLEAN
      BY <1>0, <2>2, <2>5 DEF ClientTyped
    <3> QED
      BY <1>0, <1>1, <2>1, <3>1, <3>3, <3>4 DEF ClientTyped, CacheRecord
  <2> QED
    BY <2>3, <2>4, <2>5
<1>11. CASE Write \/ Prune
  BY <1>2, <1>11 DEF Write, Prune, PutEntity, PutUnscoped, WriteElsewhere,
     DeleteElsewhere, PruneDue, PruneBatchOnce
<1>12. CASE PullRequest \/ PullAnswer \/ PullFails \/ EpochChanged
  BY <1>2, <1>12 DEF PullRequest, PullAnswer, PullFails, EpochChanged
<1>13. CASE Subscribe \/ SendFrame \/ Disconnect
  BY <1>2, <1>13 DEF Subscribe, SendFrame, Disconnect
<1>14. CASE UNCHANGED vars
  BY <1>2, <1>14 DEF vars
<1> QED
  BY <1>3, <1>4, <1>5, <1>6, <1>7, <1>8, <1>9, <1>10, <1>11, <1>12, <1>13, <1>14
     DEF Next, Pull, Stream

(* The answer of a pull: its numbers were given out. *)
LEMMA ReplyTyped ==
  ASSUME TableInv, NEW after \in Given, NEW high \in Given \cup {None}, NEW prio,
         NEW reply \in PullReply(after, high, prio), ~reply.reset
  PROVE  /\ reply.checkpoint \in Given
         /\ reply.initialHigh \in Given
         /\ reply.docs \in SUBSET DocRecord
<1> DEFINE fresh == high # None
           initialHigh == IF ~fresh THEN 0
                          ELSE IF high > 0 THEN Min({MaxSequence, high})
                          ELSE MaxSequence
           selected == Selected(after, fresh, initialHigh)
<1>0. /\ MaxSequence \in Given /\ 0 \in Given /\ Given \in SUBSET Nat
      /\ \A e \in Entity : rows[e].seq \in Given
      /\ \A e \in Entity : rows[e].live \in BOOLEAN
      /\ Len(log) \in Nat
  BY Numbering DEF TableInv, TableTyped, NumbersGivenOut, Given
<1>1. initialHigh \in Given
  <2>1. CASE fresh /\ high > 0
    <3>1. MaxSequence \in Int /\ high \in Given /\ high \in Int
      BY <1>0, <2>1
    <3>2. Min({MaxSequence, high}) \in {MaxSequence, high}
      BY <3>1, MinOfTwo
    <3> QED
      BY <1>0, <2>1, <3>1, <3>2
  <2>2. CASE ~(fresh /\ high > 0)
    BY <1>0, <2>2
  <2> QED
    BY <2>1, <2>2
<1> HIDE DEF initialHigh
<1>2. selected \subseteq Entity
  BY DEF Selected
<1>3. PICK S \in SUBSET selected :
        /\ IsPage(S, selected, prio)
        /\ reply = [reset |-> FALSE, docs |-> DocsOf(S),
                    checkpoint |-> IF Cardinality(S) = PageLimit
                                   THEN LastSeq(S, prio) ELSE MaxSequence,
                    initialHigh |-> initialHigh, maxSeq |-> MaxSequence]
  BY DEF PullReply, ResetReply, initialHigh
<1> HIDE DEF selected
<1>4. S \subseteq Entity
  BY <1>2, <1>3
<1>5. DocsOf(S) \in SUBSET DocRecord
  BY <1>0, <1>4 DEF DocsOf, DocRecord
<1>6. ASSUME Cardinality(S) = PageLimit PROVE LastSeq(S, prio) \in Given
  <2> DEFINE L == IF S = {prio} THEN S ELSE S \ {prio}
             N == {rows[e].seq : e \in L}
  <2>1. S # {}
    BY <1>6, FS_EmptySet, SyncAssumption
  <2>2. L # {} /\ L \subseteq Entity
    BY <1>4, <2>1
  <2> HIDE DEF L
  <2>3. N \in SUBSET (0..Len(log)) /\ N # {}
    BY <1>0, <2>2 DEF Given
  <2> HIDE DEF N
  <2>4. Max(N) \in N
    BY <1>0, <2>3, MaxOf
  <2>5. Max(N) \in Given
    BY <2>3, <2>4 DEF Given
  <2> QED
    BY <2>5 DEF LastSeq, N, L
<1> QED
  BY <1>0, <1>1, <1>3, <1>5, <1>6

LEMMA PullStep == BaseInv /\ [Next]_vars => PullTyped'
<1> SUFFICES ASSUME BaseInv, [Next]_vars PROVE PullTyped'
  OBVIOUS
<1>0. TableInv /\ StreamInv /\ ClientTyped /\ PullTyped
  BY DEF BaseInv
<1>1. Given \subseteq Given' /\ (UNCHANGED log => Given' = Given)
  BY <1>0, LogGrows DEF Given
<1>2. ASSUME UNCHANGED pull PROVE PullTyped'
  <2>1. \A docs : docs \in SUBSET [entity: Entity, seq: Given, live: BOOLEAN]
          => docs \in SUBSET [entity: Entity, seq: Given', live: BOOLEAN]
    BY <1>1
  <2> QED
    BY <1>0, <1>1, <1>2, <2>1 DEF PullTyped
<1>3. 0 \in Given
  BY <1>0 DEF Given, TableInv, TableTyped
<1>4. ASSUME NEW mark \in Given \cup {None}, NEW high \in Given \cup {None}, NEW kind,
             pull' = Loop(mark, high, kind)
      PROVE  PullTyped'
  BY <1>1, <1>4 DEF Loop, PullTyped
<1>5. ASSUME pull' = Idle \/ pull' = [at |-> "finish"] PROVE PullTyped'
  BY <1>5 DEF Idle, PullTyped
<1>6. CASE RefreshStart
  BY <1>0, <1>3, <1>4, <1>6 DEF RefreshStart, ClientTyped
<1>7. CASE PullRequest
  BY <1>0, <1>1, <1>7 DEF PullRequest, PullTyped, ClientTyped, table
<1>8. CASE PullAnswer
  <2>0. pull.after \in Given /\ pull.high \in Given \cup {None} /\ UNCHANGED log
        /\ pull.mark \in Given \cup {None}
    BY <1>0, <1>8 DEF PullAnswer, PullTyped, table
  <2>1. PICK prio : \E reply \in PullReply(pull.after, pull.high, prio) :
          pull' = [at |-> "reply", mark |-> pull.mark, kind |-> pull.kind,
                   after |-> pull.after, high |-> pull.high, reply |-> reply]
    BY <1>8 DEF PullAnswer
  <2>2. PICK reply \in PullReply(pull.after, pull.high, prio) :
          pull' = [at |-> "reply", mark |-> pull.mark, kind |-> pull.kind,
                   after |-> pull.after, high |-> pull.high, reply |-> reply]
    BY <2>1
  <2>3. ~reply.reset => /\ reply.checkpoint \in Given
                        /\ reply.initialHigh \in Given
                        /\ reply.docs \in SUBSET DocRecord
    BY <1>0, <2>0, ReplyTyped
  <2> QED
    BY <1>1, <2>0, <2>2, <2>3 DEF PullTyped, DocRecord
<1>9. CASE PullFails
  BY <1>0, <1>1, <1>5, <1>9 DEF PullFails, PullTyped, table
<1>10. CASE PullReset
  BY <1>0, <1>3, <1>4, <1>10 DEF PullReset, PullTyped
<1>11. CASE PullApply
  <2>1. pull.reply.initialHigh \in Given /\ pull.mark \in Given \cup {None}
    BY <1>0, <1>11 DEF PullApply, PullTyped
  <2>2. \/ pull' = Loop(pull.mark, pull.reply.initialHigh, pull.kind)
        \/ pull' = [at |-> "finish"]
    BY <1>11 DEF PullApply
  <2> QED
    BY <1>4, <1>5, <2>1, <2>2
<1>12. CASE PullInterrupted \/ EpochChanged
  <2>1. \/ pull' = Loop(pull.mark, pull.high, pull.kind)
        \/ pull' = Idle
    BY <1>12 DEF PullInterrupted, EpochChanged
  <2>2. pull.mark \in Given \cup {None} /\ pull.high \in Given \cup {None}
    BY <1>0, <1>12 DEF PullInterrupted, EpochChanged, PullTyped
  <2> QED
    BY <1>4, <1>5, <2>1, <2>2
<1>13. CASE PullFinish \/ Reacquire
  BY <1>5, <1>13 DEF PullFinish, Reacquire
<1>14. CASE Write \/ Prune
  BY <1>2, <1>14 DEF Write, Prune, PutEntity, PutUnscoped, WriteElsewhere,
     DeleteElsewhere, PruneDue, PruneBatchOnce
<1>15. CASE Stream
  BY <1>2, <1>15 DEF Stream, Subscribe, SendFrame, ApplyFrame, FrameInterrupted,
     Disconnect
<1>16. CASE UNCHANGED vars
  BY <1>2, <1>16 DEF vars
<1> QED
  BY <1>6, <1>7, <1>8, <1>9, <1>10, <1>11, <1>12, <1>13, <1>14, <1>15, <1>16
     DEF Next, Pull

LEMMA BaseInit == Init => BaseInv
<1> SUFFICES ASSUME Init PROVE BaseInv
  OBVIOUS
<1>1. TableInv
  BY TableInit
<1>2. Len(log) = 0 /\ Given = {0}
  BY DEF Init, Given
<1>3. StreamInv
  BY ClosedTyped DEF Init, StreamInv, StreamTyped, FramesRight, BaseGiven
<1>4. NoCacheRow \in CacheRecord
  BY <1>2 DEF NoCacheRow, CacheRow, CacheRecord
<1>5. ClientTyped
  BY <1>2, <1>4 DEF Init, ClientTyped, CacheRecord
<1>6. PullTyped
  BY DEF Init, PullTyped, Idle
<1> QED
  BY <1>1, <1>3, <1>5, <1>6 DEF BaseInv

LEMMA BaseStep == BaseInv /\ [Next]_vars => BaseInv'
  BY TableStep, StreamStep, ClientStep, PullStep DEF BaseInv

LEMMA BaseAlways == Spec => []BaseInv
  BY BaseInit, BaseStep, PTL DEF Spec
-----------------------------------------------------------------------------
BoundedFrame ==
  [snapshot: BOOLEAN, after: 0..MaxSeq, through: 0..MaxSeq,
   docs: SUBSET [entity: Entity, seq: 0..MaxSeq, live: BOOLEAN]]

(* Type correctness of the table, the projection, the refresh and the       *)
(* stream (the next_sequence counter, persistProjection and the frames).    *)
THEOREM SyncTypes == Spec => []TypeOK
<1>1. BaseInv => TypeOK
  <2> SUFFICES ASSUME BaseInv PROVE TypeOK
    OBVIOUS
  <2>0. TableInv /\ StreamInv /\ ClientTyped /\ PullTyped
    BY DEF BaseInv
  <2>1. Given \subseteq 0..MaxSeq /\ Len(log) \in Nat
    BY <2>0, SyncAssumption DEF Given, TableInv, TableTyped, NumbersGivenOut
  <2>2. /\ rows \in [Entity -> [seq: 0..MaxSeq, live: BOOLEAN]]
        /\ floor \in 0..MaxSeq /\ unscoped \in 0..MaxSeq /\ elsewhere \in 0..MaxSeq
        /\ pruning \in BOOLEAN
        /\ log \in Seq([entity: Entity \cup {Elsewhere}, live: BOOLEAN])
    <3>1. \A e \in Entity : rows[e].seq \in 0..MaxSeq
      BY <2>0, <2>1, SyncAssumption DEF TableInv, TableTyped, NumbersGivenOut
    <3>2. floor \in 0..MaxSeq /\ unscoped \in 0..MaxSeq /\ elsewhere \in 0..MaxSeq
      BY <2>0, <2>1, SyncAssumption DEF TableInv, TableTyped, NumbersGivenOut
    <3> QED
      BY <2>0, <3>1, <3>2 DEF TableInv, TableTyped, LogEntry
  <2>3. /\ cache \in [Entity -> [seq: 0..MaxSeq, live: BOOLEAN, evicted: BOOLEAN]]
        /\ ckpt \in [seq: 0..MaxSeq, high: 0..MaxSeq]
        /\ marker \in (0..MaxSeq) \cup {None}
        /\ complete \in BOOLEAN
        /\ ready \in {"none", "ready", "resetting"}
        /\ resetKnown \in BOOLEAN
    BY <2>0, <2>1 DEF ClientTyped
  <2>4. pull.at \in {"idle", "loop", "request", "reply", "finish"}
    BY <2>0 DEF PullTyped
  <2>5. stream \in [open: BOOLEAN, base: (0..MaxSeq) \cup {None}, first: BOOLEAN,
                    frames: Seq(BoundedFrame)]
    <3>1. ASSUME NEW i \in 1..Len(stream.frames)
          PROVE  stream.frames[i] \in BoundedFrame
      <4> DEFINE f == stream.frames[i]
      <4>1. f \in FrameRecord /\ FrameRight(f)
        BY <2>0 DEF StreamInv, StreamTyped, FramesRight
      <4> HIDE DEF f
      <4>2. f.after \in 0..MaxSeq /\ f.through \in 0..MaxSeq
        BY <2>1, <4>1 DEF FrameRecord, FrameRight, Given
      <4>3. ASSUME NEW d \in f.docs
            PROVE  d \in [entity: Entity, seq: 0..MaxSeq, live: BOOLEAN]
        <5>1. d \in Doc /\ DocRight(d, f.through)
          BY <4>1 DEF FrameRecord, FrameRight
        <5>2. d.seq \in 0..MaxSeq
          BY <2>1, <4>2, <5>1, SyncAssumption DEF DocRight, Last, Replica!IsLast, Doc
        <5> QED
          BY <5>1, <5>2 DEF Doc
      <4> QED
        BY <4>1, <4>2, <4>3 DEF f, FrameRecord, BoundedFrame
    <3>2. stream.frames \in Seq(BoundedFrame)
      BY <2>0, <3>1 DEF StreamInv, StreamTyped
    <3>3. stream.base \in (0..MaxSeq) \cup {None}
      BY <2>0, <2>1 DEF StreamInv, BaseGiven
    <3> QED
      BY <2>0, <3>2, <3>3 DEF StreamInv, StreamTyped
  <2> QED
    BY <2>2, <2>3, <2>4, <2>5 DEF TypeOK, BoundedFrame
<1> QED
  BY <1>1, BaseAlways, PTL

(* next_sequence stays above every number an entity ever had, the floor and *)
(* the cursors of the client and of its stream, although pruning deletes    *)
(* numbered entities and the durable tables may lose their greatest number. *)
THEOREM SequenceFresh == Spec => []NumbersAreFresh
<1>1. BaseInv => NumbersAreFresh
  <2> SUFFICES ASSUME BaseInv PROVE NumbersAreFresh
    OBVIOUS
  <2>1. NextSequence \in Nat /\ Len(log) < NextSequence
    BY Numbering DEF BaseInv
  <2>2. /\ Len(log) \in Nat /\ floor \in 0..Len(log) /\ ckpt.seq \in 0..Len(log)
        /\ stream.base \in 0..Len(log) \/ stream.base = -1
    BY DEF BaseInv, TableInv, TableTyped, NumbersGivenOut, ClientTyped, StreamInv,
           BaseGiven, Given, None
  <2> QED
    BY <2>1, <2>2 DEF NumbersAreFresh
<1> QED
  BY <1>1, BaseAlways, PTL

(* The table holds the last write of every entity, but for deletions at or  *)
(* below the floor (write_entity_hash, prune_entity_tombstones).            *)
THEOREM TableKeepsLog == Spec => []TableIsTheLog
<1>1. TableInv => TableIsTheLog
  BY DEF TableInv
<1> QED
  BY <1>1, TableAlways, PTL
-----------------------------------------------------------------------------
(* A client fed by the stream alone.  A row of its projection that was not  *)
(* evicted is a write of its entity; where one was, the entity was not      *)
(* there at some position from the row's version on.                        *)
StreamOnly == Paths = {"stream"}

RowFor(e, r) ==
  /\ r.seq = 0 => ~r.live
  /\ r.seq > 0 =>
       /\ log[r.seq].entity = e
       /\ r.live => log[r.seq].live
       /\ ~r.live /\ ~r.evicted => ~log[r.seq].live
  /\ r.evicted => ~r.live /\ \E p \in r.seq..Len(log) : Replica!RightAt(e, 0, p)

CacheRight(e) == RowFor(e, cache[e])

(* Checkpoint and frames stay within the table's numbers, and while the     *)
(* projection is hidden no frame is behind the checkpoint that an           *)
(* interrupted snapshot has left.                                           *)
Frontier ==
  /\ ckpt.seq <= MaxSequence
  /\ \A i \in 1..Len(stream.frames) :
       /\ stream.frames[i].through <= MaxSequence
       /\ Shown \/ ckpt.seq <= stream.frames[i].through

FedByStream ==
  /\ pull = Idle
  /\ Frontier
  /\ \A e \in Entity : CacheRight(e)
  /\ ShownIsFaithful

(* The version that a projection row shows. *)
Version(r) == IF r.live THEN r.seq ELSE 0

LEMMA ViewIsVersion == \A e \in Entity : View[e] = Version(cache[e])
BY DEF View, Version

(* A row that was not evicted was right when it was written. *)
LEMMA RowRightAt ==
  ASSUME NEW e \in Entity, CacheRight(e), cache[e].seq \in Nat \ {0},
         ~cache[e].evicted
  PROVE  Replica!RightAt(e, Version(cache[e]), cache[e].seq)
<1> DEFINE k == cache[e].seq
<1>1. log[k].entity = e /\ (cache[e].live => log[k].live)
      /\ (~cache[e].live => ~log[k].live)
  BY DEF CacheRight, RowFor
<1>2. Replica!IsLast(e, k, k)
  BY <1>1 DEF Replica!IsLast
<1>3. \A n \in 1..k : Replica!IsLast(e, n, k) => n = k
  BY <1>1 DEF Replica!IsLast
<1>4. CASE cache[e].live
  BY <1>1, <1>2, <1>4 DEF Replica!RightAt, Version
<1>5. CASE ~cache[e].live
  BY <1>1, <1>3, <1>5 DEF Replica!RightAt, Version
<1> QED
  BY <1>4, <1>5

(* A row of a frame is right at the position of the frame. *)
LEMMA DocRightAt ==
  ASSUME NEW d \in Doc, NEW t \in Nat, DocRight(d, t)
  PROVE  Replica!RightAt(d.entity, Version(CacheRow(d.seq, d.live, FALSE)), t)
<1>1. /\ Replica!IsLast(d.entity, d.seq, t) /\ d.live = log[d.seq].live
      /\ d.seq \in 1..t
  BY DEF DocRight, Last, Replica!IsLast
<1>2. Version(CacheRow(d.seq, d.live, FALSE)) = IF d.live THEN d.seq ELSE 0
  BY DEF Version, CacheRow
<1>3. \A n \in 1..t : Replica!IsLast(d.entity, n, t) => n = d.seq
  BY <1>1 DEF Replica!IsLast
<1>4. CASE d.live
  <2>0. d.seq # 0
    BY <1>1
  <2>1. Version(CacheRow(d.seq, d.live, FALSE)) = d.seq
    BY <1>2, <1>4, Zenon
  <2>2. log[d.seq].live
    BY <1>1, <1>4
  <2> QED
    BY <1>1, <2>0, <2>1, <2>2 DEF Replica!RightAt
<1>5. CASE ~d.live
  BY <1>1, <1>2, <1>3, <1>5 DEF Replica!RightAt
<1> QED
  BY <1>4, <1>5

(* Storing a row of a frame over what the projection has. *)
LEMMA StoredRight ==
  ASSUME BaseInv, NEW e \in Entity, CacheRight(e),
         NEW d \in Doc, d.entity = e, NEW t \in Given, DocRight(d, t),
         ckpt.seq <= t
  PROVE  LET incoming == CacheRow(d.seq, d.live, FALSE)
             r == IF Supersedes(cache[e], incoming) THEN cache[e] ELSE incoming
         IN  Replica!RightSince(e, Version(r), t)
<1> DEFINE incoming == CacheRow(d.seq, d.live, FALSE)
<1>0. /\ Len(log) \in Nat /\ t \in Nat /\ t <= Len(log)
      /\ cache[e].seq \in 0..Len(log) /\ ckpt.seq \in Nat
      /\ d.seq \in 1..t /\ d.live = log[d.seq].live /\ log[d.seq].entity = e
      /\ Last(e, d.seq, t) /\ d.live \in BOOLEAN
  BY DEF BaseInv, TableInv, TableTyped, ClientTyped, Given, Doc, DocRight, Last,
         Replica!IsLast
<1>1. incoming.seq = d.seq /\ incoming.live = d.live /\ incoming.evicted = FALSE
  BY DEF CacheRow
<1>2. Replica!RightAt(e, Version(incoming), t)
  BY <1>0, DocRightAt
<1> HIDE DEF incoming
<1>3. t \in t..Len(log)
  BY <1>0
<1>4. CASE ~Supersedes(cache[e], incoming)
  BY <1>2, <1>3, <1>4 DEF Replica!RightSince, incoming
<1>5. CASE Supersedes(cache[e], incoming) /\ cache[e].seq # d.seq
  <2>1. cache[e].seq > d.seq
    BY <1>1, <1>5 DEF Supersedes
  <2>2. log[cache[e].seq].entity = e
    BY <1>0, <2>1 DEF CacheRight, RowFor
  <2>3. cache[e].seq > t
    BY <1>0, <2>1, <2>2 DEF Last, Replica!IsLast
  <2>4. cache[e].seq \in Nat \ {0} /\ cache[e].seq \in t..Len(log)
    BY <1>0, <2>3
  <2>5. CASE ~cache[e].evicted
    <3>1. Replica!RightAt(e, Version(cache[e]), cache[e].seq)
      BY <2>4, <2>5, RowRightAt
    <3> QED
      BY <1>5, <2>4, <3>1 DEF Replica!RightSince, incoming
  <2>6. CASE cache[e].evicted
    <3>1. PICK p \in cache[e].seq..Len(log) : Replica!RightAt(e, 0, p)
      BY <2>6 DEF CacheRight, RowFor
    <3>2. p \in t..Len(log)
      BY <1>0, <2>4
    <3>3. Version(cache[e]) = 0
      BY <2>6 DEF CacheRight, RowFor, Version
    <3> QED
      BY <1>5, <3>1, <3>2, <3>3 DEF Replica!RightSince, incoming
  <2> QED
    BY <2>5, <2>6
<1>6. CASE Supersedes(cache[e], incoming) /\ cache[e].seq = d.seq
  <2>1. ~cache[e].evicted
    BY <1>1, <1>6 DEF Supersedes
  <2>2. (cache[e].live => d.live) /\ (~cache[e].live => ~d.live)
    BY <1>0, <1>6, <2>1 DEF CacheRight, RowFor
  <2>3. Version(cache[e]) = Version(incoming)
    BY <1>1, <1>6, <2>2 DEF Version
  <2> QED
    BY <1>2, <1>3, <1>6, <2>3 DEF Replica!RightSince, incoming
<1> QED
  BY <1>4, <1>5, <1>6

(* An entity that a delta is not about has not changed since its base. *)
LEMMA DeltaSilent ==
  ASSUME BaseInv, NEW e \in Entity, NEW f \in FrameRecord, FrameRight(f),
         ~f.snapshot, \A d \in f.docs : d.entity # e,
         NEW c \in Given, f.after <= c, c < f.through,
         NEW v, Replica!RightSince(e, v, c)
  PROVE  Replica!RightSince(e, v, f.through)
<1>0. /\ Len(log) \in Nat /\ c \in Nat /\ f.through \in 0..Len(log)
      /\ f.after \in Nat
  BY DEF BaseInv, TableInv, TableTyped, Given, FrameRecord, FrameRight
<1>1. \A m \in f.after + 1..f.through : log[m].entity # e
  <2> SUFFICES ASSUME NEW m \in f.after + 1..f.through, log[m].entity = e
               PROVE  FALSE
    OBVIOUS
  <2>0. m \in 1..f.through /\ f.through \in Nat
    BY <1>0
  <2>1. PICK n \in m..f.through : Last(e, n, f.through)
    BY <2>0, LastExists
  <2>2. n \in Nat /\ n > f.after
    BY <1>0
  <2> QED
    BY <2>1, <2>2 DEF FrameRight
<1>2. PICK p \in c..Len(log) : Replica!RightAt(e, v, p)
  BY DEF Replica!RightSince
<1>3. CASE p >= f.through
  <2>1. p \in f.through..Len(log)
    BY <1>0, <1>2, <1>3
  <2> QED
    BY <1>2, <2>1 DEF Replica!RightSince
<1>4. CASE p < f.through
  <2>1. \A n \in Nat : Replica!IsLast(e, n, p) <=> Replica!IsLast(e, n, f.through)
    BY <1>0, <1>1, <1>2, <1>4 DEF Replica!IsLast
  <2>2. \A n \in 1..f.through : Replica!IsLast(e, n, f.through) => n \in 1..p
    BY <1>0, <1>1, <1>2, <1>4 DEF Replica!IsLast
  <2>3. v # 0 => v \in Nat
    BY <1>0, <1>2 DEF Replica!RightAt, Replica!IsLast
  <2>4. Replica!RightAt(e, v, f.through)
    <3>1. CASE v = 0
      BY <1>0, <1>2, <2>1, <2>2, <3>1 DEF Replica!RightAt
    <3>2. CASE v # 0
      BY <1>2, <2>1, <2>3, <3>2 DEF Replica!RightAt
    <3> QED
      BY <3>1, <3>2
  <2>5. f.through \in f.through..Len(log)
    BY <1>0
  <2> QED
    BY <2>4, <2>5 DEF Replica!RightSince
<1> QED
  BY <1>0, <1>2, <1>3, <1>4

(* What a snapshot leaves of an entity that it does not hold. *)
LEMMA SnapshotSilent ==
  ASSUME BaseInv, NEW e \in Entity, CacheRight(e),
         NEW f \in FrameRecord, FrameRight(f),
         f.snapshot, \A d \in f.docs : d.entity # e,
         NEW stored, stored[e] = cache[e], ckpt.seq <= f.through
  PROVE  Replica!RightSince(e, Version(Evicted(f, stored)[e]), f.through)
<1>0. /\ Len(log) \in Nat /\ f.through \in 0..Len(log)
      /\ f.through \in f.through..Len(log)
      /\ cache[e].seq \in 0..Len(log)
  BY DEF BaseInv, TableInv, TableTyped, ClientTyped, Given, FrameRecord, FrameRight
<1>1. Replica!RightAt(e, 0, f.through)
  BY <1>0 DEF FrameRight, Last, Replica!RightAt
<1>2. CASE cache[e].live /\ cache[e].seq > f.through
  <2>0. ~(stored[e].live /\ stored[e].seq <= f.through)
    BY <1>0, <1>2
  <2>1. Evicted(f, stored)[e] = cache[e]
    BY <2>0 DEF Evicted
  <2>2. Replica!RightAt(e, Version(cache[e]), cache[e].seq)
    BY <1>0, <1>2, RowRightAt DEF CacheRight, RowFor
  <2>3. cache[e].seq \in f.through..Len(log)
    BY <1>0, <1>2
  <2> QED
    BY <2>1, <2>2, <2>3 DEF Replica!RightSince
<1>3. CASE ~(cache[e].live /\ cache[e].seq > f.through)
  <2>1. Version(Evicted(f, stored)[e]) = 0
    BY <1>0, <1>3 DEF Evicted, Version, CacheRow
  <2> QED
    BY <1>0, <1>1, <2>1 DEF Replica!RightSince
<1> QED
  BY <1>2, <1>3

(* The rows that any part of a frame leaves in the projection. *)
LEMMA PersistedRight ==
  ASSUME BaseInv, NEW e \in Entity, CacheRight(e),
         NEW f \in FrameRecord, FrameRight(f), NEW docs \in SUBSET f.docs
  PROVE  RowFor(e, Persisted(docs)[e])
<1>1. CASE Persisted(docs)[e] = cache[e]
  BY <1>1 DEF CacheRight
<1>2. CASE Persisted(docs)[e] # cache[e]
  <2>1. PICK d \in docs : d.entity = e /\ Persisted(docs)[e] = CacheRow(d.seq, d.live, FALSE)
    BY <1>2, PersistedRow
  <2>2. d \in Doc /\ DocRight(d, f.through) /\ f.through \in Nat
    BY DEF FrameRecord, FrameRight
  <2>3. d.seq \in Nat \ {0} /\ log[d.seq].entity = e /\ d.live = log[d.seq].live
    BY <2>1, <2>2 DEF DocRight, Last, Replica!IsLast
  <2> DEFINE r == CacheRow(d.seq, d.live, FALSE)
  <2>4. r.seq = d.seq /\ r.live = d.live /\ r.evicted = FALSE
    BY DEF CacheRow
  <2> HIDE DEF r
  <2>5. r.seq # 0 /\ log[r.seq].entity = e /\ r.live = log[r.seq].live /\ ~r.evicted
    BY <2>3, <2>4
  <2> QED
    BY <2>1, <2>5 DEF r, RowFor
<1> QED
  BY <1>1, <1>2

LEMMA FrontHead ==
  ASSUME BaseInv, FedByStream, stream.frames # << >>
  PROVE  /\ Head(stream.frames).through <= MaxSequence
         /\ Shown \/ ckpt.seq <= Head(stream.frames).through
<1>1. Head(stream.frames) = stream.frames[1] /\ 1 \in 1..Len(stream.frames)
  BY DEF BaseInv, StreamInv, StreamTyped
<1> QED
  BY <1>1 DEF FedByStream, Frontier

(* The frame at the head of the queue, when it is applied. *)
LEMMA AppliedFrame ==
  ASSUME BaseInv, FedByStream, Applying
  PROVE  LET f == Head(stream.frames)
         IN  /\ f \in FrameRecord /\ FrameRight(f)
             /\ f.through \in Given /\ f.docs \in SUBSET DocRecord
             /\ ckpt.seq \in Given /\ ckpt.seq <= f.through
             /\ f.through <= MaxSequence
             /\ Shown => ckpt.seq < f.through
             /\ ~f.snapshot => Shown /\ f.after <= ckpt.seq
<1> DEFINE f == Head(stream.frames)
<1>0. stream.frames # << >>
  BY DEF Applying
<1>1. /\ f \in FrameRecord /\ FrameRight(f)
      /\ f.through \in Given /\ f.docs \in SUBSET DocRecord
  BY <1>0, HeadFrame DEF BaseInv
<1>2. /\ ckpt.seq \in Given /\ Len(log) \in Nat /\ Given \in SUBSET Nat
      /\ ckpt.seq # None
  BY DEF BaseInv, ClientTyped, TableInv, TableTyped, Given, None
<1>3. Cursor = IF Shown THEN ckpt.seq ELSE None
  BY DEF Cursor, Shown
<1> HIDE DEF f
<1>4. Shown => ckpt.seq < f.through
  BY <1>2, <1>3 DEF Applying, f
<1>5. Shown \/ ckpt.seq <= f.through
  BY <1>0, FrontHead DEF f
<1>6. ckpt.seq <= f.through
  <2>1. ckpt.seq \in Nat /\ f.through \in Nat
    BY <1>1, <1>2
  <2>2. CASE Shown
    BY <1>4, <2>1, <2>2
  <2>3. CASE ~Shown
    BY <1>5, <2>1, <2>3
  <2> QED
    BY <2>2, <2>3
<1>7. ~f.snapshot => Shown /\ f.after <= ckpt.seq
  <2>1. f.snapshot \/ (Cursor # None /\ Cursor >= f.after)
    BY DEF Applying, f
  <2>2. f.after \in Nat
    BY <1>1 DEF FrameRecord
  <2> QED
    BY <1>2, <1>3, <2>1, <2>2
<1>8. f.through <= MaxSequence
  BY <1>0, FrontHead DEF f
<1> QED
  BY <1>1, <1>2, <1>4, <1>6, <1>7, <1>8 DEF f

(* What a snapshot does not hold was not there at its position. *)
LEMMA NotHeld ==
  ASSUME BaseInv, NEW e \in Entity, NEW f \in FrameRecord, FrameRight(f),
         f.snapshot, \A d \in f.docs : d.entity # e
  PROVE  Replica!RightAt(e, 0, f.through)
<1>1. Len(log) \in Nat /\ f.through \in 0..Len(log)
  BY DEF BaseInv, TableInv, TableTyped, FrameRecord, FrameRight
<1> QED
  BY <1>1 DEF FrameRight, Last, Replica!RightAt

(* Evicting keeps the rows right. *)
LEMMA EvictedRight ==
  ASSUME BaseInv, NEW e \in Entity, NEW f \in FrameRecord, FrameRight(f),
         NEW stored, stored[e].seq \in Nat, RowFor(e, stored[e])
  PROVE  RowFor(e, Evicted(f, stored)[e])
<1> DEFINE r == Evicted(f, stored)[e]
<1>1. CASE r = stored[e]
  BY <1>1
<1>2. CASE r # stored[e]
  <2>1. /\ r = CacheRow(stored[e].seq, FALSE, TRUE)
        /\ f.snapshot /\ \A d \in f.docs : d.entity # e
        /\ stored[e].live /\ stored[e].seq <= f.through
    BY <1>2 DEF Evicted
  <2>2. Replica!RightAt(e, 0, f.through)
    BY <2>1, NotHeld
  <2>3. f.through \in stored[e].seq..Len(log)
    BY <2>1 DEF BaseInv, TableInv, TableTyped, FrameRecord, FrameRight
  <2>4. r.seq = stored[e].seq /\ r.live = FALSE /\ r.evicted = TRUE
    BY <2>1 DEF CacheRow
  <2> HIDE DEF r
  <2>5. stored[e].seq > 0 => log[stored[e].seq].entity = e
    BY DEF RowFor
  <2> QED
    BY <2>2, <2>3, <2>4, <2>5 DEF RowFor, r
<1> QED
  BY <1>1, <1>2

LEMMA PersistedSame ==
  ASSUME NEW docs, NEW e \in Entity, \A d \in docs : d.entity # e
  PROVE  Persisted(docs)[e] = cache[e]
BY PersistedRow

LEMMA PersistedDoc ==
  ASSUME NEW docs, NEW e \in Entity, \E d \in docs : d.entity = e
  PROVE  \E d \in docs :
           /\ d.entity = e
           /\ Persisted(docs)[e] =
                IF Supersedes(cache[e], CacheRow(d.seq, d.live, FALSE))
                THEN cache[e] ELSE CacheRow(d.seq, d.live, FALSE)
BY PersistedRow

(* The projection when all writes of a frame are done. *)
LEMMA AppliedRight ==
  ASSUME BaseInv, FedByStream, Applying
  PROVE  LET f == Head(stream.frames)
             done == Evicted(f, Persisted(f.docs))
         IN  /\ Advanced(f.through, 0).seq = f.through
             /\ \A e \in Entity : Replica!RightSince(e, Version(done[e]), f.through)
             /\ \A e \in Entity : RowFor(e, done[e])
<1> DEFINE f == Head(stream.frames)
           stored == Persisted(f.docs)
           done == Evicted(f, stored)
<1>2. /\ f \in FrameRecord /\ FrameRight(f)
      /\ f.through \in Given /\ f.docs \in SUBSET DocRecord
      /\ ckpt.seq \in Given /\ ckpt.seq <= f.through
      /\ Shown => ckpt.seq < f.through
      /\ ~f.snapshot => Shown /\ f.after <= ckpt.seq
  BY AppliedFrame
<1>3. \A e \in Entity : CacheRight(e)
  BY DEF FedByStream
<1>4. Given \in SUBSET Nat
  BY DEF BaseInv, TableInv, TableTyped, Given
<1> HIDE DEF f, stored, done
<1>6. Advanced(f.through, 0).seq = f.through
  <2>1. ckpt.seq \in Nat /\ f.through \in Nat
    BY <1>2, <1>4
  <2>2. CASE ckpt.seq < f.through
    BY <2>2 DEF Advanced
  <2>3. CASE ckpt.seq = f.through
    BY <2>1, <2>3 DEF Advanced
  <2> QED
    BY <1>2, <2>1, <2>2, <2>3
<1>7. f.docs \in SUBSET f.docs /\ f.docs \in SUBSET Doc
  BY <1>2 DEF FrameRecord
<1>8. ASSUME NEW e \in Entity
      PROVE  /\ Replica!RightSince(e, Version(done[e]), f.through)
             /\ RowFor(e, done[e])
  <2>0. CacheRight(e)
    BY <1>3
  <2>1. RowFor(e, stored[e])
    BY <1>2, <1>7, <2>0, PersistedRight DEF stored
  <2>2. stored[e].seq \in Nat
    <3>1. stored \in [Entity -> CacheRecord]
      BY <1>2, PersistedTyped DEF BaseInv, stored
    <3> QED
      BY <1>4, <3>1 DEF CacheRecord
  <2>3. done[e] = IF /\ f.snapshot
                     /\ stored[e].live /\ stored[e].seq <= f.through
                     /\ \A d \in f.docs : d.entity # e
                  THEN CacheRow(stored[e].seq, FALSE, TRUE) ELSE stored[e]
    BY DEF Evicted, done
  <2>4. RowFor(e, done[e])
    BY <1>2, <2>1, <2>2, EvictedRight DEF done
  <2>5. CASE \E d \in f.docs : d.entity = e
    <3>1. done[e] = stored[e]
      BY <2>3, <2>5
    <3>2. PICK d \in f.docs :
            /\ d.entity = e
            /\ stored[e] = IF Supersedes(cache[e], CacheRow(d.seq, d.live, FALSE))
                           THEN cache[e] ELSE CacheRow(d.seq, d.live, FALSE)
      BY <2>5, PersistedRow DEF stored
    <3>3. d \in Doc /\ DocRight(d, f.through)
      BY <1>2, <1>7 DEF FrameRight
    <3>4. Replica!RightSince(e, Version(stored[e]), f.through)
      BY <1>2, <2>0, <3>2, <3>3, StoredRight
    <3> QED
      BY <2>4, <3>1, <3>4
  <2>6. CASE \A d \in f.docs : d.entity # e
    <3>1. stored[e] = cache[e]
      BY <2>6, PersistedRow DEF stored
    <3>2. CASE f.snapshot
      <4>1. Replica!RightSince(e, Version(Evicted(f, stored)[e]), f.through)
        BY <1>2, <2>0, <2>6, <3>1, <3>2, SnapshotSilent
      <4> QED
        BY <2>4, <4>1 DEF done
    <3>3. CASE ~f.snapshot
      <4>1. Shown /\ f.after <= ckpt.seq /\ ckpt.seq < f.through
        BY <1>2, <3>3
      <4>2. Replica!RightSince(e, Version(cache[e]), ckpt.seq)
        BY <4>1, ViewIsVersion DEF FedByStream, ShownIsFaithful, Replica!Faithful
      <4>3. Replica!RightSince(e, Version(cache[e]), f.through)
        BY <1>2, <2>6, <3>3, <4>1, <4>2, DeltaSilent
      <4>4. done[e] = cache[e]
        BY <2>3, <3>1, <3>3
      <4> QED
        BY <2>4, <4>3, <4>4
    <3> QED
      BY <3>2, <3>3
  <2> QED
    BY <2>5, <2>6
<1> QED
  BY <1>6, <1>8 DEF f, stored, done

LEMMA ApplyFrameRight ==
  ASSUME BaseInv, FedByStream, ApplyFrame, ~UNCHANGED projection
  PROVE  /\ Shown' /\ UNCHANGED <<log, pull, table>>
         /\ Applying /\ stream'.frames = Tail(stream.frames)
         /\ ckpt.seq <= ckpt'.seq /\ ckpt'.seq \in Given
         /\ ckpt'.seq <= MaxSequence
         /\ \A e \in Entity : Replica!RightSince(e, Version(cache'[e]), ckpt'.seq)
         /\ \A e \in Entity : RowFor(e, cache'[e])
<1> DEFINE f == Head(stream.frames)
<1>0. UNCHANGED <<log, pull, table>>
  BY DEF ApplyFrame, table
<1>1. /\ cache' = Evicted(f, Persisted(f.docs))
      /\ ckpt' = Advanced(f.through, 0)
      /\ IF f.snapshot THEN complete' = TRUE /\ ready' = "ready"
         ELSE UNCHANGED <<complete, ready>>
      /\ stream' = [stream EXCEPT !.frames = Tail(@)]
      /\ Applying
  <2> DEFINE covered == Cursor # None /\ Cursor >= f.through
             gap == ~f.snapshot /\ (Cursor = None \/ Cursor < f.after)
  <2>0. stream.frames # << >>
    BY DEF ApplyFrame
  <2>1. ~covered /\ ~gap
    BY DEF ApplyFrame
  <2>2. f.through \in Nat /\ f.after \in Nat
    BY <2>0, HeadFrame DEF BaseInv, FrameRecord
  <2>3. Cursor \in Nat \cup {None}
    BY CursorTyped DEF BaseInv, Given, TableInv, TableTyped
  <2>4. Applying
    BY <2>0, <2>1, <2>2, <2>3 DEF Applying
  <2> QED
    BY <2>1, <2>4 DEF ApplyFrame, Whole
<1>2. /\ f.through \in Given /\ ckpt.seq <= f.through /\ f.through <= MaxSequence
      /\ ~f.snapshot => Shown
  BY <1>1, AppliedFrame
<1>3. /\ Advanced(f.through, 0).seq = f.through
      /\ \A e \in Entity : Replica!RightSince(e, Version(cache'[e]), f.through)
      /\ \A e \in Entity : RowFor(e, cache'[e])
  BY <1>1, AppliedRight
<1>4. stream'.frames = Tail(stream.frames)
  BY <1>1 DEF BaseInv, StreamInv, StreamTyped
<1> HIDE DEF f
<1>5. Shown'
  BY <1>1, <1>2 DEF Shown
<1> QED
  BY <1>0, <1>1, <1>2, <1>3, <1>4, <1>5

LEMMA InterruptedRight ==
  ASSUME BaseInv, FedByStream, FrameInterrupted
  PROVE  /\ UNCHANGED <<log, pull, table>> /\ (Shown => Shown')
         /\ stream'.frames = << >>
         /\ ckpt.seq <= ckpt'.seq /\ ckpt'.seq <= MaxSequence
         /\ \A e \in Entity : RowFor(e, cache'[e])
         /\ Shown' => \A e \in Entity :
                        Replica!RightSince(e, Version(cache'[e]), ckpt'.seq)
<1> DEFINE f == Head(stream.frames)
<1>0. /\ UNCHANGED <<log, pull, table, ready>> /\ Applying
      /\ stream'.frames = << >>
  BY DEF FrameInterrupted, table, Closed
<1>1. \/ /\ \E stored \in SUBSET f.docs,
              gone \in SUBSET {e \in Entity : Evicted(f, cache)[e] # cache[e]} :
             cache' = [e \in Entity |-> IF e \in gone
                                       THEN Evicted(f, Persisted(stored))[e]
                                       ELSE Persisted(stored)[e]]
         /\ UNCHANGED <<ckpt, complete>>
      \/ /\ cache' = Evicted(f, Persisted(f.docs))
         /\ ckpt' = Advanced(f.through, 0)
         /\ complete' \in {complete, complete \/ f.snapshot}
  BY DEF FrameInterrupted
<1>2. /\ f \in FrameRecord /\ FrameRight(f) /\ f.docs \in SUBSET DocRecord
      /\ f.through \in Given /\ ckpt.seq \in Given /\ ckpt.seq <= f.through
      /\ f.through <= MaxSequence
  BY <1>0, AppliedFrame
<1>a. /\ Advanced(f.through, 0).seq = f.through
      /\ \A e \in Entity :
           /\ Replica!RightSince(e, Version(Evicted(f, Persisted(f.docs))[e]), f.through)
           /\ RowFor(e, Evicted(f, Persisted(f.docs))[e])
  BY <1>0, AppliedRight
<1> HIDE DEF f
<1>3. \A e \in Entity : CacheRight(e)
  BY DEF FedByStream
<1>b. /\ f.through \in Nat /\ ckpt.seq \in Nat /\ Len(log) \in Nat
      /\ f.through..Len(log) \subseteq ckpt.seq..Len(log)
      /\ MaxSequence \in Nat
  BY <1>2, Numbering DEF BaseInv, TableInv, TableTyped, Given
<1>4. CASE /\ cache' = Evicted(f, Persisted(f.docs))
           /\ ckpt' = Advanced(f.through, 0)
           /\ complete' \in {complete, complete \/ f.snapshot}
  <2>1. Shown => Shown'
    BY <1>0, <1>4 DEF Shown
  <2> QED
    BY <1>0, <1>2, <1>4, <1>a, <2>1
<1>5. CASE UNCHANGED <<ckpt, complete>> /\
           \E stored \in SUBSET f.docs,
              gone \in SUBSET {e \in Entity : Evicted(f, cache)[e] # cache[e]} :
             cache' = [e \in Entity |-> IF e \in gone
                                       THEN Evicted(f, Persisted(stored))[e]
                                       ELSE Persisted(stored)[e]]
  <2>1. PICK docs \in SUBSET f.docs,
             gone \in SUBSET {e \in Entity : Evicted(f, cache)[e] # cache[e]} :
          cache' = [e \in Entity |-> IF e \in gone
                                    THEN Evicted(f, Persisted(docs))[e]
                                    ELSE Persisted(docs)[e]]
    BY <1>5
  <2>2. \A e \in Entity : RowFor(e, Persisted(docs)[e])
    BY <1>2, <1>3, PersistedRight
  <2>3. \A e \in Entity : Persisted(docs)[e].seq \in Nat
    <3>1. Persisted(docs) \in [Entity -> CacheRecord]
      BY <1>2, PersistedTyped DEF BaseInv
    <3> QED
      BY <1>b, <3>1 DEF CacheRecord, Given
  <2>4. \A e \in Entity : RowFor(e, Evicted(f, Persisted(docs))[e])
    BY <1>2, <2>2, <2>3, EvictedRight
  <2>5. \A e \in Entity : RowFor(e, cache'[e])
    BY <2>1, <2>2, <2>4
  <2>6. Shown' <=> Shown
    BY <1>0, <1>5 DEF Shown
  <2>7. ASSUME Shown, NEW e \in Entity
        PROVE  Replica!RightSince(e, Version(cache'[e]), ckpt.seq)
    <3>1. CASE e \in gone
      <4>1. /\ f.snapshot /\ \A d \in f.docs : d.entity # e
        BY <2>1, <3>1 DEF Evicted
      <4>2. Persisted(docs)[e] = cache[e]
        <5>1. \A d \in docs : d.entity # e
          BY <4>1
        <5> HIDE DEF f
        <5> QED
          BY <5>1, PersistedSame
      <4>3. Replica!RightSince(e, Version(Evicted(f, Persisted(docs))[e]), f.through)
        BY <1>2, <1>3, <4>1, <4>2, SnapshotSilent
      <4>4. cache'[e] = Evicted(f, Persisted(docs))[e]
        BY <2>1, <3>1
      <4> QED
        BY <1>b, <4>3, <4>4 DEF Replica!RightSince
    <3>2. CASE e \notin gone /\ \A d \in docs : d.entity # e
      <4>1. cache'[e] = cache[e]
        BY <2>1, <3>2, PersistedRow
      <4> QED
        BY <2>7, <4>1, ViewIsVersion DEF FedByStream, ShownIsFaithful, Replica!Faithful
    <3>3. CASE e \notin gone /\ \E d \in docs : d.entity = e
      <4>0. cache'[e] = Persisted(docs)[e]
        BY <2>1, <3>3
      <4>1. PICK d \in docs :
              /\ d.entity = e
              /\ cache'[e] = IF Supersedes(cache[e], CacheRow(d.seq, d.live, FALSE))
                             THEN cache[e] ELSE CacheRow(d.seq, d.live, FALSE)
        <5>1. \E d \in docs : d.entity = e
          BY <3>3
        <5>2. PICK d \in docs :
                /\ d.entity = e
                /\ Persisted(docs)[e] =
                     IF Supersedes(cache[e], CacheRow(d.seq, d.live, FALSE))
                     THEN cache[e] ELSE CacheRow(d.seq, d.live, FALSE)
          BY <5>1, PersistedDoc
        <5> QED
          BY <4>0, <5>2
      <4>2. d \in Doc /\ DocRight(d, f.through) /\ CacheRight(e)
        BY <1>2, <1>3 DEF FrameRecord, FrameRight
      <4>3. Replica!RightSince(e, Version(cache'[e]), f.through)
        BY <1>2, <4>1, <4>2, StoredRight
      <4> QED
        BY <1>b, <4>3 DEF Replica!RightSince
    <3> QED
      BY <3>1, <3>2, <3>3
  <2>8. ckpt'.seq = ckpt.seq /\ ckpt.seq <= MaxSequence
    BY <1>5 DEF FedByStream, Frontier
  <2> QED
    BY <1>0, <1>b, <2>5, <2>6, <2>7, <2>8
<1> QED
  BY <1>1, <1>4, <1>5

LEMMA NumbersBelowMax ==
  TableInv => /\ MaxSequence = Len(log) /\ MaxSequence \in Nat
              /\ floor \in Nat /\ floor <= MaxSequence
              /\ \A e \in Entity : rows[e].seq \in 0..MaxSequence
<1>1. TableInv => floor \in Nat /\ Len(log) \in Nat
  BY DEF TableInv, TableTyped
<1> QED
  BY <1>1, Numbering

LEMMA NumbersBelowMaxNext ==
  (TableInv => /\ MaxSequence = Len(log) /\ MaxSequence \in Nat
               /\ floor \in Nat /\ floor <= MaxSequence
               /\ \A e \in Entity : rows[e].seq \in 0..MaxSequence)'
BY NumbersBelowMax, PTL

(* The table's greatest number, tombstone floor included, never falls. *)
LEMMA MaxSequenceGrows ==
  ASSUME TableInv, TableInv', [Next]_vars
  PROVE  MaxSequence <= MaxSequence'
BY NumbersBelowMax, NumbersBelowMaxNext, LogGrows

(* Checkpoint and frames stay within the table's numbers. *)
LEMMA FrontierStep ==
  ASSUME StreamOnly, BaseInv, BaseInv', FedByStream, [Next]_vars
  PROVE  Frontier'
<1>1. /\ MaxSequence <= MaxSequence' /\ MaxSequence \in Nat /\ MaxSequence' \in Nat
  BY NumbersBelowMax, NumbersBelowMaxNext, MaxSequenceGrows DEF BaseInv
<1>2. /\ ckpt.seq \in Nat /\ ckpt.seq <= MaxSequence
      /\ stream.frames \in Seq(FrameRecord)
      /\ \A i \in 1..Len(stream.frames) :
           /\ stream.frames[i].through \in Nat
           /\ stream.frames[i].through <= MaxSequence
           /\ Shown \/ ckpt.seq <= stream.frames[i].through
  <2>1. ckpt.seq \in Nat
    BY DEF BaseInv, ClientTyped, Given, TableInv, TableTyped
  <2>2. stream.frames \in Seq(FrameRecord)
    BY DEF BaseInv, StreamInv, StreamTyped
  <2>3. \A i \in 1..Len(stream.frames) : stream.frames[i].through \in Nat
    <3>1. \A i \in 1..Len(stream.frames) : stream.frames[i] \in FrameRecord
      BY <2>2
    <3> QED
      BY <3>1 DEF FrameRecord
  <2> QED
    BY <2>1, <2>2, <2>3 DEF FedByStream, Frontier
<1>3. ASSUME UNCHANGED <<ckpt, Shown>>, stream'.frames = stream.frames
      PROVE  Frontier'
  BY <1>1, <1>2, <1>3 DEF Frontier
<1>4. ASSUME UNCHANGED <<ckpt, Shown>>, stream'.frames = << >>
      PROVE  Frontier'
  BY <1>1, <1>2, <1>4 DEF Frontier
<1>5. CASE Write \/ Prune
  <2>1. UNCHANGED <<projection, stream>>
    BY <1>5 DEF Write, Prune, PutEntity, PutUnscoped, WriteElsewhere,
     DeleteElsewhere, PruneDue, PruneBatchOnce
  <2> QED
    BY <1>3, <2>1 DEF projection, Shown
<1>6. CASE Pull
  <2>1. pull.at = "idle"
    BY DEF FedByStream, Idle
  <2> QED
    BY <1>6, <2>1 DEF Pull, StreamOnly, RefreshStart, PullRequest, PullAnswer,
       PullFails, PullReset, PullApply, PullInterrupted, PullFinish, Reacquire,
       EpochChanged
<1>7. CASE Subscribe \/ Disconnect
  <2>1. UNCHANGED projection /\ stream'.frames = << >>
    BY <1>7 DEF Subscribe, Disconnect, Closed
  <2> QED
    BY <1>4, <2>1 DEF projection, Shown
<1>8. CASE SendFrame
  <2> DEFINE f == Frame(stream.base)
  <2>1. UNCHANGED <<projection, table>>
    BY <1>8 DEF SendFrame
  <2>2. f \in FrameRecord
    BY FrameIsRight DEF BaseInv, StreamInv, StreamTyped
  <2>3. f.through = MaxSequence
    BY DEF Frame
  <2>4. stream'.frames = Append(stream.frames, f)
    BY <1>8 DEF SendFrame, BaseInv, StreamInv, StreamTyped
  <2> HIDE DEF f
  <2>5. /\ Len(stream'.frames) = Len(stream.frames) + 1
        /\ \A i \in 1..Len(stream.frames) : stream'.frames[i] = stream.frames[i]
        /\ stream'.frames[Len(stream.frames) + 1] = f
        /\ Len(stream.frames) \in Nat
    BY <1>2, <2>2, <2>4
  <2>6. \A i \in 1..Len(stream'.frames) : i \in 1..Len(stream.frames)
                                            \/ i = Len(stream.frames) + 1
    BY <2>5
  <2>7. UNCHANGED <<ckpt, Shown, MaxSequence>>
    BY <2>1 DEF projection, table, Shown, MaxSequence
  <2>8. \A i \in 1..Len(stream'.frames) :
          /\ stream'.frames[i].through <= MaxSequence
          /\ Shown \/ ckpt.seq <= stream'.frames[i].through
    <3> TAKE i \in 1..Len(stream'.frames)
    <3>1. CASE i \in 1..Len(stream.frames)
      BY <1>2, <2>5, <3>1
    <3>2. CASE i = Len(stream.frames) + 1
      <4>1. stream'.frames[i].through = MaxSequence
        BY <2>3, <2>5, <3>2
      <4> QED
        BY <1>1, <1>2, <4>1
    <3> QED
      BY <2>6, <3>1, <3>2
  <2> QED
    BY <1>2, <2>7, <2>8 DEF Frontier
<1>9. CASE ApplyFrame
  <2>1. CASE UNCHANGED projection
    <3>1. \/ stream'.frames = << >>
          \/ stream'.frames = Tail(stream.frames) /\ stream.frames # << >>
      BY <1>9, <2>1 DEF ApplyFrame, Closed, BaseInv, StreamInv, StreamTyped
    <3>2. UNCHANGED <<ckpt, Shown>>
      BY <2>1 DEF projection, Shown
    <3>3. CASE stream'.frames = Tail(stream.frames) /\ stream.frames # << >>
      <4>1. \A i \in 1..Len(stream'.frames) :
              /\ i + 1 \in 1..Len(stream.frames)
              /\ stream'.frames[i] = stream.frames[i + 1]
        BY <1>2, <3>3
      <4>2. \A i \in 1..Len(stream'.frames) :
              /\ stream'.frames[i].through \in Nat
              /\ stream'.frames[i].through <= MaxSequence
              /\ Shown \/ ckpt.seq <= stream'.frames[i].through
        BY <1>2, <4>1
      <4>3. UNCHANGED MaxSequence
        BY <1>9 DEF ApplyFrame, table, MaxSequence
      <4> QED
        BY <1>2, <3>2, <4>2, <4>3 DEF Frontier
    <3> QED
      BY <1>4, <3>1, <3>2, <3>3
  <2>2. CASE ~UNCHANGED projection
    <3>1. /\ Shown' /\ UNCHANGED table /\ ckpt'.seq <= MaxSequence
          /\ stream'.frames = Tail(stream.frames) /\ Applying
      BY <1>9, <2>2, ApplyFrameRight
    <3>2. UNCHANGED MaxSequence
      BY <3>1 DEF table, MaxSequence
    <3>3. \A i \in 1..Len(stream'.frames) :
            /\ i + 1 \in 1..Len(stream.frames)
            /\ stream'.frames[i] = stream.frames[i + 1]
      BY <1>2, <3>1 DEF Applying
    <3> QED
      BY <1>2, <3>1, <3>2, <3>3 DEF Frontier
  <2> QED
    BY <2>1, <2>2
<1>10. CASE FrameInterrupted
  <2>1. UNCHANGED table /\ stream'.frames = << >> /\ ckpt'.seq <= MaxSequence
    BY <1>10, InterruptedRight
  <2>2. UNCHANGED MaxSequence
    BY <2>1 DEF table, MaxSequence
  <2> QED
    BY <2>1, <2>2 DEF Frontier
<1>11. CASE UNCHANGED vars
  BY <1>3, <1>11 DEF vars, projection, Shown
<1> QED
  BY <1>5, <1>6, <1>7, <1>8, <1>9, <1>10, <1>11 DEF Next, Stream

LEMMA FedInit == Init => FedByStream
<1> SUFFICES ASSUME Init PROVE FedByStream
  OBVIOUS
<1>1. TableInv
  BY TableInit
<1>2. MaxSequence \in Nat
  BY <1>1, Numbering DEF TableInv, TableTyped
<1>3. Frontier
  BY <1>2 DEF Init, Frontier, Closed
<1> QED
  BY <1>3 DEF Init, FedByStream, Shown, CacheRight, RowFor, NoCacheRow, CacheRow,
         ShownIsFaithful, Replica!Faithful

(* A write leaves what is right from some position on as it is. *)
LEMMA WriteKeepsRight ==
  ASSUME BaseInv, FedByStream, NEW w \in LogEntry, log' = Logged(w),
         UNCHANGED <<projection, pull>>, Frontier'
  PROVE  FedByStream'
<1>1. /\ Len(log) < Len(log') /\ Len(log) \in Nat /\ Len(log') \in Nat
      /\ \A n \in 1..Len(log) : log'[n] = log[n]
  BY Extended DEF BaseInv
<1>2. ASSUME NEW e \in Entity, NEW v, NEW p \in 0..Len(log), Replica!RightAt(e, v, p)
      PROVE  Replica!RightAt(e, v, p)'
  <2>1. \A n : Replica!IsLast(e, n, p)' <=> Replica!IsLast(e, n, p)
    BY <1>1 DEF Replica!IsLast
  <2>2. CASE v = 0
    BY <1>1, <1>2, <2>1, <2>2 DEF Replica!RightAt
  <2>3. CASE v # 0
    <3>1. v \in 1..Len(log)
      BY <1>1, <1>2, <2>3 DEF Replica!RightAt, Replica!IsLast
    <3> QED
      BY <1>1, <1>2, <2>1, <2>3, <3>1 DEF Replica!RightAt
  <2> QED
    BY <2>2, <2>3
<1>3. UNCHANGED <<cache, ckpt, complete, ready, Shown, View>>
  BY DEF projection, Shown, View
<1>4. ckpt.seq \in 0..Len(log)
  BY DEF BaseInv, ClientTyped, Given
<1>5. ASSUME NEW e \in Entity, NEW v, Replica!RightSince(e, v, ckpt.seq)
      PROVE  \E p \in ckpt.seq..Len(log') : Replica!RightAt(e, v, p)'
  <2>1. PICK p \in ckpt.seq..Len(log) : Replica!RightAt(e, v, p)
    BY <1>5 DEF Replica!RightSince
  <2>2. p \in 0..Len(log) /\ p \in ckpt.seq..Len(log')
    BY <1>1, <1>4, <2>1
  <2> QED
    BY <1>2, <2>1, <2>2
<1>6. ShownIsFaithful'
  BY <1>3, <1>5 DEF FedByStream, ShownIsFaithful, Replica!Faithful, Replica!RightSince
<1>7. ASSUME NEW e \in Entity PROVE CacheRight(e)'
  <2>1. CacheRight(e) /\ cache[e].seq \in 0..Len(log)
    BY DEF FedByStream, BaseInv, ClientTyped, Given
  <2>2. ASSUME cache[e].evicted
        PROVE  \E p \in cache[e].seq..Len(log') : Replica!RightAt(e, 0, p)'
    <3>1. PICK p \in cache[e].seq..Len(log) : Replica!RightAt(e, 0, p)
      BY <2>1, <2>2 DEF CacheRight, RowFor
    <3>2. p \in 0..Len(log) /\ p \in cache[e].seq..Len(log')
      BY <1>1, <2>1
    <3> QED
      BY <1>2, <3>1, <3>2
  <2> QED
    BY <1>1, <1>3, <2>1, <2>2 DEF CacheRight, RowFor
<1> QED
  BY <1>3, <1>6, <1>7 DEF FedByStream

LEMMA FedStep ==
  ASSUME StreamOnly, BaseInv, BaseInv', FedByStream, [Next]_vars
  PROVE  FedByStream'
<1>0. Frontier'
  BY FrontierStep
<1>1. ASSUME UNCHANGED <<log, projection, pull>> PROVE FedByStream'
  BY <1>0, <1>1 DEF FedByStream, projection, Shown, View, CacheRight, RowFor,
     ShownIsFaithful, Replica!Faithful, Replica!RightSince, Replica!RightAt,
     Replica!IsLast
<1>2. CASE Write
  <2>1. UNCHANGED <<projection, pull>>
    BY <1>2 DEF Write, PutEntity, PutUnscoped, WriteElsewhere, DeleteElsewhere
  <2>2. (\E w \in LogEntry : log' = Logged(w)) \/ UNCHANGED log
    BY LogGrows DEF BaseInv
  <2> QED
    BY <1>0, <1>1, <2>1, <2>2, WriteKeepsRight
<1>3. CASE Prune
  BY <1>1, <1>3 DEF Prune, PruneDue, PruneBatchOnce
<1>4. CASE Pull
  <2>1. pull.at = "idle"
    BY DEF FedByStream, Idle
  <2> QED
    BY <1>4, <2>1 DEF Pull, StreamOnly, RefreshStart, PullRequest, PullAnswer,
       PullFails, PullReset, PullApply, PullInterrupted, PullFinish, Reacquire,
       EpochChanged
<1>5. CASE Subscribe \/ SendFrame \/ Disconnect
  BY <1>1, <1>5 DEF Subscribe, SendFrame, Disconnect, table
<1>6. CASE ApplyFrame
  <2>1. CASE UNCHANGED projection
    BY <1>1, <1>6, <2>1 DEF ApplyFrame, table
  <2>2. CASE ~UNCHANGED projection
    <3>1. /\ Shown' /\ UNCHANGED <<log, pull>>
          /\ \A e \in Entity : Replica!RightSince(e, Version(cache'[e]), ckpt'.seq)
          /\ \A e \in Entity : RowFor(e, cache'[e])
      BY <1>6, <2>2, ApplyFrameRight
    <3>2. \A e \in Entity : CacheRight(e)'
      BY <3>1 DEF CacheRight, RowFor, Replica!RightAt, Replica!IsLast
    <3>3. \A e \in Entity : View'[e] = Version(cache'[e])
      BY DEF View, Version
    <3>4. ShownIsFaithful'
      BY <3>1, <3>3 DEF ShownIsFaithful, Replica!Faithful, Replica!RightSince,
         Replica!RightAt, Replica!IsLast
    <3> QED
      BY <1>0, <3>1, <3>2, <3>4 DEF FedByStream
  <2> QED
    BY <2>1, <2>2
<1>7. CASE FrameInterrupted
  <2>1. /\ UNCHANGED <<log, pull>>
        /\ \A e \in Entity : RowFor(e, cache'[e])
        /\ Shown' => \A e \in Entity :
                       Replica!RightSince(e, Version(cache'[e]), ckpt'.seq)
    BY <1>7, InterruptedRight
  <2>2. \A e \in Entity : CacheRight(e)'
    BY <2>1 DEF CacheRight, RowFor, Replica!RightAt, Replica!IsLast
  <2>3. \A e \in Entity : View'[e] = Version(cache'[e])
    BY DEF View, Version
  <2>4. ShownIsFaithful'
    BY <2>1, <2>3 DEF ShownIsFaithful, Replica!Faithful, Replica!RightSince,
       Replica!RightAt, Replica!IsLast
  <2> QED
    BY <1>0, <2>1, <2>2, <2>4 DEF FedByStream
<1>8. CASE UNCHANGED vars
  BY <1>1, <1>8 DEF vars, table
<1> QED
  BY <1>2, <1>3, <1>4, <1>5, <1>6, <1>7, <1>8 DEF Next, Stream

LEMMA FedAlways ==
  ASSUME StreamOnly
  PROVE  Spec => [](BaseInv /\ FedByStream)
<1>1. Init => BaseInv /\ FedByStream
  BY BaseInit, FedInit
<1>2. BaseInv /\ FedByStream /\ [Next]_vars => (BaseInv /\ FedByStream)'
  BY BaseStep, FedStep
<1> QED
  BY <1>1, <1>2, PTL DEF Spec

(* A client fed by the stream shows every entity as it was at some moment   *)
(* from its checkpoint on (persistScopedEntities,                           *)
(* persistStagedEntityTransfer), however frames are lost or interrupted.    *)
THEOREM StreamFaithful ==
  ASSUME StreamOnly
  PROVE  Spec => []ShownIsFaithful
<1>1. FedByStream => ShownIsFaithful
  BY DEF FedByStream
<1> QED
  BY <1>1, FedAlways, PTL

(* No live entity numbered up to the checkpoint is missing from the         *)
(* projection that the stream feeds.                                        *)
THEOREM StreamComplete ==
  ASSUME StreamOnly
  PROVE  Spec => []NothingMissing
<1>1. BaseInv /\ FedByStream => NothingMissing
  <2> SUFFICES ASSUME BaseInv, FedByStream, Shown, NEW e \in Entity,
                      rows[e].live, rows[e].seq <= ckpt.seq
               PROVE  View[e] = rows[e].seq
    BY DEF NothingMissing
  <2> DEFINE s == rows[e].seq
             v == View[e]
  <2>1. Replica!RightSince(e, v, ckpt.seq)
    BY DEF FedByStream, ShownIsFaithful, Replica!Faithful
  <2>2. PICK p \in ckpt.seq..Len(log) : Replica!RightAt(e, v, p)
    BY <2>1 DEF Replica!RightSince
  <2>3. IsRow(rows[e]) /\ Last(e, s, Len(log)) /\ log[s].live
    <3>1. IsRow(rows[e])
      <4> SUFFICES ASSUME ~IsRow(rows[e]) PROVE FALSE
        OBVIOUS
      <4>1. rows[e].seq = 0
        BY DEF IsRow, BaseInv, TableInv, TableTyped
      <4> QED
        BY <4>1 DEF BaseInv, TableInv, LiveHasNumber
    <3> QED
      BY <3>1 DEF BaseInv, TableInv, TableIsTheLog, Last
  <2>4. /\ Len(log) \in Nat /\ ckpt.seq \in Nat /\ s \in Nat
        /\ p \in Nat /\ p <= Len(log) /\ s <= p
    BY DEF BaseInv, TableInv, TableTyped, ClientTyped, Given
  <2>5. Replica!IsLast(e, s, p)
    BY <2>3, <2>4 DEF Last, Replica!IsLast
  <2> HIDE DEF s, v
  <2>6. v # 0
    BY <2>2, <2>3, <2>4, <2>5 DEF Replica!RightAt, Replica!IsLast
  <2>7. Replica!IsLast(e, v, p) /\ v \in Nat
    BY <2>2, <2>4, <2>6 DEF Replica!RightAt, Replica!IsLast
  <2>8. v = s
    BY <2>4, <2>5, <2>7, LastUnique DEF Last
  <2> QED
    BY <2>8 DEF v, s
<1> QED
  BY <1>1, FedAlways, PTL

(* A deleted entity whose deletion the checkpoint has passed is not in the  *)
(* projection that the stream feeds, pruned or not.                         *)
THEOREM StreamRemoves ==
  ASSUME StreamOnly
  PROVE  Spec => []NothingLeftOver
<1>1. BaseInv /\ FedByStream => NothingLeftOver
  <2> SUFFICES ASSUME BaseInv, FedByStream, Shown, NEW e \in Entity, View[e] # 0,
                      NEW n \in 1..ckpt.seq, Replica!IsLast(e, n, Len(log))
               PROVE  log[n].live
    BY DEF NothingLeftOver
  <2> DEFINE v == View[e]
  <2>1. PICK p \in ckpt.seq..Len(log) : Replica!RightAt(e, v, p)
    BY DEF FedByStream, ShownIsFaithful, Replica!Faithful, Replica!RightSince
  <2>2. Len(log) \in Nat /\ ckpt.seq \in Nat /\ p \in Nat /\ p <= Len(log) /\ n <= p
        /\ n \in Nat
    BY DEF BaseInv, TableInv, TableTyped, ClientTyped, Given
  <2>3. Replica!IsLast(e, n, p)
    BY <2>2 DEF Replica!IsLast
  <2> HIDE DEF v
  <2>4. Replica!IsLast(e, v, p) /\ log[v].live /\ v \in Nat
    BY <2>1, <2>2 DEF Replica!RightAt, Replica!IsLast, v
  <2>5. v = n
    BY <2>2, <2>3, <2>4, LastUnique DEF Last
  <2> QED
    BY <2>4, <2>5
<1> QED
  BY <1>1, FedAlways, PTL

(* Every step of a client fed by the stream is a step of the replica. *)
(* A write with a new number is a step of the abstract log. *)
LEMMA WriteExtends ==
  ASSUME TableInv, NEW w \in LogEntry, log' = Logged(w), UNCHANGED <<Shown, View, ckpt.seq>>
  PROVE  Replica!Extend
<1>1. Len(log') = NextSequence /\ Len(log) < Len(log')
  BY Extended
<1>2. w \in Replica!Writes
  BY DEF LogEntry, Replica!Writes, Elsewhere, Replica!Elsewhere
<1>3. log' = [n \in 1..Len(log') |-> IF n <= Len(log) THEN log[n]
                                     ELSE IF n = Len(log') THEN w
                                     ELSE Replica!Write(Replica!Elsewhere, TRUE)]
  BY <1>1 DEF Logged, Replica!Write, Elsewhere, Replica!Elsewhere
<1> QED
  BY <1>1, <1>2, <1>3, Zenon DEF Replica!Extend

LEMMA StreamRefines ==
  ASSUME StreamOnly, BaseInv, FedByStream, FedByStream', BaseInv', [Next]_vars
  PROVE  [Replica!Next]_(Replica!vars)
<1>1. ASSUME UNCHANGED <<log, projection>> PROVE UNCHANGED Replica!vars
  BY <1>1 DEF projection, Replica!vars, Shown, View
<1>2. View' \in [Entity -> Given'] /\ ckpt'.seq \in Given'
  <2>1. \A e \in Entity : View'[e] \in Given'
    BY DEF View, BaseInv, ClientTyped, TableInv, TableTyped, Given
  <2>2. View' = [e \in Entity |-> View'[e]]
    BY DEF View
  <2> QED
    BY <2>1, <2>2 DEF BaseInv, ClientTyped
<1>3. \A e \in Entity : View'[e] = Version(cache'[e])
  BY DEF View, Version
<1>4. CASE Write
  <2>1. UNCHANGED projection
    BY <1>4 DEF Write, PutEntity, PutUnscoped, WriteElsewhere, DeleteElsewhere
  <2>2. CASE UNCHANGED log
    BY <1>1, <2>1, <2>2
  <2>3. CASE \E w \in LogEntry : log' = Logged(w)
    <3>1. UNCHANGED <<Shown, View, ckpt.seq>>
      BY <2>1 DEF projection, Shown, View
    <3> QED
      BY <2>3, <3>1, WriteExtends DEF BaseInv, Replica!Next
  <2> QED
    BY <2>2, <2>3, LogGrows DEF BaseInv
<1>5. CASE Prune
  BY <1>1, <1>5 DEF Prune, PruneDue, PruneBatchOnce
<1>6. CASE Pull
  <2>1. pull.at = "idle"
    BY DEF FedByStream, Idle
  <2> QED
    BY <1>6, <2>1 DEF Pull, StreamOnly, RefreshStart, PullRequest, PullAnswer,
       PullFails, PullReset, PullApply, PullInterrupted, PullFinish, Reacquire,
       EpochChanged
<1>7. CASE Subscribe \/ SendFrame \/ Disconnect
  BY <1>1, <1>7 DEF Subscribe, SendFrame, Disconnect, table
<1>8. CASE ApplyFrame
  <2>1. CASE UNCHANGED projection
    BY <1>1, <1>8, <2>1 DEF ApplyFrame, table
  <2>2. CASE ~UNCHANGED projection
    <3>1. /\ Shown' /\ UNCHANGED log /\ ckpt.seq <= ckpt'.seq
          /\ \A e \in Entity : Replica!RightSince(e, Version(cache'[e]), ckpt'.seq)
      BY <1>8, <2>2, ApplyFrameRight
    <3>2. Given' = 0..Len(log) /\ ckpt'.seq \in Nat /\ ckpt.seq \in Nat
      BY <1>2, <3>1 DEF Given, BaseInv, ClientTyped, TableInv, TableTyped
    <3>3. Replica!CatchUp
      BY <1>2, <1>3, <3>1, <3>2 DEF Replica!CatchUp
    <3> QED
      BY <3>3 DEF Replica!Next
  <2> QED
    BY <2>1, <2>2
<1>9. CASE FrameInterrupted
  <2>1. /\ UNCHANGED log /\ (Shown => Shown') /\ ckpt.seq <= ckpt'.seq
        /\ Shown' => \A e \in Entity :
                       Replica!RightSince(e, Version(cache'[e]), ckpt'.seq)
    BY <1>9, InterruptedRight
  <2>2. Given' = 0..Len(log) /\ ckpt'.seq \in Nat /\ ckpt.seq \in Nat
    BY <1>2, <2>1 DEF Given, BaseInv, ClientTyped, TableInv, TableTyped
  <2>3. CASE Shown'
    <3>1. Replica!CatchUp
      BY <1>2, <1>3, <2>1, <2>2, <2>3 DEF Replica!CatchUp
    <3> QED
      BY <3>1 DEF Replica!Next
  <2>4. CASE ~Shown'
    <3>1. Replica!Rebuild
      BY <1>2, <2>1, <2>2, <2>4 DEF Replica!Rebuild
    <3> QED
      BY <3>1 DEF Replica!Next
  <2> QED
    BY <2>3, <2>4
<1>10. CASE UNCHANGED vars
  BY <1>1, <1>10 DEF vars, table
<1> QED
  BY <1>4, <1>5, <1>6, <1>7, <1>8, <1>9, <1>10 DEF Next, Stream

(* A client fed by the stream implements the replica: it shows only what    *)
(* was true since its checkpoint, and the checkpoint moves only forward     *)
(* while it shows its projection.                                           *)
THEOREM StreamImplementsReplica ==
  ASSUME StreamOnly
  PROVE  Spec => IsReplica
<1>1. Init => Replica!Init
  BY DEF Init, Replica!Init, Shown, View, NoCacheRow, CacheRow
<1>2. (BaseInv /\ FedByStream) /\ (BaseInv /\ FedByStream)' /\ [Next]_vars
        => [Replica!Next]_(Replica!vars)
  BY StreamRefines
<1> QED
  BY <1>1, <1>2, FedAlways, PTL DEF Spec, IsReplica, Replica!Spec

-----------------------------------------------------------------------------
(* What the stream has sent is either still on it or in the projection. *)
Followed ==
  stream.open /\ ~stream.first =>
    IF stream.frames = << >>
    THEN Cursor # None /\ stream.base <= Cursor
    ELSE stream.frames[Len(stream.frames)].through = stream.base

(* The subscription has nothing left to do: it is open, no frame is on its  *)
(* way, and the server has none to send.                                    *)
AtRest ==
  /\ stream.open /\ ~stream.first /\ stream.frames = << >>
  /\ ~Frame(stream.base).snapshot /\ Frame(stream.base).docs = {}

LEMMA LastFrame ==
  ASSUME NEW S, NEW s \in Seq(S), s # << >>
  PROVE  /\ Len(s) = 1 => Tail(s) = << >> /\ Head(s) = s[Len(s)]
         /\ Len(s) # 1 => /\ Tail(s) # << >>
                          /\ Tail(s)[Len(Tail(s))] = s[Len(s)]
<1>1. /\ Len(s) \in Nat \ {0} /\ Tail(s) \in Seq(S) /\ Len(Tail(s)) = Len(s) - 1
      /\ Head(s) = s[1] /\ \A i \in 1..Len(s) - 1 : Tail(s)[i] = s[i + 1]
  OBVIOUS
<1>2. CASE Len(s) = 1
  <2>1. Len(Tail(s)) = 0 /\ Tail(s) \in Seq(S)
    BY <1>1, <1>2
  <2>2. \A t \in Seq(S) : Len(t) = 0 => t = << >>
    OBVIOUS
  <2>3. Tail(s) = << >>
    BY <2>1, <2>2
  <2>4. Head(s) = s[Len(s)]
    BY <1>1, <1>2
  <2> QED
    BY <1>2, <2>3, <2>4
<1>3. CASE Len(s) # 1
  <2> DEFINE n == Len(s) - 1
  <2>1. n \in 1..n /\ n + 1 = Len(s) /\ n # 0
    BY <1>1, <1>3
  <2>2. Tail(s)[n] = s[n + 1]
    BY <1>1, <2>1
  <2>3. Tail(s) # << >>
    BY <1>1, <2>1
  <2> QED
    BY <1>1, <1>3, <2>1, <2>2, <2>3
<1> QED
  BY <1>2, <1>3

LEMMA FollowedStep ==
  ASSUME StreamOnly, BaseInv, FedByStream, Followed, [Next]_vars
  PROVE  Followed'
<1>0. /\ TableInv /\ ClientTyped /\ StreamTyped /\ ckpt.seq \in Nat
      /\ Given \in SUBSET Nat /\ stream.frames \in Seq(FrameRecord)
  BY DEF BaseInv, StreamInv, StreamTyped, ClientTyped, TableInv, TableTyped, Given
<1>1. ASSUME UNCHANGED <<projection, stream>> PROVE Followed'
  BY <1>1 DEF Followed, Cursor, projection
<1>2. ASSUME ~stream'.open PROVE Followed'
  BY <1>2 DEF Followed
<1>3. CASE Write \/ Prune \/ UNCHANGED vars
  BY <1>1, <1>3 DEF Write, PutEntity, PutUnscoped, WriteElsewhere, DeleteElsewhere, Prune, PruneDue, PruneBatchOnce,
     vars
<1>4. CASE Pull
  <2>1. pull.at = "idle"
    BY DEF FedByStream, Idle
  <2> QED
    BY <1>4, <2>1 DEF Pull, StreamOnly, RefreshStart, PullRequest, PullAnswer,
       PullFails, PullReset, PullApply, PullInterrupted, PullFinish, Reacquire,
       EpochChanged
<1>5. CASE Subscribe
  BY <1>5 DEF Subscribe, Followed
<1>6. CASE SendFrame
  <2> DEFINE f == Frame(stream.base)
  <2>1. stream' = [stream EXCEPT !.base = f.through, !.first = FALSE,
                                 !.frames = Append(@, f)]
    BY <1>6 DEF SendFrame
  <2>2. stream'.base = f.through /\ stream'.frames = Append(stream.frames, f)
    BY <1>0, <2>1 DEF StreamTyped
  <2>3. f \in FrameRecord
    BY <1>0, FrameIsRight DEF StreamTyped
  <2> HIDE DEF f
  <2>4. stream'.frames # << >> /\ stream'.frames[Len(stream'.frames)] = f
    BY <1>0, <2>2, <2>3
  <2> QED
    BY <2>2, <2>4 DEF Followed
<1>7. CASE ApplyFrame
  <2> DEFINE f == Head(stream.frames)
  <2>1. stream.frames # << >>
    BY <1>7 DEF ApplyFrame
  <2>2. f \in FrameRecord /\ f.through \in Given /\ 0 \in Given
    BY <1>0, <2>1, HeadFrame DEF BaseInv, Given, TableInv, TableTyped
  <2>3. CASE stream' = Closed
    BY <1>2, <2>3 DEF Closed
  <2>4. CASE stream' # Closed
    <3>1. stream' = [stream EXCEPT !.frames = Tail(@)]
      BY <1>7, <2>4 DEF ApplyFrame
    <3>2. /\ stream'.frames = Tail(stream.frames) /\ stream'.base = stream.base
          /\ stream'.open = stream.open /\ stream'.first = stream.first
      BY <1>0, <3>1 DEF StreamTyped
    <3>3. Cursor' # None /\ f.through <= Cursor'
      <4>1. Cursor \in Int /\ f.through \in Int
        <5>1. Cursor \in Given \cup {None}
          BY <1>0, CursorTyped
        <5>2. Cursor \in Int
          BY <1>0, <5>1 DEF None
        <5>3. f.through \in Int
          BY <2>2 DEF FrameRecord
        <5> QED
          BY <5>2, <5>3
      <4>2. CASE Cursor # None /\ Cursor >= f.through
        <5>1. UNCHANGED projection
          BY <1>7, <4>2 DEF ApplyFrame
        <5> QED
          BY <4>1, <4>2, <5>1 DEF projection, Cursor
      <4>3. CASE ~(Cursor # None /\ Cursor >= f.through)
        <5>1. /\ ckpt' = Advanced(f.through, 0)
              /\ f.snapshot => Whole
              /\ ~f.snapshot => Cursor # None /\ UNCHANGED <<complete, ready>>
          BY <1>7, <2>4, <4>3 DEF ApplyFrame
        <5>2. complete' /\ ready' = "ready"
          BY <5>1 DEF Whole, Cursor
        <5>3. f.through <= ckpt'.seq /\ ckpt'.seq \in Nat
          BY <1>0, <2>2, <5>1, AdvancedTyped
        <5>4. Cursor' = ckpt'.seq
          BY <5>2 DEF Cursor
        <5> QED
          BY <5>3, <5>4 DEF None
      <4> QED
        BY <4>2, <4>3
    <3>4. CASE Len(stream.frames) = 1
      <4>1. stream'.frames = << >> /\ f = stream.frames[Len(stream.frames)]
        BY <1>0, <2>1, <3>2, <3>4, LastFrame
      <4> QED
        BY <2>1, <3>2, <3>3, <4>1 DEF Followed
    <3>5. CASE Len(stream.frames) # 1
      <4>1. /\ stream'.frames # << >>
            /\ stream'.frames[Len(stream'.frames)] = stream.frames[Len(stream.frames)]
        BY <1>0, <2>1, <3>2, <3>5, LastFrame
      <4> QED
        BY <2>1, <3>2, <4>1 DEF Followed
    <3> QED
      BY <3>4, <3>5
  <2> QED
    BY <2>3, <2>4
<1>8. CASE FrameInterrupted \/ Disconnect
  BY <1>2, <1>8 DEF FrameInterrupted, Disconnect, Closed
<1> QED
  BY <1>3, <1>4, <1>5, <1>6, <1>7, <1>8 DEF Next, Stream

(* A whole projection whose checkpoint has reached every number of the      *)
(* table shows the table as it is.                                          *)
LEMMA CaughtUp ==
  ASSUME BaseInv, \A e \in Entity : CacheRight(e), NothingMissing, NothingLeftOver,
         Shown, floor <= ckpt.seq, \A e \in Entity : rows[e].seq <= ckpt.seq
  PROVE  UpToDate
<1>0. /\ TableInv /\ Len(log) \in Nat /\ ckpt.seq \in Nat /\ floor \in Nat
      /\ \A e \in Entity : cache[e].seq \in 0..Len(log) /\ rows[e].seq \in Nat
  BY DEF BaseInv, TableInv, TableTyped, ClientTyped, Given
<1>1. ASSUME NEW e \in Entity, rows[e].live PROVE View[e] = rows[e].seq
  BY <1>1 DEF NothingMissing
<1>2. ASSUME NEW e \in Entity, ~rows[e].live, View[e] # 0 PROVE FALSE
  <2>1. CASE IsRow(rows[e])
    <3>1. /\ Replica!IsLast(e, rows[e].seq, Len(log)) /\ ~log[rows[e].seq].live
      BY <1>0, <1>2, <2>1 DEF TableInv, TableIsTheLog
    <3>2. rows[e].seq \in 1..ckpt.seq
      BY <1>0, <2>1 DEF IsRow
    <3> QED
      BY <1>2, <3>1, <3>2 DEF NothingLeftOver
  <2>2. CASE ~IsRow(rows[e])
    <3>1. cache[e].live /\ cache[e].seq # 0 /\ CacheRight(e)
      BY <1>2 DEF View
    <3>2. cache[e].seq \in 1..Len(log) /\ log[cache[e].seq].entity = e
      BY <1>0, <3>1 DEF CacheRight, RowFor
    <3>3. PICK n \in cache[e].seq..Len(log) : Last(e, n, Len(log))
      BY <1>0, <3>2, LastExists
    <3>4. n \in 1..Len(log)
      BY <3>2
    <3>5. ~log[n].live /\ n <= floor
      BY <1>0, <2>2, <3>3, <3>4 DEF TableInv, TableIsTheLog, Last
    <3>6. n \in 1..ckpt.seq
      BY <1>0, <3>4, <3>5
    <3> QED
      BY <1>2, <3>3, <3>5, <3>6 DEF NothingLeftOver, Last
  <2> QED
    BY <2>1, <2>2
<1> QED
  BY <1>1, <1>2 DEF UpToDate

(* The safety half of Converges: a subscription at rest has brought the     *)
(* client up to date (entity_transfer::attach, persistScopedEntities).      *)
(* There is no state in which nothing is left to send or to apply and the   *)
(* projection still lacks a write or keeps what was deleted, pruned or not. *)
THEOREM StreamSettles ==
  ASSUME StreamOnly
  PROVE  Spec => [](AtRest => UpToDate)
<1>1. BaseInv /\ FedByStream /\ Followed /\ NothingMissing /\ NothingLeftOver
        => (AtRest => UpToDate)
  <2> SUFFICES ASSUME BaseInv, FedByStream, Followed, NothingMissing, NothingLeftOver,
                      AtRest
               PROVE  UpToDate
    OBVIOUS
  <2> DEFINE b == stream.base
  <2>0. /\ ckpt.seq \in Nat /\ b \in Nat \cup {None} /\ floor \in Nat
        /\ \A e \in Entity : rows[e].seq \in Nat
    BY DEF BaseInv, TableInv, TableTyped, ClientTyped, Given, StreamInv, StreamTyped
  <2>1. Shown /\ b <= ckpt.seq
    BY DEF AtRest, Followed, Cursor, Shown
  <2>2. b # None /\ ~(b < floor) /\ DocsOf({e \in Entity : rows[e].seq > b}) = {}
    BY DEF AtRest, Frame
  <2>3. b \in Nat /\ floor <= ckpt.seq
    BY <2>0, <2>1, <2>2
  <2>4. \A e \in Entity : rows[e].seq <= ckpt.seq
    <3>1. \A e \in Entity : ~(rows[e].seq > b)
      BY <2>2 DEF DocsOf
    <3> QED
      BY <2>0, <2>1, <2>3, <3>1
  <2>5. \A e \in Entity : CacheRight(e)
    BY DEF FedByStream
  <2> QED
    BY <2>1, <2>3, <2>4, <2>5, CaughtUp
<1>2. Init => Followed
  BY DEF Init, Followed, Closed
<1>3. (BaseInv /\ FedByStream) /\ Followed /\ [Next]_vars => Followed'
  BY FollowedStep
<1> QED
  BY <1>1, <1>2, <1>3, FedAlways, StreamComplete, StreamRemoves, PTL DEF Spec
=============================================================================
