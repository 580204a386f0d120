------------------------ MODULE RetainedCallsProofs ------------------------
(***************************************************************************)
(* Proofs about RetainedCalls, for any number of requests, generations and *)
(* journal entries.                                                        *)
(***************************************************************************)
EXTENDS RetainedCalls, TLAPS

\* Nothing of the operation was received or may be.
Quiet == received = 0 /\ wire = 0

\* The reply is where a repeat finds it.
Kept == IF row = NoRow THEN saved \/ expired ELSE row.outcome.result = "Reply"

HasReply == \E c \in 1 .. Len(journal) : journal[c] = "reply"

\* What the row says of the provider.
RowInv ==
  /\ received + wire <= 1
  /\ ~Quiet /\ row = NoRow => saved \/ expired
  /\ ~Quiet /\ row # NoRow =>
       row.request /\ row.status = "Unknown" /\ row.outcome.result # "NotSent"
  /\ row # NoRow =>
       /\ row.written => received > 0
       /\ row.outcome.result = "Reply" => replied
       /\ row.outcome.result # "Reply" => row.outcome.cursor = 0
  /\ saved => replied
  /\ replied => received > 0

\* What is behind the checkpoint, journaled or delivered is kept.
JournalInv ==
  /\ checkpoint <= Len(journal) /\ read <= Len(journal)
  /\ committed \subseteq 1 .. Len(journal)
  /\ inhand => received > 0
  /\ HasReply => replied
  /\ (inhand \/ wire > 0 \/ HasReply) /\ row # NoRow => row.gen = generation
  /\ \A c \in 1 .. Len(journal) :
       journal[c] = "reply" /\ (c <= checkpoint \/ c \in committed \/ (worker /\ c <= read))
         => Kept
  /\ acked => replied /\ Kept

\* The worker has an entry for what it may still hear of.
EntryInv ==
  /\ pending.result \in {"None", "Reply"}
  /\ pending.result = "Reply" => replied /\ Kept
  /\ worker /\ ~Quiet /\ row # NoRow /\ row.gen = generation => record # "none" \/ Kept

\* A request between its mark in the row and the session.
SendingInv ==
  \A p \in Caller : calls[p].at = "sending" =>
    /\ worker /\ record = "own" /\ waiter = p /\ pending = Nothing
    /\ Quiet
    /\ row # NoRow /\ row.request /\ row.status = "Unknown" /\ row.gen = generation
    /\ row.outcome = NoOutcome

IInv == TypeOK /\ RowInv /\ JournalInv /\ EntryInv /\ SendingInv

-----------------------------------------------------------------------------
(* The operators.                                                           *)

Answer == {"Written", "NotSent", "Unknown", "Reply"}

(* settle saves a reply and deletes its row, or keeps the outcome; only a    *)
(* request that was not sent becomes pending again.                         *)
LEMMA SettleFact ==
  ASSUME NEW r \in Row, Settle(r)
  PROVE  \/ row' = NoRow /\ saved' = TRUE /\ r.outcome.result = "Reply"
         \/ /\ row' \in Row /\ saved' = saved
            /\ row'.request = r.request /\ row'.written = r.written /\ row'.gen = r.gen
            /\ row'.outcome.result = r.outcome.result
            /\ row'.outcome.cursor = r.outcome.cursor
            /\ row'.status = "Pending" => r.outcome.result = "NotSent"
<1>1. CASE r.status = "Unknown" /\ NotSentProven(r)
  BY <1>1 DEF Settle
<1>2. CASE ~(r.status = "Unknown" /\ NotSentProven(r))
  <2> DEFINE s == [r EXCEPT !.outcome.proven = TRUE,
                     !.status = IF r.outcome.result = "NotSent" THEN "Pending" ELSE "Unknown"]
  <2>1. /\ s \in Row
        /\ s.request = r.request /\ s.written = r.written /\ s.gen = r.gen
        /\ s.outcome.result = r.outcome.result /\ s.outcome.cursor = r.outcome.cursor
        /\ s.status = "Pending" => r.outcome.result = "NotSent"
    BY DEF Row, Outcome
  <2>2. \/ row' = s /\ saved' = saved
        \/ r.outcome.result = "Reply" /\ row' = NoRow /\ saved' = TRUE
    BY <1>2 DEF Settle
  <2> QED
    BY <2>1, <2>2
<1> QED
  BY <1>1, <1>2

(* record_outcome never replaces a reply, and holds no row pending but one   *)
(* that is proved unsent.                                                   *)
LEMMA WrittenFact ==
  ASSUME row \in Row, NEW result \in Answer, NEW cursor \in Nat
  PROVE  LET r == Written(result, cursor)
         IN /\ r \in Row
            /\ r.request = row.request /\ r.gen = row.gen
            /\ r.written => row.written \/ result \in {"Written", "Reply"}
            /\ IF result = "Written" \/ row.outcome.result = "Reply"
                 THEN r.outcome = row.outcome
                 ELSE r.outcome.result = result /\ r.outcome.cursor = cursor
            /\ r.status = "Pending" => r.outcome.result = "NotSent"
<1> DEFINE kept == result = "Written" \/ row.outcome.result = "Reply"
           o == IF kept THEN row.outcome
                ELSE [result |-> result, cursor |-> cursor, proven |-> FALSE]
           q == [row EXCEPT !.written = row.written \/ result = "Written" \/ result = "Reply",
                            !.outcome = o]
           r == [q EXCEPT !.status = IF NotSentProven(q) THEN "Pending" ELSE "Unknown"]
<1>1. o \in Outcome
  BY DEF Outcome, Row, Answer, Result
<1>2. /\ q \in Row /\ q.request = row.request /\ q.gen = row.gen /\ q.outcome = o
      /\ q.written => row.written \/ result \in {"Written", "Reply"}
  <2> HIDE DEF o
  <2> QED
    BY <1>1 DEF Row
<1>3. /\ r \in Row /\ r.request = q.request /\ r.gen = q.gen /\ r.outcome = q.outcome
      /\ r.written = q.written
      /\ r.status = "Pending" => NotSentProven(q)
  <2> HIDE DEF q
  <2> QED
    BY <1>2 DEF Row
<1>4. Written(result, cursor) = r
  BY DEF Written
<1>5. NotSentProven(q) => q.outcome.result = "NotSent"
  BY DEF NotSentProven
<1>6. IF kept THEN o = row.outcome ELSE o.result = result /\ o.cursor = cursor
  OBVIOUS
<1> HIDE DEF r, q, o
<1> QED
  BY <1>2, <1>3, <1>4, <1>5, <1>6

(* complete_result holds the result, or tells it to the one that waits.      *)
LEMMA CompleteFact ==
  ASSUME TypeOK, NEW held \in Held, NEW cursor \in Nat, Complete(held, cursor)
  PROVE  /\ pending' \in Held /\ calls' \in [Caller -> Call]
         /\ waiter' \in Caller \cup {NoOne} /\ record' \in {"none", "own", "recovered"}
         /\ \/ /\ held.result = "None" \/ held.cursor > cursor
               /\ pending' = held /\ record' = record /\ waiter' = waiter /\ calls' = calls
            \/ /\ held.result # "None" /\ held.cursor <= cursor
               /\ pending' = Nothing /\ waiter' = NoOne
               /\ record' = record \/ (record' = "none" /\ held.result # "Unknown")
               /\ \A p \in Caller :
                    \/ p # waiter /\ calls'[p] = calls[p]
                    \/ p = waiter /\ calls'[p].at = "idle"
                       /\ calls'[p].told =
                            IF held.result = "Unknown" THEN "nothing" ELSE held.result
<1> DEFINE told == IF held.result = "Unknown" THEN "nothing" ELSE held.result
           b == [Blank EXCEPT !.told = told]
<1>1. CASE held.result # "None" /\ held.cursor <= cursor
  <2>1. told \in {"nothing", "NotSent", "Reply"}
    BY <1>1 DEF Held, Result
  <2>2. b \in Call /\ b.at = "idle" /\ b.told = told
    <3> HIDE DEF told
    <3> QED
      BY <2>1 DEF Blank, Call
  <2>3. calls' = [p \in Caller |-> IF p = waiter THEN b ELSE calls[p]]
    BY <1>1 DEF Complete, Tell
  <2>4. /\ pending' = Nothing /\ waiter' = NoOne
        /\ record' = IF held.result = "Unknown" THEN record ELSE "none"
    BY <1>1 DEF Complete
  <2>5. Nothing \in Held
    BY DEF Nothing, Held, Result
  <2>6. calls \in [Caller -> Call] /\ record \in {"none", "own", "recovered"}
    BY DEF TypeOK
  <2> HIDE DEF b
  <2>7. /\ calls' \in [Caller -> Call]
        /\ \A p \in Caller : IF p = waiter THEN calls'[p] = b ELSE calls'[p] = calls[p]
    BY <2>2, <2>3, <2>6
  <2> QED
    BY <1>1, <2>2, <2>4, <2>5, <2>6, <2>7
<1>2. CASE ~(held.result # "None" /\ held.cursor <= cursor)
  BY <1>2 DEF Complete, TypeOK, Held
<1> QED
  BY <1>1, <1>2

(* record_outcome leaves a missing row missing, keeps a reply and the        *)
(* request, and what complete_retained holds is what it held or the outcome *)
(* of the row.                                                              *)
LEMMA RecordFact ==
  ASSUME TypeOK, NEW result \in Answer, NEW cursor \in Nat, Record(result, cursor)
  PROVE  /\ row = NoRow => row' = NoRow /\ saved' = saved
         /\ row # NoRow =>
              \/ row' = row /\ saved' = saved /\ row.outcome.result = "NotSent"
                 /\ row.status = "Unknown" /\ row.outcome.proven
              \/ row' = NoRow /\ saved' = TRUE /\ "Reply" \in {result, row.outcome.result}
              \/ /\ row' \in Row /\ saved' = saved
                 /\ row'.request = row.request /\ row'.gen = row.gen
                 /\ row'.written => row.written \/ result \in {"Written", "Reply"}
                 /\ row'.status = "Pending" => row'.outcome.result = "NotSent"
                 /\ IF result = "Written" \/ row.outcome.result = "Reply"
                      THEN /\ row'.outcome.result = row.outcome.result
                           /\ row'.outcome.cursor = row.outcome.cursor
                      ELSE row'.outcome.result = result /\ row'.outcome.cursor = cursor
         /\ \E held \in Held :
              /\ Complete(held, checkpoint)
              /\ \/ held = pending
                    /\ (row # NoRow => row.outcome.result \in {"None", "NotSent"})
                    /\ (row # NoRow /\ ~(row.status = "Unknown" /\ row.outcome.proven)
                          => result = "Written" /\ row.outcome.result = "None")
                 \/ /\ row # NoRow
                    /\ IF result = "Written" \/ row.outcome.result = "Reply"
                         THEN held.result = row.outcome.result /\ held.cursor = row.outcome.cursor
                         ELSE held.result = result /\ held.cursor = cursor
<1> DEFINE r == Written(result, cursor)
           h == IF r.outcome.result = "None" THEN pending
                ELSE [result |-> r.outcome.result, cursor |-> r.outcome.cursor]
           stale == row.status = "Unknown" /\ NotSentProven(row) /\ cursor <= row.outcome.cursor
<1>0. row \in Row \cup {NoRow} /\ pending \in Held
  BY DEF TypeOK
<1>1. CASE row = NoRow
  BY <1>0, <1>1 DEF Record
<1>2. CASE row # NoRow /\ stale
  BY <1>0, <1>2 DEF Record, NotSentProven
<1>3. CASE row # NoRow /\ ~stale
  <2>1. row \in Row
    BY <1>0, <1>3
  <2>2. /\ r \in Row
        /\ r.request = row.request /\ r.gen = row.gen
        /\ r.written => row.written \/ result \in {"Written", "Reply"}
        /\ IF result = "Written" \/ row.outcome.result = "Reply"
             THEN r.outcome = row.outcome
             ELSE r.outcome.result = result /\ r.outcome.cursor = cursor
        /\ r.status = "Pending" => r.outcome.result = "NotSent"
    BY <2>1, WrittenFact
  <2>3. \/ Settle(r)
        \/ row' = r /\ saved' = saved
    BY <1>3 DEF Record
  <2>4. Complete(h, checkpoint)
    BY <1>3 DEF Record
  <2> HIDE DEF r
  <2>5. \/ row' = NoRow /\ saved' = TRUE /\ r.outcome.result = "Reply"
        \/ /\ row' \in Row /\ saved' = saved
           /\ row'.request = r.request /\ row'.written = r.written /\ row'.gen = r.gen
           /\ row'.outcome.result = r.outcome.result
           /\ row'.outcome.cursor = r.outcome.cursor
           /\ row'.status = "Pending" => r.outcome.result = "NotSent"
    <3>1. CASE Settle(r)
      BY <2>2, <3>1, SettleFact
    <3>2. CASE row' = r /\ saved' = saved
      BY <2>2, <3>2
    <3> QED
      BY <2>3, <3>1, <3>2
  <2>6. h \in Held
    BY <1>0, <2>2 DEF Held, Row, Outcome
  <2>7. /\ \/ row' = NoRow /\ saved' = TRUE /\ "Reply" \in {result, row.outcome.result}
           \/ /\ row' \in Row /\ saved' = saved
              /\ row'.request = row.request /\ row'.gen = row.gen
              /\ row'.written => row.written \/ result \in {"Written", "Reply"}
              /\ row'.status = "Pending" => row'.outcome.result = "NotSent"
              /\ IF result = "Written" \/ row.outcome.result = "Reply"
                   THEN /\ row'.outcome.result = row.outcome.result
                        /\ row'.outcome.cursor = row.outcome.cursor
                   ELSE row'.outcome.result = result /\ row'.outcome.cursor = cursor
    BY <2>2, <2>5
  <2>8. \/ h = pending /\ result = "Written" /\ row.outcome.result = "None"
        \/ IF result = "Written" \/ row.outcome.result = "Reply"
             THEN h.result = row.outcome.result /\ h.cursor = row.outcome.cursor
             ELSE h.result = result /\ h.cursor = cursor
    BY <2>2 DEF Answer
  <2> HIDE DEF h, stale
  <2> QED
    BY <1>3, <2>4, <2>6, <2>7, <2>8
<1> QED
  BY <1>1, <1>2, <1>3

(* checkpoint_covered settles the row, or leaves it.                         *)
LEMMA CoverFact ==
  ASSUME TypeOK, NEW cursor \in Nat, Cover(cursor)
  PROVE  \/ row' = row /\ saved' = saved
         \/ /\ row # NoRow /\ row.outcome.result = "Reply"
            /\ row' = NoRow /\ saved' = TRUE
         \/ /\ row # NoRow /\ row' # NoRow /\ row' \in Row /\ saved' = saved
            /\ row.outcome.result # "None"
            /\ row'.request = row.request /\ row'.written = row.written
            /\ row'.gen = row.gen
            /\ row'.outcome.result = row.outcome.result
            /\ row'.outcome.cursor = row.outcome.cursor
            /\ row'.status = "Pending" => row.outcome.result = "NotSent"
<1>1. CASE Settle(row) /\ row # NoRow /\ row.outcome.result # "None"
  <2>1. row \in Row
    BY <1>1 DEF TypeOK
  <2> QED
    BY <1>1, <2>1, SettleFact, NoRowAssumption
<1>2. CASE UNCHANGED <<row, saved>>
  BY <1>2
<1> QED
  BY <1>1, <1>2 DEF Cover

-----------------------------------------------------------------------------
(* The invariant.                                                           *)

\* What a step tells.
Told ==
  \A p \in Caller : calls'[p].told # calls[p].told =>
    CASE calls'[p].told = "Reply" -> replied'
      [] calls'[p].told = "NotSent" -> received' = 0 /\ wire' = 0
      [] OTHER -> TRUE

(* A step that changes only the requests and who waits.                      *)
LEMMA CallsStep ==
  ASSUME IInv,
         UNCHANGED <<row, saved, owned, stream, worker, read, record, pending, provider,
                     wire, acked>>,
         waiter' \in Caller \cup {NoOne}, calls' \in [Caller -> Call],
         \A p \in Caller : calls'[p].at = "sending" =>
                             calls[p].at = "sending" /\ waiter' = waiter
  PROVE  IInv'
<1>1. TypeOK'
  BY DEF IInv, TypeOK, owned, stream, provider
<1>2. RowInv'
  BY DEF IInv, RowInv, Quiet, provider, owned
<1>3. JournalInv'
  BY DEF IInv, JournalInv, Kept, HasReply, provider, owned, stream
<1>4. EntryInv'
  BY DEF IInv, EntryInv, Kept, Quiet, provider, owned, stream
<1>5. SendingInv'
  BY DEF IInv, SendingInv, Quiet, provider, owned, stream
<1> QED
  BY <1>1, <1>2, <1>3, <1>4, <1>5 DEF IInv

(* Recording an outcome, from whichever report it comes.                     *)
LEMMA RecordInv ==
  ASSUME IInv, NEW result \in Answer, NEW cursor \in Nat, Record(result, cursor),
         UNCHANGED <<owned, stream, worker, provider, acked>>,
         record # "none",
         wire' \in Nat, received + wire' <= 1,
         read' \in Nat, read' <= Len(journal),
         read' = read \/ result = "Reply",
         result = "Reply" => replied,
         result # "Reply" => cursor = 0,
         result = "Written" => received > 0,
         result = "NotSent" => received = 0 /\ wire' = 0,
         ~Quiet' => ~Quiet \/ (row # NoRow /\ row.request /\ row.outcome.result = "None"),
         wire' > 0 /\ row # NoRow => row.gen = generation
  PROVE  TypeOK' /\ RowInv' /\ JournalInv' /\ EntryInv' /\ Told
<1>0. TypeOK /\ RowInv /\ JournalInv /\ EntryInv
  BY DEF IInv
<1>1. /\ row = NoRow => row' = NoRow /\ saved' = saved
      /\ row # NoRow =>
           \/ row' = row /\ saved' = saved /\ row.outcome.result = "NotSent"
              /\ row.status = "Unknown" /\ row.outcome.proven
           \/ row' = NoRow /\ saved' = TRUE /\ "Reply" \in {result, row.outcome.result}
           \/ /\ row' \in Row /\ saved' = saved
              /\ row'.request = row.request /\ row'.gen = row.gen
              /\ row'.written => row.written \/ result \in {"Written", "Reply"}
              /\ row'.status = "Pending" => row'.outcome.result = "NotSent"
              /\ IF result = "Written" \/ row.outcome.result = "Reply"
                   THEN /\ row'.outcome.result = row.outcome.result
                        /\ row'.outcome.cursor = row.outcome.cursor
                   ELSE row'.outcome.result = result /\ row'.outcome.cursor = cursor
  BY <1>0, RecordFact
<1>2. PICK held \in Held :
        /\ Complete(held, checkpoint)
        /\ \/ held = pending
              /\ (row # NoRow => row.outcome.result \in {"None", "NotSent"})
              /\ (row # NoRow /\ ~(row.status = "Unknown" /\ row.outcome.proven)
                    => result = "Written" /\ row.outcome.result = "None")
           \/ /\ row # NoRow
              /\ IF result = "Written" \/ row.outcome.result = "Reply"
                   THEN held.result = row.outcome.result /\ held.cursor = row.outcome.cursor
                   ELSE held.result = result /\ held.cursor = cursor
  BY <1>0, RecordFact
<1>3. checkpoint \in Nat
  BY <1>0 DEF TypeOK
<1>4. /\ pending' \in Held /\ calls' \in [Caller -> Call]
      /\ waiter' \in Caller \cup {NoOne} /\ record' \in {"none", "own", "recovered"}
      /\ \/ /\ held.result = "None" \/ held.cursor > checkpoint
            /\ pending' = held /\ record' = record /\ waiter' = waiter /\ calls' = calls
         \/ /\ held.result # "None" /\ held.cursor <= checkpoint
            /\ pending' = Nothing /\ waiter' = NoOne
            /\ record' = record \/ (record' = "none" /\ held.result # "Unknown")
            /\ \A p \in Caller :
                 \/ p # waiter /\ calls'[p] = calls[p]
                 \/ p = waiter /\ calls'[p].at = "idle"
                    /\ calls'[p].told =
                         IF held.result = "Unknown" THEN "nothing" ELSE held.result
  BY <1>0, <1>2, <1>3, CompleteFact
<1>5. TypeOK'
  <2>1. row' \in Row \cup {NoRow} /\ saved' \in BOOLEAN
    BY <1>0, <1>1 DEF TypeOK
  <2> QED
    BY <1>0, <1>4, <2>1 DEF TypeOK, owned, stream, provider
<1>6. /\ received' = received /\ replied' = replied /\ expired' = expired
      /\ generation' = generation /\ checkpoint' = checkpoint /\ committed' = committed
      /\ worker' = worker /\ journal' = journal /\ inhand' = inhand /\ acked' = acked
  BY DEF owned, stream, provider
<1>7. /\ row \in Row \cup {NoRow}
      /\ received \in Nat /\ wire \in Nat /\ read \in Nat
  BY <1>0 DEF TypeOK
<1>8. replied => received > 0 /\ ~Quiet
  BY <1>0, <1>7 DEF RowInv, Quiet
(* A kept reply stays kept, and a recorded one is kept.                     *)
<1>9. (Kept => Kept') /\ (result = "Reply" => Kept')
  <2>1. Kept => Kept'
    BY <1>1, <1>6, NoRowAssumption DEF Kept
  <2>2. ASSUME result = "Reply" PROVE Kept'
    <3>1. CASE row = NoRow
      BY <1>0, <1>1, <1>6, <1>8, <2>2, <3>1 DEF Kept, RowInv
    <3>2. CASE row # NoRow
      BY <1>0, <1>1, <1>6, <1>8, <2>2, <3>2, NoRowAssumption DEF Kept, RowInv
    <3> QED
      BY <3>1, <3>2
  <2> QED
    BY <2>1, <2>2
(* What is held or told was proved.                                         *)
<1>10. /\ held.result = "Reply" => replied /\ Kept'
       /\ held.result = "NotSent" => Quiet'
       /\ held.result \notin {"None", "Reply"} => held.cursor = 0
  <2>1. CASE held = pending
    BY <1>0, <1>9, <2>1 DEF EntryInv
  <2>2. CASE row # NoRow /\ (result = "Written" \/ row.outcome.result = "Reply")
             /\ held.result = row.outcome.result /\ held.cursor = row.outcome.cursor
    <3>1. held.result = "Reply" => replied /\ Kept
      BY <1>0, <2>2 DEF RowInv, Kept
    <3>2. held.result # "NotSent"
      BY <1>0, <1>7, <2>2 DEF RowInv, Quiet
    <3> QED
      BY <1>0, <1>9, <2>2, <3>1, <3>2 DEF RowInv
  <2>3. CASE held.result = result /\ held.cursor = cursor
    BY <1>6, <1>9, <2>3 DEF Quiet
  <2> QED
    BY <1>2, <2>1, <2>2, <2>3
<1>11. RowInv'
  <2>1. ASSUME ~Quiet', row' = NoRow PROVE saved' \/ expired'
    <3>1. CASE row = NoRow
      <4>1. ~Quiet
        BY <2>1, <3>1
      <4> QED
        BY <1>0, <1>1, <1>6, <3>1, <4>1 DEF RowInv
    <3>2. CASE row # NoRow
      BY <1>1, <2>1, <3>2, NoRowAssumption
    <3> QED
      BY <3>1, <3>2
  <2>2. ASSUME ~Quiet', row' # NoRow
        PROVE  row'.request /\ row'.status = "Unknown" /\ row'.outcome.result # "NotSent"
    <3>1. row # NoRow /\ row.request /\ row.outcome.result # "NotSent"
      BY <1>0, <1>1, <2>2 DEF RowInv
    <3>2. result # "NotSent"
      BY <1>6, <2>2 DEF Quiet
    <3>3. row' \in Row /\ row'.outcome.result # "NotSent" /\ row'.request
          /\ row'.status # "Pending"
      BY <1>1, <2>2, <3>1, <3>2
    <3> QED
      BY <3>3 DEF Row
  <2>3. ASSUME row' # NoRow
        PROVE  /\ row'.written => received' > 0
               /\ row'.outcome.result = "Reply" => replied'
               /\ row'.outcome.result # "Reply" => row'.outcome.cursor = 0
    BY <1>0, <1>1, <1>6, <1>8, <2>3 DEF RowInv
  <2>4. saved' => replied'
    BY <1>0, <1>1, <1>6 DEF RowInv
  <2>5. replied' => received' > 0
    BY <1>6, <1>8
  <2>6. received' + wire' <= 1
    BY <1>6
  <2> QED
    BY <2>1, <2>2, <2>3, <2>4, <2>5, <2>6 DEF RowInv
<1>12. JournalInv'
  <2>1. (inhand' \/ wire' > 0 \/ HasReply') /\ row' # NoRow => row'.gen = generation'
    BY <1>0, <1>1, <1>6 DEF JournalInv, HasReply
  <2>2. ASSUME NEW c \in 1 .. Len(journal), journal[c] = "reply",
               c <= checkpoint \/ c \in committed \/ (worker /\ c <= read')
        PROVE  Kept'
    BY <1>0, <1>9, <2>2 DEF JournalInv
  <2>3. acked' => replied' /\ Kept'
    BY <1>0, <1>6, <1>9 DEF JournalInv
  <2> QED
    BY <1>0, <1>6, <2>1, <2>2, <2>3 DEF JournalInv, HasReply
<1>13. EntryInv'
  <2>1. pending'.result \in {"None", "Reply"}
    BY <1>0, <1>2, <1>3, <1>4, <1>10 DEF Nothing, Held, Result
  <2>2. pending'.result = "Reply" => replied' /\ Kept'
    BY <1>4, <1>6, <1>10 DEF Nothing
  <2>3. ~Quiet' => record' # "none" \/ Kept'
    BY <1>2, <1>4, <1>10 DEF Held, Result
  <2> QED
    BY <2>1, <2>2, <2>3 DEF EntryInv
<1>14. Told
  BY <1>4, <1>6, <1>10 DEF Told, Quiet
<1> QED
  BY <1>5, <1>11, <1>12, <1>13, <1>14

(* A request that ends is idle and told; the others are as they were.        *)
LEMMA EndsFact ==
  ASSUME TypeOK, NEW p \in Caller, NEW told \in {"nothing", "NotSent", "Reply"},
         Ends(p, told)
  PROVE  /\ calls' \in [Caller -> Call]
         /\ calls'[p].at = "idle" /\ calls'[p].told = told
         /\ \A q \in Caller \ {p} : calls'[q] = calls[q]
<1> DEFINE b == [Blank EXCEPT !.told = told]
<1>1. b \in Call /\ b.at = "idle" /\ b.told = told
  BY DEF Blank, Call
<1>2. calls' = [calls EXCEPT ![p] = b]
  BY DEF Ends
<1> HIDE DEF b
<1> QED
  BY <1>1, <1>2 DEF TypeOK

LEMMA InitInv == Init => IInv
<1> SUFFICES ASSUME Init PROVE IInv
  OBVIOUS
<1>1. Blank \in Call /\ Nothing \in Held /\ Blank.at # "sending"
  BY DEF Blank, Call, Nothing, Held, Result
<1>2. TypeOK
  <2>1. calls \in [Caller -> Call] /\ pending \in Held
    BY <1>1 DEF Init
  <2>2. journal \in Seq({"reply", "event"})
    BY DEF Init
  <2> QED
    BY <2>1, <2>2 DEF Init, TypeOK
<1>3. RowInv
  BY DEF Init, RowInv, Quiet
<1>4. JournalInv
  BY DEF Init, JournalInv, HasReply
<1>5. EntryInv
  BY DEF Init, EntryInv, Nothing, Quiet
<1>6. SendingInv
  BY <1>1 DEF Init, SendingInv
<1> QED
  BY <1>2, <1>3, <1>4, <1>5, <1>6 DEF IInv

(* The owning work.                                                         *)

LEMMA FreshFact ==
  ASSUME TypeOK
  PROVE  /\ Fresh \in Row /\ Fresh # NoRow
         /\ Fresh.gen = generation /\ ~Fresh.request /\ ~Fresh.written
         /\ Fresh.status = "Pending" /\ Fresh.outcome.result = "None"
         /\ Fresh.outcome.cursor = 0 /\ ~NotSentProven(Fresh)
<1>1. Fresh \in Row
  BY DEF TypeOK, Fresh, Row, NoOutcome, Outcome, Result
<1> QED
  BY <1>1, NoRowAssumption DEF Fresh, NoOutcome, NotSentProven

(* Nothing was said of an operation of which nothing was sent.               *)
LEMMA QuietFact ==
  ASSUME IInv, Quiet
  PROVE  ~replied /\ ~HasReply /\ ~acked /\ ~inhand /\ pending.result = "None" /\ ~saved
<1>1. ~replied
  BY DEF IInv, TypeOK, RowInv, Quiet
<1> QED
  BY <1>1 DEF IInv, TypeOK, RowInv, JournalInv, EntryInv, Quiet

(* A row that replaces none, or goes, while nothing was sent.                *)
LEMMA QuietRow ==
  ASSUME IInv, Quiet, row' \in Row \cup {NoRow},
         row' # NoRow => ~row'.written /\ row'.outcome.result \in {"None", "NotSent"}
                         /\ row'.outcome.cursor = 0 /\ row'.gen = generation,
         saved' = saved, expired' = expired, stream' = stream, provider' = provider,
         wire' = wire, acked' = acked, worker' = worker, read' = read,
         pending'.result = "None"
  PROVE  RowInv' /\ JournalInv' /\ EntryInv'
<1>1. ~replied /\ ~HasReply /\ ~acked /\ ~inhand /\ pending.result = "None" /\ ~saved
  BY QuietFact
<1>2. Quiet' /\ ~replied' /\ ~HasReply' /\ ~acked' /\ ~inhand' /\ ~saved'
  BY <1>1 DEF provider, Quiet, HasReply
<1>3. RowInv'
  BY <1>2 DEF RowInv, Quiet
<1>4. JournalInv'
  BY <1>2 DEF IInv, JournalInv, HasReply, Quiet, stream, provider
<1>5. EntryInv'
  BY <1>2 DEF EntryInv
<1> QED
  BY <1>3, <1>4, <1>5

LEMMA ReserveInv == ASSUME IInv, Reserve PROVE IInv' /\ Told
<1>1. Quiet
  BY DEF IInv, TypeOK, Reserve, RowInv
<1>2. pending.result = "None"
  BY <1>1, QuietFact
<1>3. /\ Fresh \in Row /\ Fresh # NoRow /\ ~Fresh.written
      /\ Fresh.outcome.result = "None" /\ Fresh.outcome.cursor = 0
      /\ Fresh.gen = generation /\ row' = Fresh
  BY FreshFact DEF IInv, Reserve
<1>4. RowInv' /\ JournalInv' /\ EntryInv'
  BY <1>1, <1>2, <1>3, QuietRow DEF Reserve, owned, stream, provider, entry
<1>5. TypeOK'
  BY <1>3 DEF IInv, TypeOK, Reserve, owned, stream, provider, entry
<1>6. SendingInv'
  BY DEF IInv, SendingInv, Reserve
<1>7. Told
  BY DEF Reserve, Told
<1> QED
  BY <1>4, <1>5, <1>6, <1>7 DEF IInv

LEMMA DiscardInv == ASSUME IInv, Discard PROVE IInv' /\ Told
<1>1. Quiet
  BY DEF IInv, Discard, RowInv
<1>2. pending.result = "None"
  BY <1>1, QuietFact
<1>4. RowInv' /\ JournalInv' /\ EntryInv'
  BY <1>1, <1>2, QuietRow DEF Discard, owned, stream, provider, entry
<1>5. TypeOK'
  BY DEF IInv, TypeOK, Discard, owned, stream, provider, entry
<1>6. SendingInv'
  BY DEF IInv, SendingInv, Discard
<1>7. Told
  BY DEF Discard, Told
<1> QED
  BY <1>4, <1>5, <1>6, <1>7 DEF IInv

LEMMA ExpireInv == ASSUME IInv, Expire PROVE IInv' /\ Told
<1>1. TypeOK'
  BY DEF IInv, TypeOK, Expire, stream, provider, entry
<1>2. Kept => Kept'
  BY DEF Expire, Kept
<1>3. RowInv'
  BY DEF IInv, Expire, RowInv, Quiet, provider
<1>4. JournalInv'
  BY <1>2 DEF IInv, Expire, JournalInv, HasReply, stream, provider
<1>5. EntryInv'
  BY <1>2 DEF IInv, Expire, EntryInv, Quiet, stream, provider, entry
<1>6. SendingInv'
  BY DEF IInv, Expire, SendingInv, Quiet, stream, provider, entry
<1>7. Told
  BY DEF Expire, Told
<1> QED
  BY <1>1, <1>3, <1>4, <1>5, <1>6, <1>7 DEF IInv

(* The requests and their jobs.                                             *)

LEMMA AskInv == ASSUME IInv, NEW p \in Caller, NEW stale \in BOOLEAN, Ask(p, stale)
                PROVE  IInv' /\ Told
<1> DEFINE b == [Blank EXCEPT !.at = "queued", !.stale = stale]
<1>1. b \in Call /\ b.at = "queued" /\ b.told = "nothing"
  BY DEF Blank, Call
<1>2. calls' = [calls EXCEPT ![p] = b] /\ calls \in [Caller -> Call]
  BY DEF Ask, IInv, TypeOK
<1> HIDE DEF b
<1>3. /\ calls' \in [Caller -> Call]
      /\ calls'[p].at = "queued" /\ calls'[p].told = "nothing"
      /\ \A q \in Caller \ {p} : calls'[q] = calls[q]
  BY <1>1, <1>2
<1>4. IInv'
  <2>1. waiter' \in Caller \cup {NoOne} /\ waiter' = waiter
    BY DEF IInv, TypeOK, Ask, entry
  <2> QED
    BY <1>3, <2>1, CallsStep DEF Ask, entry
<1>5. Told
  BY <1>3 DEF Told
<1> QED
  BY <1>4, <1>5

LEMMA CheckInv == ASSUME IInv, NEW p \in Caller, Check(p) PROVE IInv' /\ Told
<1>0. TypeOK /\ calls \in [Caller -> Call]
  BY DEF IInv, TypeOK
<1>1. /\ calls' \in [Caller -> Call]
      /\ \A q \in Caller \ {p} : calls'[q] = calls[q]
      /\ calls'[p].at # "sending"
      /\ \/ calls'[p].told = "nothing" \/ calls'[p].told = calls[p].told
         \/ calls'[p].told = "Reply" /\ Replay = "Reply"
         \/ calls'[p].told = "NotSent" /\ Replay = "retry"
  <2>1. CASE Replay = "Reply" /\ Ends(p, "Reply")
    BY <1>0, <2>1, EndsFact
  <2>2. CASE Replay = "retry" /\ Ends(p, "NotSent")
    BY <1>0, <2>2, EndsFact
  <2>3. CASE calls' = [calls EXCEPT ![p].at = "checked", ![p].retry = Replay = "retry"]
    <3> DEFINE c == [calls[p] EXCEPT !.at = "checked", !.retry = Replay = "retry"]
    <3>1. c \in Call /\ c.at = "checked" /\ c.told = calls[p].told
      BY <1>0 DEF Call
    <3>2. calls' = [calls EXCEPT ![p] = c]
      BY <2>3, <1>0
    <3> HIDE DEF c
    <3> QED
      BY <1>0, <3>1, <3>2
  <2>4. CASE Ends(p, "nothing")
    BY <1>0, <2>4, EndsFact
  <2> QED
    BY <2>1, <2>2, <2>3, <2>4 DEF Check
<1>2. Replay = "Reply" => saved
  BY DEF Replay
<1>3. Replay = "retry" => row # NoRow /\ NotSentProven(row)
  BY DEF Replay
<1>4. (saved => replied) /\ (Replay = "retry" => Quiet)
  BY <1>3 DEF IInv, TypeOK, RowInv, NotSentProven
<1>5. Told
  BY <1>1, <1>2, <1>4 DEF Told, Check, provider, Quiet
<1>6. waiter' \in Caller \cup {NoOne} /\ waiter' = waiter
  BY DEF IInv, TypeOK, Check, entry
<1>7. IInv'
  BY <1>1, <1>6, CallsStep DEF Check, entry
<1> QED
  BY <1>5, <1>7

LEMMA RefuseInv == ASSUME IInv, NEW p \in Caller, Refuse(p) PROVE IInv' /\ Told
<1>1. /\ calls' \in [Caller -> Call]
      /\ calls'[p].at = "idle" /\ calls'[p].told = "nothing"
      /\ \A q \in Caller \ {p} : calls'[q] = calls[q]
  BY EndsFact DEF IInv, Refuse
<1>2. waiter' \in Caller \cup {NoOne} /\ waiter' = waiter
  BY DEF IInv, TypeOK, Refuse, entry
<1>3. IInv'
  BY <1>1, <1>2, CallsStep DEF Refuse, entry
<1> QED
  BY <1>1, <1>3 DEF Told

LEMMA TimesOutInv == ASSUME IInv, NEW p \in Caller, TimesOut(p) PROVE IInv' /\ Told
<1>1. /\ calls' \in [Caller -> Call]
      /\ calls'[p].at = "idle" /\ calls'[p].told = "nothing"
      /\ \A q \in Caller \ {p} : calls'[q] = calls[q]
  BY EndsFact DEF IInv, TimesOut
<1>2. waiter' \in Caller \cup {NoOne}
  BY DEF IInv, TypeOK, TimesOut
<1>3. \A q \in Caller : calls'[q].at = "sending" => calls[q].at = "sending" /\ waiter' = waiter
  BY <1>1 DEF IInv, SendingInv, TimesOut
<1>4. IInv'
  BY <1>1, <1>2, <1>3, CallsStep DEF TimesOut
<1> QED
  BY <1>1, <1>4 DEF Told

(* Only one request is between its mark and the session.                     *)
LEMMA SendingFact ==
  ASSUME IInv, NEW p \in Caller, calls[p].at = "sending"
  PROVE  /\ \A q \in Caller : calls[q].at = "sending" => q = p
         /\ worker /\ record = "own" /\ waiter = p /\ pending = Nothing /\ Quiet
         /\ row # NoRow /\ row.request /\ row.status = "Unknown" /\ row.gen = generation
         /\ row.outcome.result = "None" /\ row \in Row
BY DEF IInv, SendingInv, TypeOK, NoOutcome

LEMMA SubmittedInv == ASSUME IInv, NEW p \in Caller, Submitted(p) PROVE IInv' /\ Told
<1> DEFINE fresh == row = NoRow /\ ~owner /\ ~expired /\ ~saved
           r == IF fresh THEN Fresh ELSE row
<1>0. TypeOK /\ calls \in [Caller -> Call] /\ calls[p].at = "checked" /\ pending \in Held
  BY DEF IInv, TypeOK, Submitted
<1>1. fresh => Quiet
  BY DEF IInv, TypeOK, RowInv
<1>2. r \in Row \cup {NoRow}
  BY <1>0, FreshFact DEF TypeOK
<1>3. /\ UNCHANGED <<saved, owned, stream, worker, read, provider, wire, acked>>
      /\ expired' = expired /\ worker
  BY DEF Submitted, owned
<1>4. CASE Sendable(r, calls[p].retry)
  <2> DEFINE s == [r EXCEPT !.status = "Unknown", !.request = TRUE,
                            !.written = FALSE, !.outcome = NoOutcome]
             c == [calls[p] EXCEPT !.at = "sending"]
  <2>1. /\ row' = s /\ record' = "own" /\ pending' = Nothing /\ waiter' = p
        /\ calls' = [calls EXCEPT ![p] = c]
    BY <1>0, <1>4 DEF Submitted
  <2>2. r \in Row /\ r.status = "Pending" /\ r.gen = generation
    BY <1>2, <1>4 DEF Sendable
  <2>3. Quiet
    <3>1. CASE fresh
      BY <1>1, <3>1
    <3>2. CASE ~fresh
      BY <1>4, <2>2, <3>2 DEF IInv, RowInv, Sendable
    <3> QED
      BY <3>1, <3>2
  <2>4. \A q \in Caller : calls[q].at # "sending"
    <3> SUFFICES ASSUME NEW q \in Caller, calls[q].at = "sending" PROVE FALSE
      OBVIOUS
    <3>1. row # NoRow /\ row.status = "Unknown"
      BY SendingFact
    <3> QED
      BY <2>2, <3>1
  <2>5. /\ s \in Row /\ s.status = "Unknown" /\ s.request /\ ~s.written
        /\ s.gen = generation /\ s.outcome = NoOutcome
    <3> HIDE DEF r
    <3>1. NoOutcome \in Outcome
      BY DEF NoOutcome, Outcome, Result
    <3> QED
      BY <2>2, <3>1 DEF Row
  <2>6. c \in Call /\ c.at = "sending" /\ c.told = calls[p].told
    BY <1>0 DEF Call
  <2> HIDE DEF s, c, r
  <2>7. /\ calls' \in [Caller -> Call] /\ calls'[p] = c
        /\ \A q \in Caller \ {p} : calls'[q] = calls[q]
    BY <1>0, <2>1, <2>6
  <2>8. Nothing \in Held /\ Nothing.result = "None"
    BY DEF Nothing, Held, Result
  <2>9. TypeOK'
    BY <1>0, <1>3, <2>1, <2>5, <2>7, <2>8 DEF TypeOK, owned, stream, provider
  <2>10. row' # NoRow => ~row'.written /\ row'.outcome.result \in {"None", "NotSent"}
                         /\ row'.outcome.cursor = 0 /\ row'.gen = generation
    BY <2>1, <2>5 DEF NoOutcome
  <2>11. RowInv' /\ JournalInv' /\ EntryInv'
    BY <1>3, <2>1, <2>3, <2>5, <2>8, <2>10, QuietRow
  <2>12. SendingInv'
    <3>1. row' \in Row /\ row' # NoRow
      BY <2>1, <2>5, NoRowAssumption
    <3> QED
      BY <1>3, <2>1, <2>3, <2>4, <2>5, <2>7, <3>1 DEF SendingInv, Quiet, stream, provider
  <2>13. Told
    BY <2>6, <2>7 DEF Told
  <2> QED
    BY <2>9, <2>11, <2>12, <2>13 DEF IInv
<1>5. CASE ~Sendable(r, calls[p].retry)
  <2>1. row' = r /\ Ends(p, "nothing") /\ UNCHANGED entry
    BY <1>5 DEF Submitted
  <2>2. /\ calls' \in [Caller -> Call]
        /\ calls'[p].at = "idle" /\ calls'[p].told = "nothing"
        /\ \A q \in Caller \ {p} : calls'[q] = calls[q]
    BY <1>0, <2>1, EndsFact
  <2>3. CASE fresh
    <3>1. pending.result = "None" /\ pending' = pending
      BY <1>1, <2>1, <2>3, QuietFact DEF entry
    <3>2. row' = Fresh /\ Fresh \in Row /\ ~Fresh.written /\ Fresh.outcome.result = "None"
          /\ Fresh.outcome.cursor = 0 /\ Fresh.gen = generation
      BY <1>0, <2>1, <2>3, FreshFact
    <3>3. RowInv' /\ JournalInv' /\ EntryInv'
      BY <1>1, <1>3, <2>3, <3>1, <3>2, QuietRow
    <3>4. TypeOK'
      BY <1>0, <1>3, <2>1, <2>2, <3>2 DEF TypeOK, owned, stream, provider, entry
    <3>5. SendingInv'
      BY <2>2, <2>3 DEF IInv, SendingInv
    <3> QED
      BY <2>2, <3>3, <3>4, <3>5 DEF IInv, Told
  <2>4. CASE ~fresh
    <3>1. row' = row /\ waiter' = waiter /\ waiter \in Caller \cup {NoOne}
      BY <1>0, <2>1, <2>4 DEF entry, TypeOK
    <3>2. IInv'
      BY <1>3, <2>1, <2>2, <3>1, CallsStep DEF entry
    <3> QED
      BY <2>2, <3>2 DEF Told
  <2> QED
    BY <2>3, <2>4
<1> QED
  BY <1>4, <1>5

LEMMA SendInv == ASSUME IInv, NEW p \in Caller, Send(p) PROVE IInv' /\ Told
<1>0. /\ \A q \in Caller : calls[q].at = "sending" => q = p
      /\ worker /\ record = "own" /\ waiter = p /\ pending = Nothing /\ Quiet
      /\ row # NoRow /\ row.request /\ row.status = "Unknown" /\ row.gen = generation
      /\ row.outcome.result = "None" /\ row \in Row
  BY SendingFact DEF Send
<1> DEFINE c == [calls[p] EXCEPT !.at = "waiting"]
<1>1. calls \in [Caller -> Call] /\ calls' = [calls EXCEPT ![p] = c]
  BY DEF IInv, TypeOK, Send
<1>2. c \in Call /\ c.at = "waiting" /\ c.told = calls[p].told
  BY <1>1 DEF Call
<1> HIDE DEF c
<1>3. /\ calls' \in [Caller -> Call] /\ calls'[p] = c
      /\ \A q \in Caller \ {p} : calls'[q] = calls[q]
  BY <1>1, <1>2
<1>4. TypeOK'
  BY <1>3 DEF IInv, TypeOK, Send, owned, stream, provider, entry
<1>5. RowInv'
  BY <1>0 DEF IInv, RowInv, Send, Quiet, owned, provider
<1>6. JournalInv'
  BY <1>0 DEF IInv, JournalInv, Send, Kept, HasReply, owned, stream, provider
<1>7. EntryInv'
  BY <1>0 DEF IInv, EntryInv, Send, Kept, owned, stream, provider, entry
<1>8. SendingInv'
  BY <1>0, <1>2, <1>3 DEF SendingInv
<1>9. Told
  BY <1>2, <1>3 DEF Told
<1> QED
  BY <1>4, <1>5, <1>6, <1>7, <1>8, <1>9 DEF IInv

(* After an outcome of the request that was being sent, none is.             *)
LEMMA SentRecord ==
  ASSUME IInv, NEW p \in Caller, calls[p].at = "sending",
         NEW result \in {"NotSent", "Unknown"}, Record(result, 0)
  PROVE  \A q \in Caller : calls'[q].at # "sending"
<1>1. /\ \A q \in Caller : calls[q].at = "sending" => q = p
      /\ waiter = p /\ row # NoRow /\ row.status = "Unknown" /\ row.outcome.result = "None"
  BY SendingFact
<1>2. TypeOK /\ result \in Answer /\ checkpoint \in Nat /\ 0 <= checkpoint
  BY DEF IInv, TypeOK, Answer
<1>3. PICK held \in Held :
        /\ Complete(held, checkpoint)
        /\ held.result = result /\ held.cursor = 0
  <2>1. row \in Row /\ ~NotSentProven(row)
    BY <1>1, <1>2 DEF TypeOK, NotSentProven
  <2> DEFINE w == Written(result, 0)
             h == IF w.outcome.result = "None" THEN pending
                  ELSE [result |-> w.outcome.result, cursor |-> w.outcome.cursor]
  <2>2. Complete(h, checkpoint)
    BY <1>1, <2>1 DEF Record
  <2>3. w.outcome.result = result /\ w.outcome.cursor = 0
    BY <1>1, <1>2, <2>1, WrittenFact
  <2>4. h \in Held /\ h.result = result /\ h.cursor = 0
    BY <2>3 DEF Held, Result
  <2> HIDE DEF h
  <2> QED
    BY <2>2, <2>4
<1>4. \A q \in Caller : (q # waiter /\ calls'[q] = calls[q]) \/ calls'[q].at = "idle"
  BY <1>2, <1>3, CompleteFact
<1> QED
  BY <1>1, <1>4

LEMMA RejectedInv == ASSUME IInv, NEW p \in Caller, Rejected(p) PROVE IInv' /\ Told
<1>0. calls[p].at = "sending" /\ Record("NotSent", 0) /\ wire' = wire /\ read' = read
      /\ UNCHANGED <<owned, stream, worker, provider, acked>>
  BY DEF Rejected
<1>1. Quiet /\ record = "own" /\ row # NoRow /\ row.gen = generation
  BY <1>0, SendingFact
<1>2. /\ wire' \in Nat /\ received + wire' <= 1 /\ Quiet'
      /\ read' \in Nat /\ read' <= Len(journal) /\ wire' = 0 /\ received = 0
  BY <1>0, <1>1 DEF IInv, TypeOK, JournalInv, Quiet, provider
<1>3. "NotSent" \in Answer /\ 0 \in Nat
  BY DEF Answer
<1>4. TypeOK' /\ RowInv' /\ JournalInv' /\ EntryInv' /\ Told
  BY <1>0, <1>1, <1>2, <1>3, RecordInv
<1>5. SendingInv'
  BY <1>0, SentRecord DEF SendingInv
<1> QED
  BY <1>4, <1>5 DEF IInv

LEMMA AdmissionUnknownInv ==
  ASSUME IInv, NEW p \in Caller, AdmissionUnknown(p) PROVE IInv' /\ Told
<1>0. calls[p].at = "sending" /\ Record("Unknown", 0) /\ wire' \in {wire, wire + 1}
      /\ read' = read /\ UNCHANGED <<owned, stream, worker, provider, acked>>
  BY DEF AdmissionUnknown
<1>1. /\ Quiet /\ record = "own" /\ row # NoRow /\ row.gen = generation /\ row.request
      /\ row.outcome.result = "None"
  BY <1>0, SendingFact
<1>2. /\ wire' \in Nat /\ received + wire' <= 1
      /\ read' \in Nat /\ read' <= Len(journal)
  <2>1. wire = 0 /\ received = 0
    BY <1>1 DEF Quiet
  <2>2. wire' = 0 \/ wire' = 1
    BY <1>0, <2>1
  <2>3. read \in Nat /\ read <= Len(journal)
    BY DEF IInv, TypeOK, JournalInv
  <2>4. received + wire' <= 1 /\ wire' \in Nat
    BY <2>1, <2>2
  <2> QED
    BY <1>0, <2>3, <2>4
<1>3. "Unknown" \in Answer /\ 0 \in Nat
  BY DEF Answer
<1>4. TypeOK' /\ RowInv' /\ JournalInv' /\ EntryInv' /\ Told
  BY <1>0, <1>1, <1>2, <1>3, RecordInv
<1>5. SendingInv'
  BY <1>0, SentRecord DEF SendingInv
<1> QED
  BY <1>4, <1>5 DEF IInv

(* The session's events.                                                    *)

(* Recording an outcome makes no request send.                               *)
LEMMA RecordCalls ==
  ASSUME TypeOK, NEW result \in Answer, NEW cursor \in Nat, Record(result, cursor)
  PROVE  \A q \in Caller : calls'[q] = calls[q] \/ calls'[q].at = "idle"
<1>1. checkpoint \in Nat /\ \E held \in Held : Complete(held, checkpoint)
  BY RecordFact DEF TypeOK
<1> QED
  BY <1>1, CompleteFact

LEMMA ReportInv ==
  ASSUME IInv, NEW o \in {"Written", "NotSent", "Unknown"}, Report(o) PROVE IInv' /\ Told
<1>0. /\ record # "none" /\ Record(o, 0) /\ Possible(o) /\ read' = read
      /\ wire' = (IF o = "NotSent" THEN wire - 1 ELSE wire)
      /\ UNCHANGED <<owned, stream, worker, provider, acked>>
      /\ \A q \in Caller : calls[q].at # "sending"
  BY DEF Report
<1>1. /\ received \in Nat /\ wire \in Nat /\ received + wire <= 1
      /\ read \in Nat /\ read <= Len(journal)
      /\ wire > 0 /\ row # NoRow => row.gen = generation
  BY DEF IInv, TypeOK, RowInv, JournalInv
<1>2. o = "Written" => received > 0
  BY <1>0 DEF Possible
<1>3. o = "NotSent" => wire > 0
  BY <1>0 DEF Possible
<1>4. /\ wire' \in Nat /\ received + wire' <= 1 /\ wire' <= wire
      /\ o = "NotSent" => received = 0 /\ wire' = 0
  BY <1>0, <1>1, <1>3
<1>5. ~Quiet' => ~Quiet
  BY <1>0, <1>1, <1>4 DEF Quiet, provider
<1>6. wire' > 0 /\ row # NoRow => row.gen = generation
  BY <1>1, <1>4
<1>7. o \in Answer /\ 0 \in Nat /\ o # "Reply"
  BY DEF Answer
<1>8. TypeOK' /\ RowInv' /\ JournalInv' /\ EntryInv' /\ Told
  BY <1>0, <1>1, <1>2, <1>4, <1>5, <1>6, <1>7, RecordInv
<1>9. SendingInv'
  BY <1>0, <1>7, RecordCalls DEF IInv, SendingInv
<1> QED
  BY <1>8, <1>9 DEF IInv

(* A result that was held is told or stays held, while the row is settled.   *)
LEMMA CompleteInv ==
  ASSUME IInv, NEW n \in Nat, Complete(pending, n),
         Kept => Kept', UNCHANGED <<worker, generation, received, wire, replied>>,
         row' # NoRow => row # NoRow /\ row'.gen = row.gen
  PROVE  /\ EntryInv' /\ Told
         /\ pending' \in Held /\ calls' \in [Caller -> Call]
         /\ waiter' \in Caller \cup {NoOne} /\ record' \in {"none", "own", "recovered"}
         /\ \A q \in Caller : calls'[q].at = "sending" =>
              calls[q].at = "sending" /\ UNCHANGED entry
<1>0. TypeOK /\ EntryInv /\ pending \in Held
  BY DEF IInv, TypeOK
<1>1. /\ pending' \in Held /\ calls' \in [Caller -> Call]
      /\ waiter' \in Caller \cup {NoOne} /\ record' \in {"none", "own", "recovered"}
      /\ \/ /\ pending.result = "None" \/ pending.cursor > n
            /\ pending' = pending /\ record' = record /\ waiter' = waiter /\ calls' = calls
         \/ /\ pending.result # "None" /\ pending.cursor <= n
            /\ pending' = Nothing /\ waiter' = NoOne
            /\ record' = record \/ (record' = "none" /\ pending.result # "Unknown")
            /\ \A p \in Caller :
                 \/ p # waiter /\ calls'[p] = calls[p]
                 \/ p = waiter /\ calls'[p].at = "idle"
                    /\ calls'[p].told =
                         IF pending.result = "Unknown" THEN "nothing" ELSE pending.result
  BY <1>0, CompleteFact
<1>2. EntryInv'
  <2>1. pending'.result \in {"None", "Reply"}
        /\ (pending'.result = "Reply" => replied' /\ Kept')
    BY <1>0, <1>1 DEF EntryInv, Nothing
  <2>2. record' = record \/ Kept'
    BY <1>0, <1>1 DEF EntryInv
  <2>3. Quiet' = Quiet
    BY DEF Quiet
  <2> QED
    BY <1>0, <2>1, <2>2, <2>3 DEF EntryInv
<1>3. Told
  BY <1>0, <1>1 DEF EntryInv, Told
<1>4. \A q \in Caller : calls'[q].at = "sending" => calls[q].at = "sending" /\ UNCHANGED entry
  <2> SUFFICES ASSUME NEW q \in Caller, calls'[q].at = "sending"
               PROVE  calls[q].at = "sending" /\ UNCHANGED entry
    OBVIOUS
  <2>1. calls[q].at = "sending"
    BY <1>1
  <2>2. pending = Nothing
    BY <2>1, SendingFact
  <2> QED
    BY <1>1, <2>1, <2>2 DEF Nothing, entry
<1> QED
  BY <1>1, <1>2, <1>3, <1>4

LEMMA ReadInv == ASSUME IInv, Read PROVE IInv' /\ Told
<1>0. /\ TypeOK /\ RowInv /\ JournalInv /\ checkpoint \in Nat
      /\ read \in Nat /\ read < Len(journal) /\ read' = read + 1 /\ Len(journal) \in Nat
      /\ UNCHANGED <<owned, stream, worker, provider, wire, acked>>
  BY DEF IInv, TypeOK, Read
<1>1. read' \in Nat /\ read' <= Len(journal) /\ read' \in 1 .. Len(journal)
  BY <1>0
<1>2. CASE journal[read + 1] = "reply" /\ record # "none"
  <2>1. Record("Reply", read + 1)
    BY <1>2 DEF Read
  <2>2. HasReply /\ replied
    BY <1>0, <1>1, <1>2 DEF HasReply, JournalInv
  <2>3. /\ wire' \in Nat /\ received + wire' <= 1
        /\ wire' > 0 /\ row # NoRow => row.gen = generation
        /\ ~Quiet' => ~Quiet
    BY <1>0 DEF TypeOK, RowInv, JournalInv, Quiet, provider
  <2>4. "Reply" \in Answer /\ read + 1 \in Nat
    BY <1>0 DEF Answer
  <2>5. TypeOK' /\ RowInv' /\ JournalInv' /\ EntryInv' /\ Told
    BY <1>0, <1>1, <1>2, <2>1, <2>2, <2>3, <2>4, RecordInv
  <2>6. \A q \in Caller : calls[q].at # "sending"
    BY <2>2, SendingFact, QuietFact
  <2>7. SendingInv'
    BY <1>0, <2>1, <2>4, <2>6, RecordCalls DEF SendingInv
  <2> QED
    BY <2>5, <2>7 DEF IInv
<1>3. CASE ~(journal[read + 1] = "reply" /\ record # "none")
  <2>1. UNCHANGED <<row, saved>> /\ Complete(pending, checkpoint)
    BY <1>3 DEF Read
  <2>2. Kept' = Kept /\ worker
    BY <1>0, <2>1 DEF Kept, owned, Read
  <2>3. /\ EntryInv' /\ Told
        /\ pending' \in Held /\ calls' \in [Caller -> Call]
        /\ waiter' \in Caller \cup {NoOne} /\ record' \in {"none", "own", "recovered"}
        /\ \A q \in Caller : calls'[q].at = "sending" =>
             calls[q].at = "sending" /\ UNCHANGED entry
    BY <1>0, <2>1, <2>2, CompleteInv DEF stream, provider
  <2>4. TypeOK'
    BY <1>0, <1>1, <2>1, <2>3 DEF TypeOK, owned, stream, provider
  <2>5. RowInv'
    BY <1>0, <2>1 DEF RowInv, Quiet, owned, provider
  <2>6. journal[read + 1] = "reply" => Kept
    <3> SUFFICES ASSUME journal[read + 1] = "reply" PROVE Kept
      OBVIOUS
    <3>1. record = "none" /\ HasReply /\ replied /\ ~Quiet
      BY <1>0, <1>1, <1>3 DEF HasReply, JournalInv, RowInv, Quiet
    <3>2. row # NoRow => row.gen = generation
      BY <1>0, <3>1 DEF JournalInv
    <3> QED
      BY <1>0, <2>2, <3>1, <3>2 DEF IInv, EntryInv, RowInv, Kept
  <2>7. JournalInv'
    BY <1>0, <1>1, <2>1, <2>2, <2>6 DEF JournalInv, HasReply, owned, stream, provider
  <2>8. SendingInv'
    BY <1>0, <2>1, <2>3 DEF IInv, SendingInv, Quiet, entry, stream, provider
  <2> QED
    BY <2>3, <2>4, <2>5, <2>7, <2>8 DEF IInv
<1> QED
  BY <1>2, <1>3

(* Settling keeps what the row and a saved reply say.                        *)
LEMMA CoverInv ==
  ASSUME IInv, NEW cursor \in Nat, Cover(cursor)
  PROVE  /\ row' \in Row \cup {NoRow} /\ saved' \in BOOLEAN
         /\ expired' = expired => (Kept => Kept')
         /\ row' # NoRow => row # NoRow /\ row'.gen = row.gen
         /\ expired' = expired /\ received' = received /\ wire' \in 0 .. wire
              /\ replied' = replied => RowInv'
         /\ row # NoRow /\ row.outcome.result = "None" => row' = row
<1>0. TypeOK /\ RowInv /\ row \in Row \cup {NoRow} /\ received \in Nat /\ wire \in Nat
  BY DEF IInv, TypeOK
<1>1. \/ row' = row /\ saved' = saved
      \/ /\ row # NoRow /\ row.outcome.result = "Reply"
         /\ row' = NoRow /\ saved' = TRUE
      \/ /\ row # NoRow /\ row' # NoRow /\ row' \in Row /\ saved' = saved
         /\ row.outcome.result # "None"
         /\ row'.request = row.request /\ row'.written = row.written
         /\ row'.gen = row.gen
         /\ row'.outcome.result = row.outcome.result
         /\ row'.outcome.cursor = row.outcome.cursor
         /\ row'.status = "Pending" => row.outcome.result = "NotSent"
  BY <1>0, CoverFact
<1>2. row' \in Row \cup {NoRow} /\ saved' \in BOOLEAN
  BY <1>0, <1>1 DEF TypeOK
<1>3. ASSUME expired' = expired, Kept PROVE Kept'
  BY <1>1, <1>3 DEF Kept
<1>4. ASSUME expired' = expired, received' = received, wire' \in 0 .. wire, replied' = replied
      PROVE  RowInv'
  <2>1. received' + wire' <= 1 /\ (~Quiet' => ~Quiet)
    BY <1>0, <1>4 DEF RowInv, Quiet
  <2>2. CASE row' = row /\ saved' = saved
    BY <1>0, <1>4, <2>1, <2>2 DEF RowInv
  <2>3. CASE row # NoRow /\ row.outcome.result = "Reply" /\ row' = NoRow /\ saved' = TRUE
    BY <1>0, <1>4, <2>1, <2>3 DEF RowInv
  <2>4. CASE /\ row # NoRow /\ row' # NoRow /\ row' \in Row /\ saved' = saved
             /\ row'.request = row.request /\ row'.written = row.written
             /\ row'.outcome.result = row.outcome.result
             /\ row'.outcome.cursor = row.outcome.cursor
             /\ row'.status = "Pending" => row.outcome.result = "NotSent"
    <3>1. ~Quiet' => row'.request /\ row'.status = "Unknown" /\ row'.outcome.result # "NotSent"
      BY <1>0, <2>1, <2>4 DEF RowInv, Row
    <3> QED
      BY <1>0, <1>4, <2>1, <2>4, <3>1 DEF RowInv
  <2> QED
    BY <1>1, <2>2, <2>3, <2>4
<1> QED
  BY <1>1, <1>2, <1>3, <1>4

LEMMA JournalStepInv == ASSUME IInv, NEW k \in Nat, Journal(k) PROVE IInv' /\ Told
<1>0. /\ TypeOK /\ RowInv /\ JournalInv /\ checkpoint \in Nat /\ read \in Nat /\ wire \in Nat
      /\ worker /\ k \in checkpoint + 1 .. read /\ committed' = committed \cup {k}
      /\ Len(journal) \in Nat /\ committed \subseteq Nat
      /\ UNCHANGED <<owned, generation, worker, read, provider, wire>>
  BY DEF IInv, TypeOK, Journal
<1>1. PICK n \in PrefixEnd(committed') :
        /\ checkpoint' = n
        /\ IF n > checkpoint THEN Cover(n) ELSE UNCHANGED <<row, saved>>
        /\ Complete(pending, n)
        /\ acked' = (acked \/ \E c \in 1 .. n : journal[c] = "reply")
  BY DEF Journal
<1>2. n \in checkpoint .. Len(journal) /\ checkpoint + 1 .. n \subseteq committed'
  BY <1>1 DEF PrefixEnd
<1>3. n \in Nat /\ n <= Len(journal) /\ checkpoint <= n
  BY <1>0, <1>2
<1>4. expired' = expired /\ received' = received /\ wire' \in 0 .. wire /\ replied' = replied
  BY <1>0 DEF owned, provider
<1>5. /\ row' \in Row \cup {NoRow} /\ saved' \in BOOLEAN
      /\ Kept => Kept'
      /\ row' # NoRow => row # NoRow /\ row'.gen = row.gen
      /\ RowInv'
      /\ row # NoRow /\ row.outcome.result = "None" => row' = row
  <2>1. CASE Cover(n)
    BY <1>3, <1>4, <2>1, CoverInv
  <2>2. CASE UNCHANGED <<row, saved>>
    BY <1>0, <1>4, <2>2 DEF TypeOK, Kept, RowInv, Quiet
  <2> QED
    BY <1>1, <2>1, <2>2
<1>6. /\ EntryInv' /\ Told
      /\ pending' \in Held /\ calls' \in [Caller -> Call]
      /\ waiter' \in Caller \cup {NoOne} /\ record' \in {"none", "own", "recovered"}
      /\ \A q \in Caller : calls'[q].at = "sending" =>
           calls[q].at = "sending" /\ UNCHANGED entry
  BY <1>0, <1>1, <1>3, <1>4, <1>5, CompleteInv
<1>7. acked' \in BOOLEAN
  BY <1>1
<1>8. TypeOK'
  BY <1>0, <1>1, <1>3, <1>5, <1>6, <1>7 DEF TypeOK, owned, provider
<1>9. JournalInv'
  <2>1. committed' \subseteq 1 .. Len(journal) /\ checkpoint' <= Len(journal)
    BY <1>0, <1>1, <1>3 DEF JournalInv
  <2>2. ASSUME NEW c \in 1 .. Len(journal), journal[c] = "reply",
               c <= n \/ c \in committed' \/ c <= read
        PROVE  Kept'
    <3>1. c <= checkpoint \/ c \in committed \/ c <= read
      BY <1>0, <1>2, <1>3, <2>2
    <3> QED
      BY <1>0, <1>5, <2>2, <3>1 DEF JournalInv
  <2>3. acked' => replied /\ Kept'
    <3>1. CASE acked
      BY <1>0, <1>5, <3>1 DEF JournalInv
    <3>2. CASE \E c \in 1 .. n : journal[c] = "reply"
      <4>1. PICK c \in 1 .. n : journal[c] = "reply"
        BY <3>2
      <4>2. c \in 1 .. Len(journal) /\ c <= n
        BY <1>3, <4>1
      <4> QED
        BY <1>0, <2>2, <4>1, <4>2 DEF JournalInv, HasReply
    <3> QED
      BY <1>1, <3>1, <3>2
  <2> QED
    BY <1>0, <1>1, <1>4, <1>5, <2>1, <2>2, <2>3 DEF JournalInv, HasReply, provider
<1>10. SendingInv'
  <2> SUFFICES ASSUME NEW q \in Caller, calls'[q].at = "sending"
               PROVE  /\ worker' /\ record' = "own" /\ waiter' = q /\ pending' = Nothing
                      /\ Quiet'
                      /\ row' # NoRow /\ row'.request /\ row'.status = "Unknown"
                      /\ row'.gen = generation' /\ row'.outcome = NoOutcome
    BY DEF SendingInv
  <2>1. calls[q].at = "sending" /\ UNCHANGED entry
    BY <1>6
  <2>2. /\ worker /\ record = "own" /\ waiter = q /\ pending = Nothing /\ Quiet
        /\ row # NoRow /\ row.request /\ row.status = "Unknown" /\ row.gen = generation
        /\ row.outcome = NoOutcome
    BY <2>1 DEF IInv, SendingInv
  <2>3. row' = row
    BY <1>5, <2>2 DEF NoOutcome
  <2> QED
    BY <1>0, <2>1, <2>2, <2>3 DEF Quiet, entry, provider
<1> QED
  BY <1>5, <1>6, <1>8, <1>9, <1>10 DEF IInv

LEMMA EarlyInv == ASSUME IInv, Early PROVE IInv' /\ Told
<1> DEFINE b == [Blank EXCEPT !.told = "Reply"]
<1>1. b \in Call /\ b.at = "idle" /\ b.told = "Reply"
  BY DEF Blank, Call
<1>2. calls' = [p \in Caller |-> IF p = waiter THEN b ELSE calls[p]]
  BY DEF Early, Tell
<1>3. calls \in [Caller -> Call] /\ replied /\ pending # Nothing
  BY DEF IInv, TypeOK, EntryInv, Early, Nothing
<1> HIDE DEF b
<1>4. /\ calls' \in [Caller -> Call]
      /\ \A p \in Caller : calls'[p] = calls[p] \/ calls'[p] = b
  BY <1>1, <1>2, <1>3
<1>5. \A p \in Caller : calls'[p].at # "sending"
  BY <1>1, <1>3, <1>4, SendingFact
<1>6. waiter' \in Caller \cup {NoOne}
  BY DEF Early
<1>7. IInv'
  BY <1>4, <1>5, <1>6, CallsStep DEF Early
<1>8. Told
  BY <1>1, <1>3, <1>4 DEF Told, Early, provider
<1> QED
  BY <1>7, <1>8

LEMMA ProbeInv == ASSUME IInv, Probe PROVE IInv' /\ Told
<1>1. received > 0 /\ row \in Row /\ row # NoRow /\ row' = [row EXCEPT !.written = TRUE]
  BY DEF IInv, TypeOK, Probe
<1>2. /\ row' \in Row /\ row' # NoRow
      /\ row'.status = row.status /\ row'.request = row.request /\ row'.gen = row.gen
      /\ row'.outcome = row.outcome
  BY <1>1, NoRowAssumption DEF Row
<1>3. Kept' = Kept
  BY <1>1, <1>2 DEF Kept
<1>4. TypeOK'
  BY <1>2 DEF IInv, TypeOK, Probe, owned, stream, provider, entry
<1>5. RowInv'
  BY <1>1, <1>2 DEF IInv, RowInv, Probe, Quiet, owned, provider
<1>6. JournalInv'
  BY <1>1, <1>2, <1>3 DEF IInv, JournalInv, Probe, HasReply, stream, provider
<1>7. EntryInv'
  BY <1>1, <1>2, <1>3 DEF IInv, EntryInv, Probe, Quiet, stream, provider, entry
<1>8. SendingInv'
  BY <1>1, <1>2 DEF IInv, SendingInv, Probe, Quiet, stream, provider, entry
<1>9. Told
  BY DEF Told, Probe
<1> QED
  BY <1>4, <1>5, <1>6, <1>7, <1>8, <1>9 DEF IInv

(* Workers, restarts and generations.                                       *)

LEMMA AttachInv == ASSUME IInv, Attach PROVE IInv' /\ Told
<1> DEFINE waits == Recovers /\ row.outcome.cursor > checkpoint
           final == Recovers /\ row.outcome.result = "Reply" /\ ~waits
<1>0. TypeOK /\ RowInv /\ JournalInv /\ EntryInv /\ checkpoint \in Nat /\ ~worker
  BY DEF IInv, TypeOK, Attach
<1>1. /\ worker' = TRUE /\ read' = checkpoint
      /\ record' = (IF Recovers /\ ~final THEN "recovered" ELSE "none")
      /\ pending' = (IF waits THEN [result |-> row.outcome.result, cursor |-> row.outcome.cursor]
                     ELSE Nothing)
      /\ UNCHANGED <<row, saved, owned, stream, waiter, calls, provider, wire, acked>>
  BY DEF Attach
<1>2. waits => row \in Row /\ row # NoRow /\ row.outcome.result = "Reply" /\ replied /\ Kept
  BY <1>0 DEF Recovers, TypeOK, RowInv, Kept
<1>3. Nothing \in Held /\ Nothing.result = "None"
  BY DEF Nothing, Held, Result
<1>4. pending' \in Held /\ pending'.result \in {"None", "Reply"}
      /\ (pending'.result = "Reply" => waits)
  <2>1. CASE waits
    <3>1. row.outcome \in Outcome
      BY <1>2, <2>1 DEF Row
    <3> QED
      BY <1>1, <1>2, <2>1, <3>1 DEF Held, Outcome
  <2>2. CASE ~waits
    BY <1>1, <1>3, <2>2
  <2> QED
    BY <2>1, <2>2
<1>5. Kept' = Kept /\ Quiet' = Quiet /\ HasReply' = HasReply
  BY <1>1 DEF Kept, Quiet, HasReply, owned, provider
<1>6. ~Quiet /\ row # NoRow /\ row.gen = generation => record' # "none" \/ Kept
  <2> SUFFICES ASSUME ~Quiet, row # NoRow, row.gen = generation
               PROVE  record' # "none" \/ Kept
    OBVIOUS
  <2>1. Recovers
    BY <1>0 DEF RowInv, Recovers, NotSentProven
  <2>2. CASE final
    BY <2>2 DEF Kept
  <2>3. CASE ~final
    BY <1>1, <2>1, <2>3
  <2> QED
    BY <2>2, <2>3
<1> HIDE DEF waits, final
<1>7. TypeOK'
  BY <1>0, <1>1, <1>4 DEF TypeOK, owned, stream, provider
<1>8. RowInv'
  BY <1>0, <1>1 DEF RowInv, Quiet, owned, provider
<1>9. JournalInv'
  BY <1>0, <1>1, <1>5 DEF JournalInv, HasReply, stream, provider
<1>10. EntryInv'
  BY <1>1, <1>2, <1>4, <1>5, <1>6 DEF EntryInv, stream, provider
<1>11. SendingInv'
  BY <1>0, <1>1 DEF IInv, SendingInv
<1>12. Told
  BY <1>1 DEF Told
<1> QED
  BY <1>7, <1>8, <1>9, <1>10, <1>11, <1>12 DEF IInv

(* A worker that goes, with the row as it is or held unknown.                *)
LEMMA DetachedInv ==
  ASSUME IInv, Detached, row' \in Row \cup {NoRow}, (row' = NoRow) = (row = NoRow),
         row # NoRow =>
           /\ row'.request = row.request /\ row'.written = row.written
           /\ row'.gen = row.gen /\ row'.outcome = row.outcome
           /\ row'.status \in {row.status, "Unknown"},
         calls' \in [Caller -> Call], \A p \in Caller : calls'[p].at # "sending",
         UNCHANGED <<saved, owned, stream, read, provider, acked>>
  PROVE  IInv'
<1>0. received \in Nat /\ wire \in Nat /\ RowInv
  BY DEF IInv, TypeOK
<1>1. /\ worker' = FALSE /\ record' = "none" /\ pending' = Nothing /\ waiter' = NoOne
      /\ wire' \in 0 .. wire
  BY DEF Detached
<1>2. /\ wire' \in Nat /\ wire' <= wire /\ received' = received
      /\ received' + wire' <= 1 /\ (~Quiet' => ~Quiet)
  <2>1. wire' \in Nat /\ wire' <= wire
    BY <1>0, <1>1
  <2>2. received' = received /\ received + wire <= 1
    BY <1>0 DEF RowInv, provider
  <2>3. received' + wire' <= 1
    <3>1. \A a, b, c \in Nat : c <= b /\ a + b <= 1 => a + c <= 1
      OBVIOUS
    <3> QED
      BY <1>0, <2>1, <2>2, <3>1
  <2>4. Quiet => Quiet'
    BY <2>1, <2>2 DEF Quiet
  <2> QED
    BY <2>1, <2>2, <2>3, <2>4
<1>3. Kept' = Kept
  BY DEF Kept, owned
<1>4. Nothing \in Held /\ Nothing.result = "None"
  BY DEF Nothing, Held, Result
<1>5. TypeOK'
  BY <1>1, <1>2, <1>4 DEF IInv, TypeOK, owned, stream, provider
<1>6. RowInv'
  <2>1. ~Quiet' /\ row' # NoRow =>
          row'.request /\ row'.status = "Unknown" /\ row'.outcome.result # "NotSent"
    BY <1>0, <1>2 DEF RowInv
  <2> QED
    BY <1>0, <1>2, <2>1 DEF RowInv, owned, provider
<1>7. JournalInv'
  BY <1>0, <1>1, <1>2, <1>3 DEF IInv, JournalInv, HasReply, stream, provider
<1>8. EntryInv'
  BY <1>1, <1>4 DEF EntryInv
<1>9. SendingInv'
  BY DEF SendingInv
<1> QED
  BY <1>5, <1>6, <1>7, <1>8, <1>9 DEF IInv

LEMMA WorkerEndsInv == ASSUME IInv, WorkerEnds PROVE IInv' /\ Told
<1>1. Blank \in Call /\ Blank.at = "idle" /\ Blank.told = "nothing"
  BY DEF Blank, Call
<1>2. calls \in [Caller -> Call] /\ row \in Row \cup {NoRow} /\ row' = row
  BY DEF IInv, TypeOK, WorkerEnds
<1>3. calls' = [p \in Caller |-> IF calls[p].at = "idle" THEN calls[p] ELSE Blank]
  BY DEF WorkerEnds
<1>4. /\ calls' \in [Caller -> Call] /\ \A p \in Caller : calls'[p].at # "sending"
      /\ \A p \in Caller : calls'[p] = calls[p] \/ calls'[p].told = "nothing"
  BY <1>1, <1>2, <1>3
<1>5. IInv'
  BY <1>2, <1>4, DetachedInv DEF WorkerEnds
<1> QED
  BY <1>4, <1>5 DEF Told

LEMMA RestartInv == ASSUME IInv, NEW clean \in BOOLEAN, Restart(clean) PROVE IInv' /\ Told
<1>1. Blank \in Call /\ Blank.at = "idle" /\ Blank.told = "nothing"
  BY DEF Blank, Call
<1>2. row \in Row \cup {NoRow} /\ calls' = [p \in Caller |-> Blank]
  BY DEF IInv, TypeOK, Restart
<1>3. calls' \in [Caller -> Call] /\ \A p \in Caller : calls'[p] = Blank
  BY <1>1, <1>2
<1>4. /\ row' \in Row \cup {NoRow} /\ (row' = NoRow) = (row = NoRow)
      /\ row # NoRow =>
           /\ row'.request = row.request /\ row'.written = row.written
           /\ row'.gen = row.gen /\ row'.outcome = row.outcome
           /\ row'.status \in {row.status, "Unknown"}
  <2>1. CASE row' = row
    BY <1>2, <2>1
  <2>2. CASE row # NoRow /\ row' = [row EXCEPT !.status = "Unknown"]
    <3>1. row \in Row
      BY <1>2, <2>2
    <3> QED
      BY <2>2, <3>1, NoRowAssumption DEF Row
  <2> QED
    BY <2>1, <2>2 DEF Restart
<1>5. IInv'
  BY <1>1, <1>3, <1>4, DetachedInv DEF Restart
<1> QED
  BY <1>1, <1>3, <1>5 DEF Told

LEMMA NewGenerationInv == ASSUME IInv, NewGeneration PROVE IInv' /\ Told
<1>0. /\ TypeOK /\ checkpoint \in Nat /\ wire \in Nat /\ generation \in Nat /\ ~worker
      /\ Cover(checkpoint)
  BY DEF IInv, TypeOK, NewGeneration
<1>1. /\ generation' = generation + 1 /\ checkpoint' = 0 /\ committed' = {} /\ read' = 0
      /\ alive' = TRUE /\ journal' = <<>> /\ inhand' = FALSE /\ wire' = 0
      /\ expired' = expired /\ received' = received /\ replied' = replied
      /\ UNCHANGED <<owned, worker, entry, calls, acked>>
  BY DEF NewGeneration, owned
<1>2. /\ row' \in Row \cup {NoRow} /\ saved' \in BOOLEAN
      /\ Kept => Kept'
      /\ RowInv'
  <2>1. wire' \in 0 .. wire
    BY <1>0, <1>1
  <2> QED
    BY <1>0, <1>1, <2>1, CoverInv
<1>3. journal' \in Seq({"reply", "event"}) /\ Len(journal') = 0 /\ ~HasReply'
  BY <1>1 DEF HasReply
<1>4. TypeOK'
  <2>1. /\ generation' \in Nat /\ checkpoint' \in Nat /\ committed' \subseteq Nat
        /\ read' \in Nat /\ alive' \in BOOLEAN /\ inhand' \in BOOLEAN /\ wire' \in Nat
    <3>1. generation' \in Nat
      BY <1>0, <1>1
    <3>2. committed' \subseteq Nat
      BY <1>1
    <3>3. alive' \in BOOLEAN /\ inhand' \in BOOLEAN
      BY <1>1
    <3>4. checkpoint' \in Nat /\ read' \in Nat /\ wire' \in Nat
      BY <1>1
    <3> QED
      BY <3>1, <3>2, <3>3, <3>4
  <2>2. /\ UNCHANGED <<owned, worker, entry, calls, acked>>
        /\ received' = received /\ replied' = replied
    BY <1>1
  <2> QED
    BY <1>0, <1>2, <1>3, <2>1, <2>2 DEF TypeOK, owned, entry
<1>5. JournalInv'
  BY <1>1, <1>2, <1>3 DEF IInv, JournalInv
<1>6. EntryInv'
  BY <1>0, <1>1, <1>2 DEF IInv, EntryInv, entry
<1>7. SendingInv'
  BY <1>0, <1>1 DEF IInv, SendingInv
<1>8. Told
  BY <1>1 DEF Told
<1> QED
  BY <1>2, <1>4, <1>5, <1>6, <1>7, <1>8 DEF IInv

(* The provider.                                                            *)

LEMMA ReceiveInv == ASSUME IInv, Receive PROVE IInv' /\ Told
<1>1. wire \in Nat /\ received \in Nat /\ received + wire <= 1 /\ wire > 0
  BY DEF IInv, TypeOK, RowInv, Receive
<1>2. wire' = 0 /\ received' = 1 /\ ~Quiet
  BY <1>1 DEF Receive, Quiet
<1>3. TypeOK'
  BY <1>2 DEF IInv, TypeOK, Receive, owned, stream, entry
<1>4. RowInv'
  BY <1>2 DEF IInv, RowInv, Receive, owned
<1>5. JournalInv'
  BY <1>1, <1>2 DEF IInv, JournalInv, Receive, Kept, HasReply, owned, stream
<1>6. EntryInv'
  BY <1>2 DEF IInv, EntryInv, Receive, Kept, owned, stream, entry
<1>7. SendingInv'
  BY <1>2 DEF IInv, SendingInv, Receive
<1> QED
  BY <1>3, <1>4, <1>5, <1>6, <1>7 DEF IInv, Told, Receive

LEMMA ReplyInv == ASSUME IInv, Reply PROVE IInv' /\ Told
<1>0. /\ journal \in Seq({"reply", "event"}) /\ received > 0 /\ received \in Nat
      /\ row # NoRow => row.gen = generation
  BY DEF IInv, TypeOK, JournalInv, Reply
<1>1. /\ journal' \in Seq({"reply", "event"}) /\ Len(journal') = Len(journal) + 1
      /\ \A c \in 1 .. Len(journal) : journal'[c] = journal[c]
      /\ Len(journal) \in Nat
  BY <1>0 DEF Reply
<1>2. /\ replied' = TRUE /\ inhand' = FALSE /\ received' = received /\ wire' = wire
      /\ Quiet' = Quiet /\ Kept' = Kept
  BY DEF Reply, Quiet, Kept, owned
<1>3. TypeOK'
  BY <1>1, <1>2 DEF IInv, TypeOK, Reply, owned, stream, entry
<1>4. RowInv'
  BY <1>0, <1>2 DEF IInv, RowInv, Reply, owned
<1>5. JournalInv'
  <2>1. committed' \subseteq 1 .. Len(journal') /\ checkpoint' <= Len(journal')
        /\ read' <= Len(journal')
    BY <1>1 DEF IInv, TypeOK, JournalInv, Reply, stream
  <2>2. ASSUME NEW c \in 1 .. Len(journal'), journal'[c] = "reply",
               c <= checkpoint \/ c \in committed \/ (worker /\ c <= read)
        PROVE  Kept
    <3>1. c \in 1 .. Len(journal)
      BY <1>1, <2>2 DEF IInv, TypeOK, JournalInv
    <3> QED
      BY <1>1, <2>2, <3>1 DEF IInv, JournalInv
  <2>3. acked => Kept
    BY DEF IInv, JournalInv
  <2> QED
    BY <1>0, <1>2, <2>1, <2>2, <2>3 DEF JournalInv, Reply, stream
<1>6. EntryInv'
  BY <1>2 DEF IInv, EntryInv, Reply, stream, entry
<1>7. SendingInv'
  BY <1>0 DEF IInv, SendingInv, Reply, Quiet
<1> QED
  BY <1>3, <1>4, <1>5, <1>6, <1>7 DEF IInv, Told, Reply

LEMMA EventInv == ASSUME IInv, Event PROVE IInv' /\ Told
<1>0. journal \in Seq({"reply", "event"})
  BY DEF IInv, TypeOK
<1>1. /\ journal' \in Seq({"reply", "event"}) /\ Len(journal') = Len(journal) + 1
      /\ \A c \in 1 .. Len(journal) : journal'[c] = journal[c]
      /\ journal'[Len(journal) + 1] = "event"
      /\ Len(journal) \in Nat
  BY <1>0 DEF Event
<1>2. /\ replied' = replied /\ inhand' = inhand /\ received' = received /\ wire' = wire
      /\ Quiet' = Quiet /\ Kept' = Kept
  BY DEF Event, Quiet, Kept, owned
<1>3. \A c \in 1 .. Len(journal') :
        journal'[c] = "reply" => c \in 1 .. Len(journal) /\ journal[c] = "reply"
  <2> SUFFICES ASSUME NEW c \in 1 .. Len(journal'), journal'[c] = "reply"
               PROVE  c \in 1 .. Len(journal) /\ journal[c] = "reply"
    OBVIOUS
  <2>1. c # Len(journal) + 1
    BY <1>1
  <2>2. c \in 1 .. Len(journal)
    BY <1>1, <2>1
  <2> QED
    BY <1>1, <2>2
<1>4. TypeOK'
  BY <1>1, <1>2 DEF IInv, TypeOK, Event, owned, stream, entry
<1>5. RowInv'
  BY <1>2 DEF IInv, RowInv, Event, owned
<1>6. JournalInv'
  <2>1. committed' \subseteq 1 .. Len(journal') /\ checkpoint' <= Len(journal')
        /\ read' <= Len(journal')
    BY <1>1 DEF IInv, TypeOK, JournalInv, Event, stream
  <2>2. HasReply' => HasReply
    BY <1>3 DEF HasReply
  <2>3. \A c \in 1 .. Len(journal') :
          journal'[c] = "reply" /\ (c <= checkpoint \/ c \in committed \/ (worker /\ c <= read))
            => Kept
    BY <1>3 DEF IInv, JournalInv
  <2> QED
    BY <1>2, <2>1, <2>2, <2>3 DEF IInv, JournalInv, Event, stream
<1>7. EntryInv'
  BY <1>2 DEF IInv, EntryInv, Event, stream, entry
<1>8. SendingInv'
  BY <1>2 DEF IInv, SendingInv, Event, stream, entry
<1> QED
  BY <1>4, <1>5, <1>6, <1>7, <1>8 DEF IInv, Told, Event

LEMMA ProviderEndsInv == ASSUME IInv, ProviderEnds PROVE IInv' /\ Told
<1>1. TypeOK'
  BY DEF IInv, TypeOK, ProviderEnds, owned, stream, entry
<1>2. RowInv'
  BY DEF IInv, RowInv, ProviderEnds, Quiet, owned
<1>3. JournalInv'
  BY DEF IInv, JournalInv, ProviderEnds, Kept, HasReply, owned, stream
<1>4. EntryInv'
  BY DEF IInv, EntryInv, ProviderEnds, Kept, Quiet, owned, stream, entry
<1>5. SendingInv'
  BY DEF IInv, SendingInv, ProviderEnds, Quiet, stream, entry
<1> QED
  BY <1>1, <1>2, <1>3, <1>4, <1>5 DEF IInv, Told, ProviderEnds

-----------------------------------------------------------------------------
(* The theorems.                                                            *)

LEMMA NextInv == ASSUME IInv, Next PROVE IInv' /\ Told
<1>1. ASSUME NEW p \in Caller, Job(p) PROVE IInv' /\ Told
  BY <1>1, AskInv, CheckInv, RefuseInv, SubmittedInv, SendInv, RejectedInv,
     AdmissionUnknownInv, TimesOutInv DEF Job
<1>2. ASSUME NEW k \in 1 .. MaxJournal, Journal(k) PROVE IInv' /\ Told
  BY <1>2, JournalStepInv, BoundsAssumption
<1> QED
  BY <1>1, <1>2, ReserveInv, DiscardInv, ExpireInv, ReportInv, ReadInv, EarlyInv, ProbeInv,
     AttachInv, WorkerEndsInv, NewGenerationInv, RestartInv, ReceiveInv, ReplyInv, EventInv,
     ProviderEndsInv DEF Next

LEMMA StutterInv == ASSUME IInv, UNCHANGED vars PROVE IInv'
<1>1. calls' \in [Caller -> Call] /\ waiter' \in Caller \cup {NoOne}
  BY DEF IInv, TypeOK, vars
<1>2. \A p \in Caller : calls'[p].at = "sending" => calls[p].at = "sending" /\ waiter' = waiter
  BY DEF vars
<1> QED
  BY <1>1, <1>2, CallsStep DEF vars, owned, stream, provider

\* The inductive invariant of the worker, the row, the journal and the requests.
THEOREM Inductive == Spec => []IInv
<1>1. IInv /\ [Next]_vars => IInv'
  BY NextInv, StutterInv
<1> QED
  BY <1>1, InitInv, PTL DEF Spec

\* Every state that the actions reach has the types of the code's records.
THEOREM CallTypes == Spec => []TypeOK
<1>1. IInv => TypeOK
  BY DEF IInv
<1> QED
  BY <1>1, Inductive, PTL

\* However many requests repeat the operation, and whatever ends, times out or
\* restarts between, the provider receives it at most once (submitted).
THEOREM CallSentOnce == Spec => []SentOnce
<1>1. IInv => SentOnce
  BY DEF IInv, RowInv, SentOnce
<1> QED
  BY <1>1, Inductive, PTL

\* What the row says of the provider is true: not sent, written, replied
\* (record_outcome, settle, probe_provider_calls).
THEOREM CallRecordTrue == Spec => []RecordTrue
<1>1. IInv => RecordTrue
  BY DEF IInv, TypeOK, RowInv, RecordTrue, Quiet, NotSentProven
<1> QED
  BY <1>1, Inductive, PTL

\* A reply that the supervisor may forget is in the row or saved until it expires
\* (checkpoint_covered, compact).
THEOREM CallReplyKept == Spec => []ReplyKept
<1>1. IInv => ReplyKept
  BY DEF IInv, JournalInv, Kept, ReplyKept
<1> QED
  BY <1>1, Inductive, PTL

\* A request is told of a reply only when there is one, and that nothing was sent
\* only when nothing was or can be (complete_retained, replay_recorded).
THEOREM CallToldTrue == Spec => ToldTrue
<1>1. IInv /\ [Next]_vars => [Told]_vars
  BY NextInv
<1> QED
  BY <1>1, Inductive, PTL DEF Spec, ToldTrue, Told

-----------------------------------------------------------------------------
(* What the checkpoint covers is settled.  This is the part of              *)
(* ReplySettles that no fairness helps with: once the checkpoint is past a  *)
(* reply, nothing is left to do for it.                                     *)

\* There is one reply at most, a row of this generation that has it names its
\* entry, and one up to the checkpoint is settled.
PlaceInv ==
  /\ inhand => ~replied
  /\ \A c, e \in 1 .. Len(journal) : journal[c] = "reply" /\ journal[e] = "reply" => c = e
  /\ row # NoRow => row.gen <= generation
  /\ row # NoRow /\ row.gen = generation /\ row.outcome.result = "Reply" =>
       /\ row.outcome.cursor \in 1 .. Len(journal)
       /\ journal[row.outcome.cursor] = "reply"
       /\ row.outcome.cursor <= checkpoint => row.outcome.proven

(* record_outcome settles a reply that the checkpoint covers already.        *)
LEMMA RecordSettles ==
  ASSUME TypeOK, NEW result \in Answer, NEW cursor \in Nat, Record(result, cursor),
         row' # NoRow, row'.outcome.result = "Reply", row'.gen = generation,
         row'.outcome.cursor <= checkpoint
  PROVE  row'.outcome.proven
<1> DEFINE r == Written(result, cursor)
           covered == IF r.gen = generation THEN checkpoint ELSE 0
<1>0. row \in Row \cup {NoRow} /\ checkpoint \in Nat
  BY DEF TypeOK
<1>1. row # NoRow /\ row \in Row
  BY <1>0 DEF Record
<1>2. ~(row.status = "Unknown" /\ NotSentProven(row) /\ cursor <= row.outcome.cursor)
  BY <1>1 DEF Record, NotSentProven
<1>3. r \in Row
  BY <1>1, WrittenFact
<1>4. IF r.outcome.result # "None" /\ r.outcome.cursor <= covered
        THEN Settle(r) ELSE row' = r /\ saved' = saved
  BY <1>1, <1>2 DEF Record
<1> HIDE DEF r
<1>5. CASE Settle(r)
  <2> DEFINE s == [r EXCEPT !.outcome.proven = TRUE,
                     !.status = IF r.outcome.result = "NotSent" THEN "Pending" ELSE "Unknown"]
  <2>1. row' = s \/ (row' = r /\ NotSentProven(r))
    BY <1>5 DEF Settle
  <2>2. s.outcome.proven
    BY <1>3 DEF Row, Outcome
  <2> HIDE DEF s
  <2> QED
    BY <2>1, <2>2 DEF NotSentProven
<1>6. CASE row' = r /\ ~(r.outcome.result # "None" /\ r.outcome.cursor <= covered)
  BY <1>6
<1> QED
  BY <1>4, <1>5, <1>6

(* checkpoint_covered settles every reply up to the new checkpoint.          *)
LEMMA CoverSettles ==
  ASSUME TypeOK, NEW cursor \in Nat, Cover(cursor), row' # NoRow,
         row'.outcome.result = "Reply", row'.gen = generation, row'.outcome.cursor <= cursor
  PROVE  row'.outcome.proven
<1>0. row \in Row \cup {NoRow}
  BY DEF TypeOK
<1>1. CASE Settle(row) /\ row # NoRow
  <2> DEFINE s == [row EXCEPT !.outcome.proven = TRUE,
                     !.status = IF row.outcome.result = "NotSent" THEN "Pending" ELSE "Unknown"]
  <2>1. row' = s \/ (row' = row /\ NotSentProven(row))
    BY <1>1 DEF Settle
  <2>2. s.outcome.proven
    BY <1>0, <1>1 DEF Row, Outcome
  <2> HIDE DEF s
  <2> QED
    BY <2>1, <2>2 DEF NotSentProven
<1>2. CASE /\ row' = row
           /\ ~(row # NoRow /\ row.gen = generation
                /\ row.outcome.result # "None" /\ row.outcome.cursor <= cursor)
  BY <1>2
<1> QED
  BY <1>1, <1>2 DEF Cover

(* The journal, the checkpoint and what the row says of a reply stay.        *)
LEMMA ReplyFrame ==
  ASSUME PlaceInv, generation' = generation, checkpoint' = checkpoint, journal' = journal,
         inhand' => inhand, replied' = replied,
         row' # NoRow => row # NoRow /\ row'.gen = row.gen /\ row'.outcome = row.outcome
  PROVE  PlaceInv'
  BY DEF PlaceInv

(* A row that says nothing of a reply.                                       *)
LEMMA ReplyFresh ==
  ASSUME PlaceInv, generation' = generation, checkpoint' = checkpoint, journal' = journal,
         inhand' = inhand, replied' = replied,
         row' # NoRow => row'.gen <= generation /\ row'.outcome.result # "Reply"
  PROVE  PlaceInv'
  BY DEF PlaceInv

(* Recording an outcome: a reply is recorded with the place of its entry.    *)
LEMMA ReplyRecord ==
  ASSUME IInv, IInv', PlaceInv, NEW result \in Answer, NEW cursor \in Nat,
         Record(result, cursor), UNCHANGED <<stream, provider>>,
         result = "Reply" => cursor \in 1 .. Len(journal) /\ journal[cursor] = "reply"
  PROVE  PlaceInv'
<1>0. /\ TypeOK /\ generation' = generation /\ checkpoint' = checkpoint /\ journal' = journal
      /\ inhand' = inhand /\ replied' = replied /\ row' \in Row \cup {NoRow}
  BY DEF IInv, TypeOK, stream, provider
<1>1. CASE row' = NoRow
  BY <1>0, <1>1, ReplyFresh
<1>2. CASE row' # NoRow /\ row' = row
  BY <1>0, <1>2, ReplyFrame
<1>3. CASE row' # NoRow /\ row' # row
  <2>1. /\ row # NoRow /\ row'.gen = row.gen
        /\ IF result = "Written" \/ row.outcome.result = "Reply"
             THEN /\ row'.outcome.result = row.outcome.result
                  /\ row'.outcome.cursor = row.outcome.cursor
             ELSE row'.outcome.result = result /\ row'.outcome.cursor = cursor
    BY <1>0, <1>3, RecordFact
  <2>2. row'.gen <= generation
    BY <2>1 DEF PlaceInv
  <2>3. ASSUME row'.gen = generation, row'.outcome.result = "Reply"
        PROVE  /\ row'.outcome.cursor \in 1 .. Len(journal)
               /\ journal[row'.outcome.cursor] = "reply"
               /\ row'.outcome.cursor <= checkpoint => row'.outcome.proven
    <3>1. row'.outcome.cursor <= checkpoint => row'.outcome.proven
      BY <1>0, <1>3, <2>3, RecordSettles
    <3>2. CASE row.outcome.result = "Reply"
      BY <2>1, <2>3, <3>1, <3>2 DEF PlaceInv
    <3>3. CASE row.outcome.result # "Reply"
      BY <2>1, <2>3, <3>1, <3>3
    <3> QED
      BY <3>2, <3>3
  <2> QED
    BY <1>0, <2>2, <2>3 DEF PlaceInv
<1> QED
  BY <1>1, <1>2, <1>3

(* The steps that give the row another shape.                                *)
LEMMA ReplyRows ==
  ASSUME IInv, IInv', PlaceInv,
         \/ Reserve \/ Discard \/ Expire \/ Probe
         \/ \E p \in Caller : Submitted(p)
         \/ \E clean \in BOOLEAN : Restart(clean)
  PROVE  PlaceInv'
<1>0. /\ TypeOK /\ generation \in Nat /\ row \in Row \cup {NoRow}
      /\ Fresh.gen = generation /\ Fresh.outcome.result = "None" /\ generation <= generation
  BY FreshFact DEF IInv, TypeOK
<1>1. CASE Reserve
  BY <1>0, <1>1, ReplyFresh DEF Reserve, stream, provider
<1>2. CASE Discard
  BY <1>0, <1>2, ReplyFresh DEF Discard, stream, provider
<1>3. CASE Expire
  BY <1>3, ReplyFrame DEF Expire, stream, provider
<1>4. CASE Probe
  <2>1. row # NoRow /\ row' = [row EXCEPT !.written = TRUE]
    BY <1>4 DEF Probe
  <2>2. row'.gen = row.gen /\ row'.outcome = row.outcome
    BY <1>0, <2>1 DEF Row
  <2> QED
    BY <1>4, <2>1, <2>2, ReplyFrame DEF Probe, stream, provider
<1>5. ASSUME NEW p \in Caller, Submitted(p) PROVE PlaceInv'
  <2>1. /\ generation' = generation /\ checkpoint' = checkpoint /\ journal' = journal
        /\ inhand' = inhand /\ replied' = replied
    BY <1>5 DEF Submitted, stream, provider
  <2> DEFINE r == IF row = NoRow /\ ~owner /\ ~expired /\ ~saved THEN Fresh ELSE row
  <2>2. CASE Sendable(r, calls[p].retry)
    <3>1. r \in Row /\ r.gen = generation
      BY <1>0, <2>2, FreshFact DEF Sendable
    <3>2. row' = [r EXCEPT !.status = "Unknown", !.request = TRUE,
                           !.written = FALSE, !.outcome = NoOutcome]
      BY <1>5, <2>2 DEF Submitted
    <3> HIDE DEF r
    <3>3. row'.gen = generation /\ row'.outcome = NoOutcome
      BY <3>1, <3>2 DEF Row
    <3> QED
      BY <1>0, <2>1, <3>3, ReplyFresh DEF NoOutcome
  <2>3. CASE row' = row
    BY <2>1, <2>3, ReplyFrame
  <2>4. CASE row' = Fresh
    BY <1>0, <2>1, <2>4, ReplyFresh
  <2>5. ~Sendable(r, calls[p].retry) => row' = r
    BY <1>5 DEF Submitted
  <2> QED
    BY <2>2, <2>3, <2>4, <2>5
<1>6. ASSUME NEW clean \in BOOLEAN, Restart(clean) PROVE PlaceInv'
  <2>1. row' = row \/ (row # NoRow /\ row' = [row EXCEPT !.status = "Unknown"])
    BY <1>6 DEF Restart
  <2>2. row' # NoRow => row # NoRow /\ row'.gen = row.gen /\ row'.outcome = row.outcome
    BY <1>0, <2>1 DEF Row
  <2> QED
    BY <1>6, <2>2, ReplyFrame DEF Restart, stream, provider
<1> QED
  BY <1>1, <1>2, <1>3, <1>4, <1>5, <1>6

(* Journaling an entry covers what it brings behind the checkpoint.          *)
LEMMA ReplyJournal ==
  ASSUME IInv, IInv', PlaceInv, NEW k \in Nat, Journal(k)
  PROVE  PlaceInv'
<1>0. /\ TypeOK /\ checkpoint \in Nat /\ generation' = generation /\ journal' = journal
      /\ inhand' = inhand /\ replied' = replied /\ row \in Row \cup {NoRow}
  BY DEF IInv, TypeOK, Journal, provider
<1>1. PICK n \in PrefixEnd(committed') :
        /\ checkpoint' = n
        /\ IF n > checkpoint THEN Cover(n) ELSE UNCHANGED <<row, saved>>
  BY DEF Journal
<1>2. n \in Nat /\ checkpoint <= n
  <2>1. n \in checkpoint .. Len(journal)
    BY <1>1 DEF PrefixEnd
  <2> QED
    BY <1>0, <2>1
<1>3. CASE n = checkpoint
  BY <1>0, <1>1, <1>3, ReplyFrame
<1>4. CASE n > checkpoint
  <2>1. row' # NoRow => /\ row # NoRow /\ row'.gen = row.gen
                        /\ row'.outcome.result = row.outcome.result
                        /\ row'.outcome.cursor = row.outcome.cursor
    BY <1>0, <1>1, <1>2, <1>4, CoverFact
  <2>2. row' # NoRow /\ row'.outcome.result = "Reply" /\ row'.gen = generation
          /\ row'.outcome.cursor <= n => row'.outcome.proven
    BY <1>0, <1>1, <1>2, <1>4, CoverSettles
  <2> QED
    BY <1>0, <1>1, <2>1, <2>2 DEF PlaceInv
<1> QED
  BY <1>0, <1>2, <1>3, <1>4

(* The provider and its generations.                                         *)
LEMMA ReplyProvider ==
  ASSUME IInv, IInv', PlaceInv, Receive \/ Reply \/ Event \/ ProviderEnds \/ NewGeneration
  PROVE  PlaceInv'
<1>0. /\ TypeOK /\ RowInv /\ JournalInv /\ generation \in Nat /\ checkpoint \in Nat
      /\ row \in Row \cup {NoRow} /\ journal \in Seq({"reply", "event"})
      /\ received \in Nat /\ wire \in Nat
  BY DEF IInv, TypeOK
<1>1. CASE Receive
  <2>1. ~replied
    BY <1>0, <1>1 DEF Receive, RowInv
  <2>2. UNCHANGED <<row, generation, checkpoint, journal, replied>>
    BY <1>1 DEF Receive, stream
  <2> QED
    BY <2>1, <2>2 DEF PlaceInv
<1>2. CASE Reply
  <2>1. inhand /\ ~replied /\ ~inhand' /\ journal' = Append(journal, "reply")
        /\ UNCHANGED <<row, generation, checkpoint>>
    BY <1>2 DEF Reply, PlaceInv, stream
  <2>2. \A c \in 1 .. Len(journal) : journal[c] # "reply"
    BY <1>0, <2>1 DEF JournalInv, HasReply
  <2>3. row # NoRow => row.outcome.result # "Reply"
    BY <1>0, <2>1 DEF RowInv
  <2>4. Len(journal') = Len(journal) + 1
        /\ \A c \in 1 .. Len(journal) : journal'[c] = journal[c]
    BY <1>0, <2>1
  <2>5. \A c \in 1 .. Len(journal') : journal'[c] = "reply" => c = Len(journal')
    BY <1>0, <2>2, <2>4
  <2> QED
    BY <2>1, <2>3, <2>5 DEF PlaceInv
<1>3. CASE Event
  <2>1. journal' = Append(journal, "event")
        /\ UNCHANGED <<row, generation, checkpoint, inhand, replied>>
    BY <1>3 DEF Event, stream
  <2>2. /\ Len(journal) \in Nat /\ Len(journal') = Len(journal) + 1
        /\ \A c \in 1 .. Len(journal) : journal'[c] = journal[c]
        /\ journal'[Len(journal) + 1] = "event"
    BY <1>0, <2>1
  <2>3. \A c \in 1 .. Len(journal') : journal'[c] = "reply" => c \in 1 .. Len(journal)
    BY <2>2
  <2>4. \A c, e \in 1 .. Len(journal') : journal'[c] = "reply" /\ journal'[e] = "reply" => c = e
    BY <2>2, <2>3 DEF PlaceInv
  <2>5. \A c \in 1 .. Len(journal) : c \in 1 .. Len(journal')
    BY <2>2
  <2> QED
    BY <2>1, <2>2, <2>4, <2>5 DEF PlaceInv
<1>4. CASE ProviderEnds
  BY <1>4, ReplyFrame DEF ProviderEnds, stream
<1>5. CASE NewGeneration
  <2>1. /\ generation' = generation + 1 /\ journal' = <<>> /\ ~inhand' /\ Cover(checkpoint)
    BY <1>5 DEF NewGeneration
  <2>2. row' # NoRow => row # NoRow /\ row' \in Row /\ row'.gen = row.gen
    BY <1>0, <2>1, CoverFact
  <2>3. row' # NoRow => row'.gen <= generation /\ row'.gen \in Nat
    BY <2>2 DEF PlaceInv, Row
  <2>4. row' # NoRow => row'.gen <= generation' /\ row'.gen # generation'
    BY <1>0, <2>1, <2>3
  <2> QED
    BY <2>1, <2>4 DEF PlaceInv
<1> QED
  BY <1>1, <1>2, <1>3, <1>4, <1>5

(* A reply up to the checkpoint stays settled.                               *)
LEMMA ReplyStep ==
  ASSUME IInv, IInv', PlaceInv, [Next]_vars
  PROVE  PlaceInv'
<1>0. 0 \in Nat /\ read \in Nat /\ Len(journal) \in Nat
  BY DEF IInv, TypeOK
<1>1. CASE UNCHANGED <<row, stream, provider>>
  BY <1>1, ReplyFrame DEF stream, provider
<1>2. ASSUME NEW p \in Caller, Job(p) PROVE PlaceInv'
  <2>1. ASSUME (\E stale \in BOOLEAN : Ask(p, stale)) \/ Check(p) \/ Refuse(p) \/ Send(p) \/ TimesOut(p)
        PROVE  UNCHANGED <<row, stream, provider>>
    BY <2>1 DEF Ask, Check, Refuse, Send, TimesOut
  <2>2. ASSUME Rejected(p) \/ AdmissionUnknown(p) PROVE PlaceInv'
    <3>1. PICK o \in {"NotSent", "Unknown"} : Record(o, 0) /\ UNCHANGED <<stream, provider>>
      BY <2>2 DEF Rejected, AdmissionUnknown
    <3> QED
      BY <1>0, <3>1, ReplyRecord DEF Answer
  <2> QED
    BY <1>1, <1>2, <2>1, <2>2, ReplyRows DEF Job
<1>3. ASSUME NEW o \in {"Written", "NotSent", "Unknown"}, Report(o) PROVE PlaceInv'
  <2>1. Record(o, 0) /\ UNCHANGED <<stream, provider>>
    BY <1>3 DEF Report
  <2> QED
    BY <1>0, <2>1, ReplyRecord DEF Answer
<1>4. CASE Read
  <2>1. CASE journal[read + 1] = "reply" /\ record # "none"
    <3>1. Record("Reply", read + 1) /\ UNCHANGED <<stream, provider>> /\ read < Len(journal)
      BY <1>4, <2>1 DEF Read
    <3>2. read + 1 \in Nat /\ read + 1 \in 1 .. Len(journal)
      BY <1>0, <3>1
    <3> QED
      BY <2>1, <3>1, <3>2, ReplyRecord DEF Answer
  <2>2. CASE ~(journal[read + 1] = "reply" /\ record # "none")
    BY <1>1, <1>4, <2>2 DEF Read
  <2> QED
    BY <2>1, <2>2
<1>5. ASSUME NEW k \in 1 .. MaxJournal, Journal(k) PROVE PlaceInv'
  BY <1>5, ReplyJournal, BoundsAssumption
<1>6. CASE Early \/ Attach \/ WorkerEnds \/ UNCHANGED vars
  BY <1>1, <1>6 DEF Early, Attach, WorkerEnds, vars, stream, provider
<1> QED
  BY <1>2, <1>3, <1>4, <1>5, <1>6, ReplyRows, ReplyProvider DEF Next

\* Every reply that the checkpoint is past is saved, expired, or settled in a row
\* whose owner has not taken it: compaction never acknowledges what it has not
\* settled (journal_batch, checkpoint_covered).
THEOREM CoveredIsSettled ==
  Spec => [](\A c \in 1 .. checkpoint : journal[c] = "reply" =>
               \/ saved \/ expired
               \/ row # NoRow /\ row.outcome.result = "Reply" /\ row.outcome.proven)
<1> DEFINE Covered == \A c \in 1 .. checkpoint : journal[c] = "reply" =>
                        \/ saved \/ expired
                        \/ row # NoRow /\ row.outcome.result = "Reply" /\ row.outcome.proven
<1>1. Init => PlaceInv
  BY DEF Init, PlaceInv
<1>2. IInv /\ IInv' /\ PlaceInv /\ [Next]_vars => PlaceInv'
  BY ReplyStep
<1>3. IInv /\ PlaceInv => Covered
  <2> SUFFICES ASSUME IInv, PlaceInv, NEW c \in 1 .. checkpoint, journal[c] = "reply"
               PROVE  \/ saved \/ expired
                      \/ row # NoRow /\ row.outcome.result = "Reply" /\ row.outcome.proven
    OBVIOUS
  <2>1. c \in 1 .. Len(journal) /\ c <= checkpoint
    BY DEF IInv, TypeOK, JournalInv
  <2>2. Kept /\ (row # NoRow => row.gen = generation)
    BY <2>1 DEF IInv, JournalInv, HasReply
  <2>3. CASE row # NoRow
    <3>1. row.outcome.result = "Reply" /\ row.gen = generation
      BY <2>2, <2>3 DEF Kept
    <3>2. row.outcome.cursor = c
      BY <2>1, <2>3, <3>1 DEF PlaceInv
    <3> QED
      BY <2>1, <2>3, <3>1, <3>2 DEF PlaceInv
  <2> QED
    BY <2>2, <2>3 DEF Kept
<1> HIDE DEF Covered
<1>4. Spec => []Covered
  BY <1>1, <1>2, <1>3, Inductive, PTL DEF Spec
<1> QED
  BY <1>4 DEF Covered

-----------------------------------------------------------------------------
(* A request that waits is served: the worker's entry names it, and a       *)
(* result that the checkpoint covers is not held back from it.              *)

\* Nobody waits for an entry that the session will say nothing of.
WaitInv ==
  \A p \in Caller : calls[p].at = "waiting" =>
    worker /\ waiter = p /\ record # "none" /\ ~Quiet

HeldInv == pending.result # "None" => pending.cursor > checkpoint

ServeInv == WaitInv /\ HeldInv /\ (wire > 0 => row # NoRow)

(* The requests change, and no further one waits.                            *)
LEMMA WaitCalls ==
  ASSUME WaitInv, worker' = worker, record' = record, received' = received, wire' = wire,
         \A q \in Caller : calls'[q].at = "waiting" => calls[q].at = "waiting" /\ waiter' = q
  PROVE  WaitInv'
  BY DEF WaitInv, Quiet

(* complete_result tells what the checkpoint covers and holds the rest.      *)
LEMMA ServeComplete ==
  ASSUME TypeOK, WaitInv, NEW held \in Held, NEW n \in Nat, Complete(held, n),
         checkpoint' = n, worker' = worker,
         ~Quiet => ~Quiet' \/ (held.result # "None" /\ held.cursor <= n)
  PROVE  WaitInv' /\ HeldInv'
<1>1. \/ /\ held.result = "None" \/ held.cursor > n
         /\ pending' = held /\ record' = record /\ waiter' = waiter /\ calls' = calls
      \/ /\ held.result # "None" /\ held.cursor <= n
         /\ pending' = Nothing /\ waiter' = NoOne
         /\ \A p \in Caller :
              \/ p # waiter /\ calls'[p] = calls[p]
              \/ p = waiter /\ calls'[p].at = "idle"
  BY CompleteFact
<1>2. HeldInv'
  BY <1>1 DEF HeldInv, Nothing
<1>3. ASSUME NEW p \in Caller, calls'[p].at = "waiting"
      PROVE  worker' /\ waiter' = p /\ record' # "none" /\ ~Quiet'
  <2>1. CASE held.result # "None" /\ held.cursor <= n
    <3>1. p # waiter /\ calls[p].at = "waiting"
      BY <1>1, <1>3, <2>1 DEF Held
    <3> QED
      BY <3>1 DEF WaitInv
  <2>2. CASE ~(held.result # "None" /\ held.cursor <= n)
    <3>1. record' = record /\ waiter' = waiter /\ calls' = calls
      BY <1>1, <2>2
    <3> QED
      BY <1>3, <2>2, <3>1 DEF WaitInv
  <2> QED
    BY <2>1, <2>2
<1> QED
  BY <1>2, <1>3 DEF WaitInv

(* A request on its way keeps its row: only a saved reply deletes one.       *)
LEMMA WireRow ==
  ASSUME IInv, IInv', wire > 0 => row # NoRow, wire' > 0 => wire > 0 \/ row # NoRow,
         row' # NoRow \/ row = NoRow \/ saved'
  PROVE  wire' > 0 => row' # NoRow
<1> SUFFICES ASSUME wire' > 0, row' = NoRow
             PROVE  FALSE
  OBVIOUS
<1>1. received' \in Nat /\ wire' \in Nat /\ received' + wire' <= 1
  BY DEF IInv, TypeOK, RowInv
<1>2. \A a, b \in Nat : a + b <= 1 /\ b > 0 => ~(a > 0)
  OBVIOUS
<1>3. ~(received' > 0)
  BY <1>1, <1>2, Zenon
<1>4. saved' => received' > 0
  BY DEF IInv, RowInv
<1>5. saved'
  BY Zenon
<1> QED
  BY <1>3, <1>4, <1>5

LEMMA ServeRecord ==
  ASSUME IInv, IInv', ServeInv, NEW result \in Answer, NEW cursor \in Nat,
         Record(result, cursor), UNCHANGED <<stream, worker>>,
         wire' > 0 => wire > 0 \/ row # NoRow,
         ~Quiet => ~Quiet'
  PROVE  ServeInv'
<1>0. TypeOK /\ checkpoint \in Nat /\ checkpoint' = checkpoint
  BY DEF IInv, TypeOK, stream
<1>1. PICK held \in Held : Complete(held, checkpoint)
  BY <1>0, RecordFact
<1>2. WaitInv' /\ HeldInv'
  BY <1>0, <1>1, ServeComplete DEF ServeInv
<1>3. row' # NoRow \/ row = NoRow \/ saved'
  BY <1>0, RecordFact, NoRowAssumption DEF TypeOK
<1>4. wire' > 0 => row' # NoRow
  BY <1>3, WireRow DEF ServeInv
<1> QED
  BY <1>2, <1>4 DEF ServeInv

(* The session hands an unsent request back: the one that waits is told.     *)
LEMMA ServeUnsent ==
  ASSUME IInv, ServeInv, Report("NotSent")
  PROVE  ServeInv'
<1>0. /\ TypeOK /\ RowInv /\ checkpoint \in Nat /\ received \in Nat /\ wire \in Nat
      /\ row \in Row \cup {NoRow} /\ pending \in Held
  BY DEF IInv, TypeOK
<1>1. /\ wire > 0 /\ wire' = wire - 1 /\ worker' = worker /\ checkpoint' = checkpoint
      /\ Record("NotSent", 0)
  BY DEF Report, Possible, stream
<1>2. wire = 1 /\ received = 0 /\ wire' = 0 /\ ~Quiet
  BY <1>0, <1>1 DEF RowInv, Quiet
<1>3. row # NoRow /\ row \in Row
  BY <1>0, <1>1 DEF ServeInv
<1>4. row.outcome.result \notin {"NotSent", "Reply"}
  BY <1>0, <1>2, <1>3 DEF RowInv
<1>5. "NotSent" \in Answer /\ 0 \in Nat
  BY DEF Answer
<1> DEFINE r == Written("NotSent", 0)
<1>6. r \in Row /\ r.outcome.result = "NotSent" /\ r.outcome.cursor = 0
  BY <1>3, <1>4, <1>5, WrittenFact
<1>7. Complete(IF r.outcome.result = "None" THEN pending
               ELSE [result |-> r.outcome.result, cursor |-> r.outcome.cursor], checkpoint)
  BY <1>1, <1>3, <1>4 DEF Record, NotSentProven
<1> HIDE DEF r
<1> DEFINE held == [result |-> "NotSent", cursor |-> 0]
<1>8. Complete(held, checkpoint)
  BY <1>6, <1>7
<1>9. held \in Held /\ held.result # "None" /\ held.cursor <= checkpoint
  BY <1>0 DEF Held, Result
<1> HIDE DEF held
<1>10. WaitInv' /\ HeldInv'
  BY <1>0, <1>1, <1>8, <1>9, ServeComplete DEF ServeInv
<1> QED
  BY <1>2, <1>10 DEF ServeInv

(* Nobody waits while nothing was sent.                                      *)
LEMMA NoneWaits ==
  ASSUME WaitInv, Quiet \/ ~worker
  PROVE  \A q \in Caller : calls[q].at # "waiting"
  BY DEF WaitInv

(* The jobs of the requests.                                                 *)
LEMMA ServeJob ==
  ASSUME IInv, IInv', ServeInv, NEW p \in Caller, Job(p)
  PROVE  ServeInv'
<1>0. /\ TypeOK /\ RowInv /\ calls \in [Caller -> Call] /\ calls[p] \in Call
      /\ WaitInv /\ HeldInv /\ (wire > 0 => row # NoRow)
  BY DEF IInv, TypeOK, ServeInv
<1>1. ASSUME (\E stale \in BOOLEAN : Ask(p, stale)) \/ Check(p) \/ Refuse(p)
      PROVE  ServeInv'
  <2>1. /\ UNCHANGED <<row, wire, received, worker, record, pending, waiter, checkpoint>>
    BY <1>1 DEF Ask, Check, Refuse, stream, entry, provider
  <2>2. calls'[p].at # "waiting" /\ \A q \in Caller \ {p} : calls'[q] = calls[q]
    <3>1. ASSUME NEW stale \in BOOLEAN, Ask(p, stale)
          PROVE  calls'[p].at = "queued" /\ \A q \in Caller \ {p} : calls'[q] = calls[q]
      BY <1>0, <3>1 DEF Ask, Blank
    <3>2. ASSUME NEW told, Ends(p, told)
          PROVE  calls'[p].at = "idle" /\ \A q \in Caller \ {p} : calls'[q] = calls[q]
      BY <1>0, <3>2 DEF Ends, Blank
    <3>3. ASSUME calls' = [calls EXCEPT ![p].at = "checked", ![p].retry = Replay = "retry"]
          PROVE  calls'[p].at = "checked" /\ \A q \in Caller \ {p} : calls'[q] = calls[q]
      BY <1>0, <3>3 DEF Call
    <3> QED
      BY <1>1, <3>1, <3>2, <3>3 DEF Check, Refuse
  <2>3. \A q \in Caller : calls'[q].at = "waiting" => calls[q].at = "waiting" /\ waiter' = q
    BY <1>0, <2>1, <2>2 DEF WaitInv
  <2>4. WaitInv'
    BY <1>0, <2>1, <2>3, WaitCalls
  <2> QED
    BY <1>0, <2>1, <2>4 DEF ServeInv, HeldInv
<1>2. CASE TimesOut(p)
  <2>1. /\ UNCHANGED <<row, wire, received, worker, record, pending, checkpoint>>
        /\ waiter' = (IF waiter = p THEN NoOne ELSE waiter) /\ Ends(p, "nothing")
    BY <1>2 DEF TimesOut, stream, provider
  <2>2. calls'[p].at = "idle" /\ \A q \in Caller \ {p} : calls'[q] = calls[q]
    BY <1>0, <2>1 DEF Ends, Blank
  <2>3. \A q \in Caller : calls'[q].at = "waiting" => calls[q].at = "waiting" /\ waiter' = q
    BY <1>0, <2>1, <2>2 DEF WaitInv
  <2>4. WaitInv'
    BY <1>0, <2>1, <2>3, WaitCalls
  <2> QED
    BY <1>0, <2>1, <2>4 DEF ServeInv, HeldInv
<1>3. CASE Submitted(p)
  <2> DEFINE r == IF row = NoRow /\ ~owner /\ ~expired /\ ~saved THEN Fresh ELSE row
  <2>1. UNCHANGED <<wire, received, worker, checkpoint>>
    BY <1>3 DEF Submitted, stream, provider
  <2>2. CASE Sendable(r, calls[p].retry)
    <3>1. Quiet
      BY <1>0, <2>2 DEF Sendable, RowInv
    <3>2. pending' = Nothing /\ calls' = [calls EXCEPT ![p].at = "sending"]
      BY <1>3, <2>2 DEF Submitted
    <3>3. \A q \in Caller : calls'[q].at # "waiting"
      BY <1>0, <3>1, <3>2, NoneWaits DEF Call
    <3> QED
      BY <2>1, <3>1, <3>2, <3>3 DEF ServeInv, WaitInv, HeldInv, Quiet, Nothing
  <2>3. CASE ~Sendable(r, calls[p].retry)
    <3>1. row' = r /\ Ends(p, "nothing") /\ UNCHANGED <<record, pending, waiter>>
      BY <1>3, <2>3 DEF Submitted, entry
    <3>2. calls'[p].at = "idle" /\ \A q \in Caller \ {p} : calls'[q] = calls[q]
      BY <1>0, <3>1 DEF Ends, Blank
    <3>3. WaitInv'
      BY <1>0, <2>1, <3>1, <3>2, WaitCalls DEF WaitInv
    <3>4. row # NoRow => row' # NoRow
      BY <3>1
    <3> QED
      BY <1>0, <2>1, <3>1, <3>3, <3>4 DEF ServeInv, HeldInv
  <2> QED
    BY <2>2, <2>3
<1>4. CASE Send(p)
  <2>1. calls[p].at = "sending" /\ wire' = wire + 1 /\ calls' = [calls EXCEPT ![p].at = "waiting"]
        /\ UNCHANGED <<row, received, worker, record, pending, waiter, checkpoint>>
    BY <1>4 DEF Send, stream, entry, provider
  <2>2. worker /\ record = "own" /\ waiter = p /\ Quiet /\ row # NoRow
    BY <2>1, SendingFact
  <2>3. \A q \in Caller : calls'[q].at = "waiting" => q = p
    BY <1>0, <2>1, <2>2, NoneWaits
  <2>4. ~Quiet'
    BY <2>1, <2>2 DEF Quiet
  <2> QED
    BY <1>0, <2>1, <2>2, <2>3, <2>4 DEF ServeInv, WaitInv, HeldInv
<1>5. ASSUME Rejected(p) \/ AdmissionUnknown(p)
      PROVE  ServeInv'
  <2>1. PICK o \in {"NotSent", "Unknown"} :
          Record(o, 0) /\ UNCHANGED <<stream, worker>> /\ calls[p].at = "sending"
    BY <1>5 DEF Rejected, AdmissionUnknown
  <2>2. Quiet /\ row # NoRow
    BY <2>1, SendingFact
  <2> QED
    BY <2>1, <2>2, ServeRecord DEF Answer
<1> QED
  BY <1>1, <1>2, <1>3, <1>4, <1>5 DEF Job

(* The session's events.                                                     *)
LEMMA ServeEvents ==
  ASSUME IInv, IInv', ServeInv,
         \/ \E o \in {"Written", "Unknown"} : Report(o)
         \/ Read
         \/ \E k \in Nat : Journal(k)
         \/ Early
  PROVE  ServeInv'
<1>0. /\ TypeOK /\ checkpoint \in Nat /\ read \in Nat /\ pending \in Held
      /\ WaitInv /\ HeldInv /\ (wire > 0 => row # NoRow)
  BY DEF IInv, TypeOK, ServeInv
<1>1. ASSUME NEW o \in {"Written", "Unknown"}, Report(o)
      PROVE  ServeInv'
  <2>1. Record(o, 0) /\ UNCHANGED <<stream, worker, wire, received>>
    BY <1>1 DEF Report, provider
  <2> QED
    BY <1>0, <2>1, ServeRecord DEF Answer, Quiet
<1>2. CASE Read
  <2>1. UNCHANGED <<stream, worker, wire, received>> /\ checkpoint' = checkpoint
    BY <1>2 DEF Read, provider, stream
  <2>2. CASE Record("Reply", read + 1)
    BY <1>0, <2>1, <2>2, ServeRecord DEF Answer, Quiet
  <2>3. CASE UNCHANGED <<row, saved>> /\ Complete(pending, checkpoint)
    <3>1. WaitInv' /\ HeldInv'
      BY <1>0, <2>1, <2>3, ServeComplete DEF Quiet
    <3> QED
      BY <1>0, <2>1, <2>3, <3>1 DEF ServeInv
  <2> QED
    BY <1>2, <2>2, <2>3 DEF Read
<1>3. ASSUME NEW k \in Nat, Journal(k)
      PROVE  ServeInv'
  <2>1. PICK n \in PrefixEnd(committed') :
          /\ checkpoint' = n /\ Complete(pending, n)
          /\ Cover(n) \/ UNCHANGED <<row, saved>>
    BY <1>3 DEF Journal
  <2>2. n \in Nat
    BY <1>0, <2>1 DEF PrefixEnd
  <2>3. UNCHANGED <<worker, wire, received>>
    BY <1>3 DEF Journal, provider
  <2>4. WaitInv' /\ HeldInv'
    BY <1>0, <2>1, <2>2, <2>3, ServeComplete DEF Quiet
  <2>5. row' # NoRow \/ row = NoRow \/ saved'
    BY <1>0, <2>1, <2>2, CoverFact
  <2>6. wire' > 0 => row' # NoRow
    BY <1>0, <2>3, <2>5, WireRow
  <2> QED
    BY <2>4, <2>6 DEF ServeInv
<1>4. CASE Early
  <2>1. /\ UNCHANGED <<row, wire, received, worker, record, pending, checkpoint>>
        /\ Tell("Reply")
    BY <1>4 DEF Early, stream, provider
  <2>2. \A q \in Caller : calls'[q].at # "waiting"
    BY <1>0, <2>1 DEF Tell, Blank, WaitInv
  <2> QED
    BY <1>0, <2>1, <2>2 DEF ServeInv, WaitInv, HeldInv
<1> QED
  BY <1>1, <1>2, <1>3, <1>4

(* The owning work, workers, generations and the provider.                   *)
LEMMA ServeRest ==
  ASSUME IInv, IInv', ServeInv,
         \/ Reserve \/ Discard \/ Expire \/ Probe \/ Attach \/ WorkerEnds \/ NewGeneration
         \/ \E clean \in BOOLEAN : Restart(clean)
         \/ Receive \/ Reply \/ Event \/ ProviderEnds \/ UNCHANGED vars
  PROVE  ServeInv'
<1>0. /\ TypeOK /\ RowInv /\ checkpoint \in Nat /\ wire \in Nat /\ received \in Nat
      /\ row \in Row \cup {NoRow} /\ pending \in Held
      /\ WaitInv /\ HeldInv /\ (wire > 0 => row # NoRow)
  BY DEF IInv, TypeOK, ServeInv
<1>1. CASE /\ UNCHANGED <<checkpoint, worker, entry, calls, received, wire>>
           /\ wire > 0 => row' # NoRow
  BY <1>0, <1>1 DEF ServeInv, WaitInv, HeldInv, Quiet, entry
<1>2. CASE Reserve
  BY <1>1, <1>2, <1>0, FreshFact DEF Reserve, stream, provider
<1>3. CASE Discard
  <2>1. Quiet
    BY <1>0, <1>3 DEF Discard, RowInv
  <2> QED
    BY <1>1, <1>3, <2>1 DEF Discard, stream, provider, Quiet
<1>4. CASE Expire \/ Reply \/ Event \/ ProviderEnds \/ UNCHANGED vars
  BY <1>0, <1>1, <1>4 DEF Expire, Reply, Event, ProviderEnds, vars, stream, provider, entry
<1>5. CASE Probe
  <2>1. row \in Row /\ row' = [row EXCEPT !.written = TRUE]
    BY <1>0, <1>5 DEF Probe
  <2>2. row' \in Row
    BY <2>1 DEF Row
  <2>3. row' # NoRow
    BY <2>2, NoRowAssumption
  <2> QED
    BY <1>1, <1>5, <2>3 DEF Probe, stream, provider
<1>6. CASE Attach
  <2>1. ~worker /\ UNCHANGED <<row, calls, wire, checkpoint>>
    BY <1>6 DEF Attach, stream
  <2> DEFINE waits == Recovers /\ row.outcome.cursor > checkpoint
             held == [result |-> row.outcome.result, cursor |-> row.outcome.cursor]
  <2>2. pending' = IF waits THEN held ELSE Nothing
    BY <1>6 DEF Attach
  <2>3. \A q \in Caller : calls'[q].at # "waiting"
    BY <1>0, <2>1, NoneWaits
  <2>4. HeldInv'
    <3>1. CASE waits
      BY <2>1, <2>2, <3>1 DEF HeldInv
    <3>2. CASE ~waits
      BY <2>2, <3>2 DEF HeldInv, Nothing
    <3> QED
      BY <3>1, <3>2
  <2> QED
    BY <1>0, <2>1, <2>3, <2>4 DEF ServeInv, WaitInv
<1>7. ASSUME WorkerEnds \/ \E clean \in BOOLEAN : Restart(clean)
      PROVE  ServeInv'
  <2>1. pending' = Nothing /\ wire' \in 0 .. wire
    BY <1>7 DEF WorkerEnds, Restart, Detached
  <2>2. \A q \in Caller : calls'[q].at # "waiting"
    BY <1>7 DEF WorkerEnds, Restart, Blank
  <2>3. row' = row \/ (row # NoRow /\ row' = [row EXCEPT !.status = "Unknown"])
    BY <1>7 DEF WorkerEnds, Restart
  <2>4. row # NoRow => row' # NoRow
    <3>1. CASE row' = row
      BY <3>1
    <3>2. CASE row # NoRow /\ row' = [row EXCEPT !.status = "Unknown"]
      <4>1. row' \in Row
        BY <1>0, <3>2 DEF Row
      <4> QED
        BY <4>1, NoRowAssumption
    <3> QED
      BY <2>3, <3>1, <3>2
  <2>5. wire' > 0 => wire > 0
    BY <1>0, <2>1
  <2> QED
    BY <1>0, <2>1, <2>2, <2>4, <2>5 DEF ServeInv, WaitInv, HeldInv, Nothing
<1>8. CASE NewGeneration
  <2>1. ~worker /\ calls' = calls /\ pending' = pending /\ checkpoint' = 0 /\ wire' = 0
    BY <1>8 DEF NewGeneration, entry
  <2>2. \A q \in Caller : calls'[q].at # "waiting"
    BY <1>0, <2>1, NoneWaits
  <2>3. HeldInv'
    BY <1>0, <2>1 DEF HeldInv, Held
  <2> QED
    BY <2>1, <2>2, <2>3 DEF ServeInv, WaitInv
<1>9. CASE Receive
  <2>1. wire > 0 /\ wire' = wire - 1 /\ received' = received + 1
        /\ UNCHANGED <<row, worker, record, pending, waiter, calls, checkpoint>>
    BY <1>9 DEF Receive, stream, entry
  <2>2. ~Quiet'
    BY <1>0, <2>1 DEF Quiet
  <2> QED
    BY <1>0, <2>1, <2>2 DEF ServeInv, WaitInv, HeldInv
<1> QED
  BY <1>2, <1>3, <1>4, <1>5, <1>6, <1>7, <1>8, <1>9

\* A request that waits is the one the worker's entry will tell, the entry is there
\* while it waits, and a result that the checkpoint covers is never held back from
\* it (complete_retained, retained_outcome, retained_deadline).
THEOREM WaitersServed ==
  Spec => [](\A p \in Caller : calls[p].at = "waiting" =>
               /\ worker /\ waiter = p /\ record # "none"
               /\ pending.result # "None" => pending.cursor > checkpoint)
<1> DEFINE Served == \A p \in Caller : calls[p].at = "waiting" =>
                       /\ worker /\ waiter = p /\ record # "none"
                       /\ pending.result # "None" => pending.cursor > checkpoint
<1>1. Init => ServeInv
  BY DEF Init, ServeInv, WaitInv, HeldInv, Blank, Nothing
<1>2. IInv /\ IInv' /\ ServeInv /\ [Next]_vars => ServeInv'
  <2>1. ASSUME NEW k \in 1 .. MaxJournal PROVE k \in Nat
    BY BoundsAssumption
  <2> QED
    BY <2>1, ServeJob, ServeUnsent, ServeEvents, ServeRest DEF Next
<1>3. ServeInv => Served
  BY DEF ServeInv, WaitInv, HeldInv
<1> HIDE DEF Served
<1>4. Spec => []Served
  BY <1>1, <1>2, <1>3, Inductive, PTL DEF Spec
<1> QED
  BY <1>4 DEF Served
=============================================================================
