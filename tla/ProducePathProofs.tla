------------------------- MODULE ProducePathProofs -------------------------
(***************************************************************************)
(* Proofs of the safety properties of ProducePath, for any requests, rows  *)
(* and tables, and that it implements RowWrites.                           *)
(***************************************************************************)
EXTENDS ProducePath, SequenceTheorems, TLAPS

(***************************************************************************)
(* The inductive invariant.  It follows a row from its handler through the *)
(* buffer to the table: none of the properties is inductive by itself.     *)
(***************************************************************************)

\* A request that has no writer yet, or was refused, has not given it a row.
Fresh == \A s \in Sends :
    pc[s] \in {"new", "describe", "open", "refused"} => next[s] = 0

\* Only rows of the request are given to the writer.
Counted == \A s \in Sends : next[s] <= Len(rows[s])

\* The writer of a request is one for the kind of table it writes to.
Aimed == \A s \in Sends :
    pc[s] = "write" \/ next[s] > 0 =>
        target[s] \in Tables /\ Fits(op[s], kinds[target[s]])

\* A row on its way was given to the writer of its request.
Traced(e) ==
    e.row <= next[e.send] /\ e.op = op[e.send] /\ e.to = target[e.send]

BufferTraced  == \A n \in 1..Len(buffer) : Traced(buffer[n])
AppliedTraced == \A n \in 1..Len(applied) : Traced(applied[n])

\* d and e are rows of one request and one bucket.
Related(d, e) == d.send = e.send /\ BucketOf(d) = BucketOf(e)

BufferOrdered == \A m, n \in 1..Len(buffer) :
    m < n /\ Related(buffer[m], buffer[n]) => buffer[m].row < buffer[n].row

\* What is applied comes before what is still in the buffer.
AppliedFirst == \A m \in 1..Len(applied), n \in 1..Len(buffer) :
    Related(applied[m], buffer[n]) => applied[m].row < buffer[n].row

Somewhere(seq, s, i) == \E n \in 1..Len(seq) : seq[n].send = s /\ seq[n].row = i

\* No row that the writer of a running request accepted has vanished, unless
\* flush is going to fail.
Kept == \A s \in Sends :
    pc[s] = "write" /\ s \notin failed =>
        \A i \in 1..next[s] : Somewhere(buffer, s, i) \/ Somewhere(applied, s, i)

IInv ==
    /\ TypeOK
    /\ Fresh
    /\ Counted
    /\ Aimed
    /\ BufferTraced
    /\ AppliedTraced
    /\ BufferOrdered
    /\ AppliedFirst
    /\ WrittenOnce
    /\ Kept
    /\ AckedIsWritten

(***************************************************************************)
(* Sequences.                                                              *)
(***************************************************************************)

LEMMA RequestIsSeq ==
    ASSUME NEW rs \in Requests
    PROVE  rs \in Seq(Rows) /\ Len(rs) \in 0..MaxRows /\ DOMAIN rs = 1..Len(rs)
<1>1. PICK n \in 0..MaxRows : rs \in [1..n -> Rows] BY DEF Requests
<1>2. n \in Nat BY BoundsAssumption
<1> QED BY <1>1, <1>2

\* Taking out the n-th element moves those behind it one place forward.
LEMMA WithoutProperties ==
    ASSUME NEW S, NEW seq \in Seq(S), NEW n \in 1..Len(seq)
    PROVE  /\ Without(seq, n) \in Seq(S)
           /\ Len(Without(seq, n)) = Len(seq) - 1
           /\ \A i \in 1..(Len(seq) - 1) :
                 Without(seq, n)[i] = IF i < n THEN seq[i] ELSE seq[i + 1]
<1> DEFINE a == SubSeq(seq, 1, n - 1)
           b == SubSeq(seq, n + 1, Len(seq))
<1>1. Len(seq) \in Nat /\ \A i \in 1..Len(seq) : seq[i] \in S BY ElementOfSeq, LenProperties
<1>2. a \in Seq(S) /\ Len(a) = n - 1 /\ \A i \in 1..(n - 1) : a[i] = seq[i]
  <2>1. \A i \in 1..(n - 1) : seq[i] \in S BY <1>1
  <2>2. /\ a \in Seq(S)
        /\ Len(a) = IF 1 <= n - 1 THEN (n - 1) - 1 + 1 ELSE 0
        /\ \A i \in 1..((n - 1) - 1 + 1) : a[i] = seq[1 + i - 1]
        BY <2>1, <1>1, SubSeqProperties
  <2> QED BY <2>2, <1>1
<1>3. b \in Seq(S) /\ Len(b) = Len(seq) - n /\ \A i \in 1..(Len(seq) - n) : b[i] = seq[n + i]
  <2>1. \A i \in (n + 1)..Len(seq) : seq[i] \in S BY <1>1
  <2>2. /\ b \in Seq(S)
        /\ Len(b) = IF n + 1 <= Len(seq) THEN Len(seq) - (n + 1) + 1 ELSE 0
        /\ \A i \in 1..(Len(seq) - (n + 1) + 1) : b[i] = seq[(n + 1) + i - 1]
        BY <2>1, <1>1, SubSeqProperties
  <2> QED BY <2>2, <1>1
<1>4. Without(seq, n) = a \o b BY DEF Without
<1> HIDE DEF a, b
<1>5. /\ a \o b \in Seq(S) /\ Len(a \o b) = Len(a) + Len(b)
      /\ \A i \in 1..(Len(a) + Len(b)) : (a \o b)[i] = IF i <= Len(a) THEN a[i] ELSE b[i - Len(a)]
      BY <1>2, <1>3, ConcatProperties
<1>6. Len(a) + Len(b) = Len(seq) - 1 BY <1>1, <1>2, <1>3
<1>7. ASSUME NEW i \in 1..(Len(seq) - 1)
      PROVE  (a \o b)[i] = IF i < n THEN seq[i] ELSE seq[i + 1]
  <2>1. CASE i < n BY <2>1, <1>1, <1>2, <1>5, <1>6
  <2>2. CASE ~(i < n)
    <3>1. (a \o b)[i] = b[i - Len(a)] BY <2>2, <1>1, <1>2, <1>5, <1>6
    <3>2. i - Len(a) \in 1..(Len(seq) - n) /\ n + (i - Len(a)) = i + 1 BY <2>2, <1>1, <1>2
    <3>3. b[i - Len(a)] = seq[i + 1] BY <3>2, <1>3
    <3> QED BY <3>1, <3>3, <2>2, <1>1
  <2> QED BY <2>1, <2>2
<1> QED BY <1>4, <1>5, <1>6, <1>7

LEMMA EntriesTyped ==
    ASSUME TypeOK
    PROVE  /\ Len(buffer) \in Nat /\ \A n \in 1..Len(buffer) : buffer[n] \in Entry
           /\ Len(applied) \in Nat /\ \A n \in 1..Len(applied) : applied[n] \in Entry
           /\ Len(kinds) \in Nat
BY ElementOfSeq, LenProperties DEF TypeOK

LEMMA LengthsTyped ==
    ASSUME TypeOK, NEW s \in Sends
    PROVE  Len(rows[s]) \in 0..MaxRows /\ DOMAIN rows[s] = 1..Len(rows[s]) /\ next[s] \in Nat
<1>1. rows[s] \in Requests /\ next[s] \in 0..MaxRows BY DEF TypeOK
<1> QED BY <1>1, RequestIsSeq, BoundsAssumption

(***************************************************************************)
(* The invariant holds initially and is preserved by every action.         *)
(***************************************************************************)

LEMMA InitIInv == Init => IInv
<1> SUFFICES ASSUME Init PROVE IInv
    OBVIOUS
<1>0. /\ buffer = <<>> /\ applied = <<>> /\ kinds = <<>>
      /\ Len(buffer) = 0 /\ Len(applied) = 0 /\ Len(kinds) = 0
      BY DEF Init
<1>1. TypeOK
  <2>1. <<>> \in Requests
    <3>1. 0 \in 0..MaxRows BY BoundsAssumption
    <3>2. <<>> \in [1..0 -> Rows] OBVIOUS
    <3> QED BY <3>1, <3>2 DEF Requests
  <2>2. rows \in [Sends -> Requests] BY <2>1 DEF Init
  <2>3. next \in [Sends -> 0..MaxRows] BY BoundsAssumption DEF Init
  <2>4. pc \in [Sends -> Running \cup {"new", "acked", "refused", "error", "gone"}] BY DEF Init
  <2>5. op \in [Sends -> Ops] BY DEF Init, Ops
  <2>6. buffer \in Seq(Entry) /\ applied \in Seq(Entry) /\ kinds \in Seq({"log", "pk"}) BY <1>0
  <2>7. target \in [Sends -> 0..Len(kinds)] /\ live \in 0..Len(kinds) BY <1>0 DEF Init
  <2>8. failed \in SUBSET Sends /\ Len(kinds) <= MaxTables BY <1>0, BoundsAssumption DEF Init
  <2> QED BY <2>2, <2>3, <2>4, <2>5, <2>6, <2>7, <2>8 DEF TypeOK
<1>2. Fresh /\ Counted BY DEF Init, Fresh, Counted
<1>3. Aimed BY DEF Init, Aimed
<1>4. BufferTraced /\ AppliedTraced BY <1>0 DEF BufferTraced, AppliedTraced
<1>5. BufferOrdered /\ AppliedFirst BY <1>0 DEF BufferOrdered, AppliedFirst
<1>6. WrittenOnce BY <1>0 DEF WrittenOnce, Done
<1>7. Kept BY DEF Init, Kept
<1>8. AckedIsWritten BY DEF Init, AckedIsWritten
<1> QED BY <1>1, <1>2, <1>3, <1>4, <1>5, <1>6, <1>7, <1>8 DEF IInv

\* A row that was given to a writer belongs to a request that has one.
LEMMA EntryHasWriter ==
    ASSUME TypeOK, Fresh, NEW e \in Entry, Traced(e)
    PROVE  next[e.send] > 0 /\ pc[e.send] \notin {"new", "describe", "open", "refused"}
<1>1. e.send \in Sends /\ e.row \in Nat /\ e.row >= 1 BY BoundsAssumption DEF Entry
<1>2. next[e.send] \in Nat BY <1>1, LengthsTyped
<1> QED BY <1>1, <1>2 DEF Fresh, Traced

LEMMA ProduceIInv ==
    ASSUME IInv, NEW s \in Sends, NEW rs \in Requests, Produce(s, rs)
    PROVE  IInv'
<1> USE DEF IInv
<1>0. /\ pc[s] = "new" /\ pc' = [pc EXCEPT ![s] = "describe"]
      /\ rows' = [rows EXCEPT ![s] = rs]
      /\ UNCHANGED <<op, target, next, buffer, applied, failed, kinds, live>>
      BY DEF Produce, At, fluss
<1>1. TypeOK' BY <1>0 DEF TypeOK, Running, Tables
<1>2. Fresh' BY <1>0 DEF Fresh, TypeOK
<1>3. Counted'
  <2>1. next[s] = 0 BY <1>0 DEF Fresh
  <2>2. Len(rs) \in Nat BY RequestIsSeq, BoundsAssumption
  <2>3. ASSUME NEW t \in Sends PROVE next'[t] <= Len(rows'[t])
        BY <1>0, <2>1, <2>2 DEF Counted, TypeOK
  <2> QED BY <2>3 DEF Counted
<1>4. Aimed' BY <1>0 DEF Aimed, TypeOK, Tables
<1>5. BufferTraced' /\ AppliedTraced' BY <1>0 DEF BufferTraced, AppliedTraced, Traced
<1>6. /\ \A n \in 1..Len(buffer) : buffer[n].send # s /\ buffer[n].send \in Sends
      /\ \A n \in 1..Len(applied) : applied[n].send # s /\ applied[n].send \in Sends
  <2>1. ASSUME NEW n \in 1..Len(buffer) PROVE buffer[n].send # s /\ buffer[n].send \in Sends
    <3>1. buffer[n] \in Entry /\ Traced(buffer[n]) BY EntriesTyped DEF BufferTraced
    <3> QED BY <3>1, <1>0, EntryHasWriter DEF Entry
  <2>2. ASSUME NEW n \in 1..Len(applied) PROVE applied[n].send # s /\ applied[n].send \in Sends
    <3>1. applied[n] \in Entry /\ Traced(applied[n]) BY EntriesTyped DEF AppliedTraced
    <3> QED BY <3>1, <1>0, EntryHasWriter DEF Entry
  <2> QED BY <2>1, <2>2
<1>7. /\ \A n \in 1..Len(buffer) : rows'[buffer[n].send] = rows[buffer[n].send]
      /\ \A n \in 1..Len(applied) : rows'[applied[n].send] = rows[applied[n].send]
      BY <1>0, <1>6 DEF TypeOK
<1>8. BufferOrdered' BY <1>0, <1>7 DEF BufferOrdered, Related, BucketOf
<1>9. AppliedFirst' BY <1>0, <1>7 DEF AppliedFirst, Related, BucketOf
<1>10. WrittenOnce' BY <1>0 DEF WrittenOnce, Done
<1>11. Kept'
  <2>1. ASSUME NEW t \in Sends, pc'[t] = "write", t \notin failed, NEW i \in 1..next[t]
        PROVE  Somewhere(buffer, t, i) \/ Somewhere(applied, t, i)
        BY <2>1, <1>0 DEF Kept, TypeOK
  <2> QED BY <2>1, <1>0 DEF Kept, Somewhere
<1>12. AckedIsWritten'
  <2>1. ASSUME NEW t \in Sends, pc'[t] = "acked", NEW i \in DOMAIN rows'[t]
        PROVE  \E n \in Done(t) : applied[n].row = i
    <3>1. pc[t] = "acked" /\ rows'[t] = rows[t] BY <2>1, <1>0 DEF TypeOK
    <3> QED BY <3>1, <2>1 DEF AckedIsWritten
  <2> QED BY <2>1, <1>0 DEF AckedIsWritten, Done
<1> QED BY <1>1, <1>2, <1>3, <1>4, <1>5, <1>8, <1>9, <1>10, <1>11, <1>12

LEMMA ConvertIInv == ASSUME IInv, NEW s \in Sends, Convert(s) PROVE IInv'
<1> USE DEF IInv
<1>0. /\ live # 0 /\ pc[s] = "describe" /\ pc' = [pc EXCEPT ![s] = "open"]
      /\ op' = [op EXCEPT ![s] = Route(rows[s], kinds[live])]
      /\ UNCHANGED <<rows, target, next, buffer, applied, failed, kinds, live>>
      BY DEF Convert, At, fluss
<1>a. next[s] = 0 BY <1>0 DEF Fresh
<1>1. TypeOK'
  <2>1. Route(rows[s], kinds[live]) \in Ops BY DEF Route, Ops
  <2> QED BY <1>0, <2>1 DEF TypeOK, Running, Tables
<1>2. Fresh' BY <1>0 DEF Fresh, TypeOK
<1>3. Counted' BY <1>0 DEF Counted
<1>4. Aimed' BY <1>0, <1>a DEF Aimed, TypeOK, Tables
<1>5. BufferTraced'
  <2>1. ASSUME NEW n \in 1..Len(buffer) PROVE Traced(buffer[n])'
    <3>1. buffer[n] \in Entry /\ Traced(buffer[n]) BY EntriesTyped DEF BufferTraced
    <3>2. buffer[n].send # s /\ buffer[n].send \in Sends BY <3>1, <1>0, EntryHasWriter DEF Entry
    <3> QED BY <3>1, <3>2, <1>0 DEF Traced, TypeOK
  <2> QED BY <2>1, <1>0 DEF BufferTraced
<1>6. AppliedTraced'
  <2>1. ASSUME NEW n \in 1..Len(applied) PROVE Traced(applied[n])'
    <3>1. applied[n] \in Entry /\ Traced(applied[n]) BY EntriesTyped DEF AppliedTraced
    <3>2. applied[n].send # s /\ applied[n].send \in Sends BY <3>1, <1>0, EntryHasWriter DEF Entry
    <3> QED BY <3>1, <3>2, <1>0 DEF Traced, TypeOK
  <2> QED BY <2>1, <1>0 DEF AppliedTraced
<1>7. BufferOrdered' /\ AppliedFirst' BY <1>0 DEF BufferOrdered, AppliedFirst, Related, BucketOf
<1>8. WrittenOnce' BY <1>0 DEF WrittenOnce, Done
<1>9. Kept'
  <2>1. ASSUME NEW t \in Sends, pc'[t] = "write", t \notin failed, NEW i \in 1..next[t]
        PROVE  Somewhere(buffer, t, i) \/ Somewhere(applied, t, i)
        BY <2>1, <1>0 DEF Kept, TypeOK
  <2> QED BY <2>1, <1>0 DEF Kept, Somewhere
<1>10. AckedIsWritten'
  <2>1. ASSUME NEW t \in Sends, pc'[t] = "acked" PROVE pc[t] = "acked"
        BY <2>1, <1>0 DEF TypeOK
  <2> QED BY <2>1, <1>0 DEF AckedIsWritten, Done
<1> QED BY <1>1, <1>2, <1>3, <1>4, <1>5, <1>6, <1>7, <1>8, <1>9, <1>10

LEMMA OpenIInv == ASSUME IInv, NEW s \in Sends, Open(s) PROVE IInv'
<1> USE DEF IInv
<1>0. /\ live # 0 /\ Fits(op[s], kinds[live]) /\ pc[s] = "open"
      /\ pc' = [pc EXCEPT ![s] = "write"]
      /\ target' = [target EXCEPT ![s] = live]
      /\ UNCHANGED <<rows, op, next, buffer, applied, failed, kinds, live>>
      BY DEF Open, At, fluss
<1>a. next[s] = 0 BY <1>0 DEF Fresh
<1>b. live \in Tables BY <1>0, EntriesTyped DEF TypeOK, Tables
<1>1. TypeOK' BY <1>0, <1>b DEF TypeOK, Running, Tables
<1>2. Fresh' BY <1>0 DEF Fresh, TypeOK
<1>3. Counted' BY <1>0 DEF Counted
<1>4. Aimed' BY <1>0, <1>b DEF Aimed, TypeOK, Tables
<1>5. BufferTraced'
  <2>1. ASSUME NEW n \in 1..Len(buffer) PROVE Traced(buffer[n])'
    <3>1. buffer[n] \in Entry /\ Traced(buffer[n]) BY EntriesTyped DEF BufferTraced
    <3>2. buffer[n].send # s /\ buffer[n].send \in Sends BY <3>1, <1>0, EntryHasWriter DEF Entry
    <3> QED BY <3>1, <3>2, <1>0 DEF Traced, TypeOK
  <2> QED BY <2>1, <1>0 DEF BufferTraced
<1>6. AppliedTraced'
  <2>1. ASSUME NEW n \in 1..Len(applied) PROVE Traced(applied[n])'
    <3>1. applied[n] \in Entry /\ Traced(applied[n]) BY EntriesTyped DEF AppliedTraced
    <3>2. applied[n].send # s /\ applied[n].send \in Sends BY <3>1, <1>0, EntryHasWriter DEF Entry
    <3> QED BY <3>1, <3>2, <1>0 DEF Traced, TypeOK
  <2> QED BY <2>1, <1>0 DEF AppliedTraced
<1>7. BufferOrdered' /\ AppliedFirst' BY <1>0 DEF BufferOrdered, AppliedFirst, Related, BucketOf
<1>8. WrittenOnce' BY <1>0 DEF WrittenOnce, Done
<1>9. Kept'
  <2>1. ASSUME NEW t \in Sends, pc'[t] = "write", t \notin failed, NEW i \in 1..next[t]
        PROVE  Somewhere(buffer, t, i) \/ Somewhere(applied, t, i)
    <3>1. t # s BY <1>a, <2>1
    <3> QED BY <3>1, <2>1, <1>0 DEF Kept, TypeOK
  <2> QED BY <2>1, <1>0 DEF Kept, Somewhere
<1>10. AckedIsWritten'
  <2>1. ASSUME NEW t \in Sends, pc'[t] = "acked" PROVE pc[t] = "acked"
        BY <2>1, <1>0 DEF TypeOK
  <2> QED BY <2>1, <1>0 DEF AckedIsWritten, Done
<1> QED BY <1>1, <1>2, <1>3, <1>4, <1>5, <1>6, <1>7, <1>8, <1>9, <1>10

\* A request ends and leaves everything else behind as it is: only a request
\* that has no writer yet is refused.
LEMMA EndIInv ==
    ASSUME IInv, NEW s \in Sends, NEW there \in {"refused", "error", "gone"},
           there = "refused" => pc[s] \in {"describe", "open"},
           pc' = [pc EXCEPT ![s] = there], pc[s] \in Running,
           UNCHANGED <<rows, op, target, next, buffer, applied, failed, kinds, live>>
    PROVE  IInv'
<1> USE DEF IInv
<1>1. TypeOK' BY DEF TypeOK, Tables
<1>2. Fresh' BY DEF Fresh, TypeOK
<1>3. Counted' /\ Aimed' BY DEF Counted, Aimed, TypeOK, Tables
<1>4. BufferTraced' /\ AppliedTraced' BY DEF BufferTraced, AppliedTraced, Traced
<1>5. BufferOrdered' /\ AppliedFirst' BY DEF BufferOrdered, AppliedFirst, Related, BucketOf
<1>6. WrittenOnce' BY DEF WrittenOnce, Done
<1>7. Kept'
  <2>1. ASSUME NEW t \in Sends, pc'[t] = "write", t \notin failed, NEW i \in 1..next[t]
        PROVE  Somewhere(buffer, t, i) \/ Somewhere(applied, t, i)
        BY <2>1 DEF Kept, TypeOK
  <2> QED BY <2>1 DEF Kept, Somewhere
<1>8. AckedIsWritten'
  <2>1. ASSUME NEW t \in Sends, pc'[t] = "acked" PROVE pc[t] = "acked"
        BY <2>1 DEF TypeOK
  <2> QED BY <2>1 DEF AckedIsWritten, Done
<1> QED BY <1>1, <1>2, <1>3, <1>4, <1>5, <1>6, <1>7, <1>8

LEMMA BufferIInv == ASSUME IInv, NEW s \in Sends, Buffer(s) PROVE IInv'
<1> USE DEF IInv
<1> DEFINE e == [send |-> s, row |-> next[s] + 1, op |-> op[s], to |-> target[s]]
<1>0. /\ pc[s] = "write" /\ next[s] < Len(rows[s])
      /\ buffer' = Append(buffer, e)
      /\ next' = [next EXCEPT ![s] = @ + 1]
      /\ UNCHANGED <<pc, rows, op, target, applied, failed, kinds, live>>
      BY DEF Buffer, Unwritten, fluss
<1>a. next[s] \in Nat /\ Len(rows[s]) \in 0..MaxRows /\ Len(kinds) <= MaxTables
      BY LengthsTyped DEF TypeOK
<1>b. target[s] \in Tables /\ Fits(op[s], kinds[target[s]]) BY <1>0 DEF Aimed
<1>c. e \in Entry
  <2>1. next[s] + 1 \in 1..MaxRows BY <1>0, <1>a, BoundsAssumption
  <2>2. target[s] \in 1..MaxTables BY <1>a, <1>b, EntriesTyped, BoundsAssumption DEF Tables
  <2>3. op[s] \in Ops BY DEF TypeOK
  <2> QED BY <2>1, <2>2, <2>3 DEF Entry
<1> HIDE DEF e
<1>d. /\ Len(buffer) \in Nat /\ Len(buffer') = Len(buffer) + 1
      /\ buffer' \in Seq(Entry) /\ buffer'[Len(buffer) + 1] = e
      /\ \A n \in 1..Len(buffer) : buffer'[n] = buffer[n] /\ buffer[n] \in Entry
  <2>1. buffer \in Seq(Entry) BY DEF TypeOK
  <2> QED BY <2>1, <1>0, <1>c, EntriesTyped, AppendProperties
<1>e. \A t \in Sends : next'[t] \in Nat /\ next[t] <= next'[t] /\ (t # s => next'[t] = next[t])
      BY <1>0, <1>a, LengthsTyped DEF TypeOK
<1>f. e.send = s /\ e.row = next[s] + 1 /\ e.op = op[s] /\ e.to = target[s] BY DEF e
<1>1. TypeOK'
  <2>1. next' \in [Sends -> 0..MaxRows] BY <1>0, <1>a, BoundsAssumption DEF TypeOK
  <2> QED BY <2>1, <1>0, <1>d DEF TypeOK, Tables
<1>2. Fresh' BY <1>0 DEF Fresh, TypeOK
<1>3. Counted' BY <1>0, <1>a DEF Counted, TypeOK
<1>4. Aimed'
  <2>1. ASSUME NEW t \in Sends, pc[t] = "write" \/ next'[t] > 0
        PROVE  target[t] \in Tables /\ Fits(op[t], kinds[target[t]])
        BY <2>1, <1>b, <1>e DEF Aimed
  <2> QED BY <2>1, <1>0 DEF Aimed, Tables
<1>5. BufferTraced'
  <2>1. ASSUME NEW n \in 1..Len(buffer) PROVE Traced(buffer[n])'
    <3>1. Traced(buffer[n]) /\ buffer[n] \in Entry BY <1>d DEF BufferTraced
    <3>2. buffer[n].send \in Sends /\ buffer[n].row \in Nat BY <3>1 DEF Entry
    <3>3. buffer[n].row <= next'[buffer[n].send]
          BY <3>1, <3>2, <1>e, LengthsTyped DEF Traced
    <3> QED BY <3>1, <3>3, <1>0, <1>d DEF Traced
  <2>2. Traced(buffer[Len(buffer)])'
    <3>1. e.row <= next'[e.send] /\ e.op = op[e.send] /\ e.to = target[e.send]
          BY <1>0, <1>a, <1>f DEF TypeOK
    <3>2. buffer'[Len(buffer')] = e BY <1>d
    <3> QED BY <3>1, <3>2, <1>0, <1>d DEF Traced
  <2> QED BY <2>1, <2>2, <1>d DEF BufferTraced
<1>6. AppliedTraced'
  <2>1. ASSUME NEW n \in 1..Len(applied) PROVE Traced(applied[n])'
    <3>1. Traced(applied[n]) /\ applied[n] \in Entry BY EntriesTyped DEF AppliedTraced
    <3>2. applied[n].send \in Sends /\ applied[n].row \in Nat BY <3>1 DEF Entry
    <3>3. applied[n].row <= next'[applied[n].send]
          BY <3>1, <3>2, <1>e, LengthsTyped DEF Traced
    <3> QED BY <3>1, <3>3, <1>0 DEF Traced
  <2> QED BY <2>1, <1>0 DEF AppliedTraced
<1>7. BufferOrdered'
  <2>1. ASSUME NEW m \in 1..Len(buffer'), NEW n \in 1..Len(buffer'), m < n,
               Related(buffer[m], buffer[n])'
        PROVE  buffer'[m].row < buffer'[n].row
    <3>1. m \in 1..Len(buffer) BY <2>1, <1>d
    <3>2. CASE n \in 1..Len(buffer)
      <4>1. buffer'[m] = buffer[m] /\ buffer'[n] = buffer[n] BY <3>1, <3>2, <1>d
      <4>2. Related(buffer[m], buffer[n]) BY <4>1, <2>1, <1>0 DEF Related, BucketOf
      <4> QED BY <4>1, <4>2, <2>1, <3>1, <3>2 DEF BufferOrdered
    <3>3. CASE n = Len(buffer) + 1
      <4>1. buffer'[m] = buffer[m] /\ buffer'[n] = e BY <3>1, <3>3, <1>d
      <4>2. buffer[m].send = s BY <4>1, <2>1, <1>f DEF Related
      <4>3. buffer[m].row <= next[s] BY <3>1, <4>2 DEF BufferTraced, Traced
      <4>4. buffer[m].row \in Nat BY <3>1, <1>d DEF Entry
      <4> QED BY <4>1, <4>3, <4>4, <1>a, <1>f
    <3> QED BY <3>2, <3>3, <1>d
  <2> QED BY <2>1 DEF BufferOrdered
<1>8. AppliedFirst'
  <2>1. ASSUME NEW m \in 1..Len(applied), NEW n \in 1..Len(buffer'),
               Related(applied[m], buffer[n])'
        PROVE  applied[m].row < buffer'[n].row
    <3>1. CASE n \in 1..Len(buffer)
      <4>1. buffer'[n] = buffer[n] BY <3>1, <1>d
      <4>2. Related(applied[m], buffer[n]) BY <4>1, <2>1, <1>0 DEF Related, BucketOf
      <4> QED BY <4>1, <4>2, <3>1 DEF AppliedFirst
    <3>2. CASE n = Len(buffer) + 1
      <4>1. buffer'[n] = e BY <3>2, <1>d
      <4>2. applied[m].send = s BY <4>1, <2>1, <1>0, <1>f DEF Related
      <4>3. applied[m].row <= next[s] BY <4>2 DEF AppliedTraced, Traced
      <4>4. applied[m].row \in Nat BY EntriesTyped DEF Entry
      <4> QED BY <4>1, <4>3, <4>4, <1>a, <1>f
    <3> QED BY <3>1, <3>2, <1>d
  <2> QED BY <2>1, <1>0 DEF AppliedFirst
<1>9. WrittenOnce' BY <1>0 DEF WrittenOnce, Done
<1>10. Kept'
  <2>1. ASSUME NEW t \in Sends, pc[t] = "write", t \notin failed, NEW i \in 1..next'[t]
        PROVE  Somewhere(buffer', t, i) \/ Somewhere(applied, t, i)
    <3>1. CASE i \in 1..next[t]
      <4>1. Somewhere(buffer, t, i) \/ Somewhere(applied, t, i) BY <3>1, <2>1 DEF Kept
      <4>2. Somewhere(buffer, t, i) => Somewhere(buffer', t, i)
            BY <1>d DEF Somewhere
      <4> QED BY <4>1, <4>2
    <3>2. CASE ~(i \in 1..next[t])
      <4>1. t = s /\ i = next[s] + 1 BY <3>2, <2>1, <1>0, <1>a, <1>e DEF TypeOK
      <4>2. Len(buffer) + 1 \in 1..Len(buffer') BY <1>d
      <4>3. Somewhere(buffer', t, i) BY <4>1, <4>2, <1>d, <1>f DEF Somewhere
      <4> QED BY <4>3
    <3> QED BY <3>1, <3>2
  <2> QED BY <2>1, <1>0 DEF Kept, Somewhere
<1>11. AckedIsWritten' BY <1>0 DEF AckedIsWritten, Done
<1> QED BY <1>1, <1>2, <1>3, <1>4, <1>5, <1>6, <1>7, <1>8, <1>9, <1>10, <1>11

LEMMA FlushIInv == ASSUME IInv, NEW s \in Sends, Flush(s) PROVE IInv'
<1> USE DEF IInv
<1>0. /\ pc[s] = "write" /\ pc' = [pc EXCEPT ![s] = "acked"]
      /\ ~(next[s] < Len(rows[s])) /\ Pending(s) = {} /\ s \notin failed
      /\ UNCHANGED <<rows, op, target, next, buffer, applied, failed, kinds, live>>
      BY DEF Flush, At, Unwritten, fluss
<1>1. TypeOK' BY <1>0 DEF TypeOK, Tables
<1>2. Fresh' BY <1>0 DEF Fresh, TypeOK
<1>3. Counted' /\ Aimed' BY <1>0 DEF Counted, Aimed, TypeOK, Tables
<1>4. BufferTraced' /\ AppliedTraced' BY <1>0 DEF BufferTraced, AppliedTraced, Traced
<1>5. BufferOrdered' /\ AppliedFirst' BY <1>0 DEF BufferOrdered, AppliedFirst, Related, BucketOf
<1>6. WrittenOnce' BY <1>0 DEF WrittenOnce, Done
<1>7. Kept'
  <2>1. ASSUME NEW t \in Sends, pc'[t] = "write", t \notin failed, NEW i \in 1..next[t]
        PROVE  Somewhere(buffer, t, i) \/ Somewhere(applied, t, i)
        BY <2>1, <1>0 DEF Kept, TypeOK
  <2> QED BY <2>1, <1>0 DEF Kept, Somewhere
<1>8. AckedIsWritten'
  <2>1. ASSUME NEW i \in DOMAIN rows[s] PROVE \E n \in Done(s) : applied[n].row = i
    <3>1. i \in 1..next[s] BY <1>0, LengthsTyped DEF Counted
    <3>2. Somewhere(buffer, s, i) \/ Somewhere(applied, s, i) BY <3>1, <1>0 DEF Kept
    <3>3. ~Somewhere(buffer, s, i) BY <1>0 DEF Somewhere, Pending
    <3> QED BY <3>2, <3>3 DEF Somewhere, Done
  <2>2. ASSUME NEW t \in Sends, pc'[t] = "acked", NEW i \in DOMAIN rows[t]
        PROVE  \E n \in Done(t) : applied[n].row = i
        BY <2>1, <2>2, <1>0 DEF AckedIsWritten, TypeOK
  <2> QED BY <2>2, <1>0 DEF AckedIsWritten, Done
<1> QED BY <1>1, <1>2, <1>3, <1>4, <1>5, <1>6, <1>7, <1>8

LEMMA CrashIInv == ASSUME IInv, Crash PROVE IInv'
<1> USE DEF IInv
<1>0. /\ pc' = [s \in Sends |-> IF pc[s] \in Running THEN "gone" ELSE pc[s]]
      /\ buffer' = <<>> /\ Len(buffer') = 0
      /\ UNCHANGED <<rows, op, target, next, applied, failed, kinds, live>>
      BY DEF Crash, fluss
<1>1. TypeOK' BY <1>0 DEF TypeOK, Tables
<1>2. Fresh' BY <1>0 DEF Fresh, TypeOK, Running
<1>3. Counted' BY <1>0 DEF Counted
<1>4. Aimed' BY <1>0 DEF Aimed, Tables, Running
<1>5. BufferTraced' /\ AppliedTraced' BY <1>0 DEF BufferTraced, AppliedTraced, Traced
<1>6. BufferOrdered' /\ AppliedFirst' BY <1>0 DEF BufferOrdered, AppliedFirst
<1>7. WrittenOnce' BY <1>0 DEF WrittenOnce, Done
<1>8. Kept' BY <1>0 DEF Kept, Running
<1>9. AckedIsWritten' BY <1>0 DEF AckedIsWritten, Done
<1> QED BY <1>1, <1>2, <1>3, <1>4, <1>5, <1>6, <1>7, <1>8, <1>9

\* Where the elements of Without(seq, n) were before.
Before(n, i) == IF i < n THEN i ELSE i + 1

LEMMA DeliverIInv == ASSUME IInv, Deliver PROVE IInv'
<1> USE DEF IInv
<1>0. PICK n \in 1..Len(buffer) :
        /\ Foremost(n)
        /\ buffer' = Without(buffer, n)
        /\ \/ /\ buffer[n].to = live
              /\ applied' = Append(applied, buffer[n])
              /\ UNCHANGED failed
           \/ /\ failed' = failed \cup {buffer[n].send}
              /\ UNCHANGED applied
        /\ UNCHANGED <<pc, rows, op, target, next, kinds, live>>
      BY DEF Deliver, handler
<1> DEFINE e == buffer[n]
<1>a. /\ Len(buffer) \in Nat /\ Len(applied) \in Nat
      /\ \A k \in 1..Len(buffer) : buffer[k] \in Entry
      /\ \A k \in 1..Len(applied) : applied[k] \in Entry
      BY EntriesTyped
<1>b. /\ Len(buffer') = Len(buffer) - 1 /\ buffer' \in Seq(Entry)
      /\ \A i \in 1..Len(buffer') :
            /\ Before(n, i) \in 1..Len(buffer) /\ Before(n, i) # n
            /\ buffer'[i] = buffer[Before(n, i)]
      /\ \A i, j \in 1..Len(buffer') : i < j => Before(n, i) < Before(n, j)
      /\ \A k \in 1..Len(buffer) : k # n => \E i \in 1..Len(buffer') : buffer'[i] = buffer[k]
  <2>1. /\ Len(buffer') = Len(buffer) - 1 /\ buffer' \in Seq(Entry)
        /\ \A i \in 1..(Len(buffer) - 1) :
              buffer'[i] = IF i < n THEN buffer[i] ELSE buffer[i + 1]
    <3>1. buffer \in Seq(Entry) BY DEF TypeOK
    <3> QED BY <3>1, <1>0, WithoutProperties
  <2>2. ASSUME NEW i \in 1..Len(buffer')
        PROVE  /\ Before(n, i) \in 1..Len(buffer) /\ Before(n, i) # n
               /\ buffer'[i] = buffer[Before(n, i)]
        BY <2>1, <1>a DEF Before
  <2>3. \A i, j \in 1..Len(buffer') : i < j => Before(n, i) < Before(n, j)
        BY <2>1, <1>a DEF Before
  <2>4. ASSUME NEW k \in 1..Len(buffer), k # n
        PROVE  \E i \in 1..Len(buffer') : buffer'[i] = buffer[k]
    <3>1. CASE k < n
      <4>1. k \in 1..Len(buffer') /\ buffer'[k] = buffer[k] BY <3>1, <2>1, <1>a
      <4> QED BY <4>1
    <3>2. CASE k > n
      <4>1. k - 1 \in 1..Len(buffer') /\ buffer'[k - 1] = buffer[k] BY <3>2, <2>1, <1>a
      <4> QED BY <4>1
    <3> QED BY <3>1, <3>2, <2>4
  <2> QED BY <2>1, <2>2, <2>3, <2>4
<1>c. e \in Entry /\ e.send \in Sends /\ e.row \in Nat /\ e.row \in 1..MaxRows /\ Traced(e)
      BY <1>a DEF BufferTraced, Entry
<1>d. \A i \in 1..Len(buffer') :
         Related(e, buffer[Before(n, i)]) => e.row < buffer[Before(n, i)].row
  <2>1. ASSUME NEW k \in 1..Len(buffer), k # n, Related(e, buffer[k])
        PROVE  e.row < buffer[k].row
    <3>1. CASE n < k BY <3>1, <2>1 DEF BufferOrdered
    <3>2. CASE k < n
      <4>1. Traced(buffer[k]) BY DEF BufferTraced
      <4>2. buffer[k].to = e.to /\ BucketOf(buffer[k]) = BucketOf(e)
            BY <4>1, <1>c, <2>1 DEF Traced, Related
      <4>3. k \in 1..(n - 1) BY <3>2, <1>a
      <4> QED BY <4>2, <4>3, <1>0 DEF Foremost
    <3> QED BY <3>1, <3>2, <2>1
  <2> QED BY <2>1, <1>b
<1> HIDE DEF e
<1>1. CASE applied' = applied /\ failed' = failed \cup {buffer[n].send}
  <2>1. TypeOK'
    <3>1. failed' \in SUBSET Sends BY <1>1, <1>c DEF TypeOK, e
    <3> QED BY <3>1, <1>0, <1>1, <1>b DEF TypeOK, Tables
  <2>2. Fresh' /\ Counted' /\ Aimed' BY <1>0 DEF Fresh, Counted, Aimed, Tables
  <2>3. BufferTraced'
    <3>1. ASSUME NEW i \in 1..Len(buffer') PROVE Traced(buffer[i])'
      <4>1. Traced(buffer[Before(n, i)]) BY <1>b DEF BufferTraced
      <4> QED BY <4>1, <1>0, <1>b DEF Traced
    <3> QED BY <3>1 DEF BufferTraced
  <2>4. AppliedTraced' BY <1>0, <1>1 DEF AppliedTraced, Traced
  <2>5. BufferOrdered'
    <3>1. ASSUME NEW i \in 1..Len(buffer'), NEW j \in 1..Len(buffer'), i < j,
                 Related(buffer[i], buffer[j])'
          PROVE  buffer'[i].row < buffer'[j].row
      <4>1. Related(buffer[Before(n, i)], buffer[Before(n, j)])
            BY <3>1, <1>0, <1>b DEF Related, BucketOf
      <4>2. Before(n, i) < Before(n, j) BY <3>1, <1>b
      <4> QED BY <4>1, <4>2, <1>b DEF BufferOrdered
    <3> QED BY <3>1 DEF BufferOrdered
  <2>6. AppliedFirst'
    <3>1. ASSUME NEW m \in 1..Len(applied), NEW j \in 1..Len(buffer'),
                 Related(applied[m], buffer[j])'
          PROVE  applied[m].row < buffer'[j].row
      <4>1. Related(applied[m], buffer[Before(n, j)])
            BY <3>1, <1>0, <1>1, <1>b DEF Related, BucketOf
      <4> QED BY <4>1, <1>b DEF AppliedFirst
    <3> QED BY <3>1, <1>1 DEF AppliedFirst
  <2>7. WrittenOnce' BY <1>1 DEF WrittenOnce, Done
  <2>8. Kept'
    <3>1. ASSUME NEW t \in Sends, pc[t] = "write", t \notin failed', NEW i \in 1..next[t]
          PROVE  Somewhere(buffer', t, i) \/ Somewhere(applied, t, i)
      <4>1. t \notin failed /\ t # buffer[n].send BY <3>1, <1>1
      <4>2. CASE Somewhere(applied, t, i) BY <4>2
      <4>3. CASE Somewhere(buffer, t, i)
        <5>1. PICK k \in 1..Len(buffer) : buffer[k].send = t /\ buffer[k].row = i
              BY <4>3 DEF Somewhere
        <5>2. k # n BY <5>1, <4>1
        <5> QED BY <5>1, <5>2, <1>b DEF Somewhere
      <4> QED BY <4>1, <4>2, <4>3, <3>1 DEF Kept
    <3> QED BY <3>1, <1>0, <1>1 DEF Kept, Somewhere
  <2>9. AckedIsWritten' BY <1>0, <1>1 DEF AckedIsWritten, Done
  <2> QED BY <2>1, <2>2, <2>3, <2>4, <2>5, <2>6, <2>7, <2>8, <2>9
<1>2. CASE applied' = Append(applied, e) /\ failed' = failed
  <2>0. /\ Len(applied') = Len(applied) + 1 /\ applied' \in Seq(Entry)
        /\ applied'[Len(applied) + 1] = e
        /\ \A m \in 1..Len(applied) : applied'[m] = applied[m]
    <3>1. applied \in Seq(Entry) BY DEF TypeOK
    <3> QED BY <3>1, <1>2, <1>c, AppendProperties
  <2>1. TypeOK' BY <2>0, <1>0, <1>2, <1>b DEF TypeOK, Tables
  <2>2. Fresh' /\ Counted' /\ Aimed' BY <1>0 DEF Fresh, Counted, Aimed, Tables
  <2>3. BufferTraced'
    <3>1. ASSUME NEW i \in 1..Len(buffer') PROVE Traced(buffer[i])'
      <4>1. Traced(buffer[Before(n, i)]) BY <1>b DEF BufferTraced
      <4> QED BY <4>1, <1>0, <1>b DEF Traced
    <3> QED BY <3>1 DEF BufferTraced
  <2>4. AppliedTraced'
    <3>1. ASSUME NEW m \in 1..Len(applied') PROVE Traced(applied[m])'
      <4>1. CASE m \in 1..Len(applied)
        <5>1. Traced(applied[m]) BY <4>1 DEF AppliedTraced
        <5> QED BY <5>1, <4>1, <2>0, <1>0 DEF Traced
      <4>2. CASE m = Len(applied) + 1 BY <4>2, <2>0, <1>0, <1>c DEF Traced
      <4> QED BY <4>1, <4>2, <2>0, <1>a
    <3> QED BY <3>1 DEF AppliedTraced
  <2>5. BufferOrdered'
    <3>1. ASSUME NEW i \in 1..Len(buffer'), NEW j \in 1..Len(buffer'), i < j,
                 Related(buffer[i], buffer[j])'
          PROVE  buffer'[i].row < buffer'[j].row
      <4>1. Related(buffer[Before(n, i)], buffer[Before(n, j)])
            BY <3>1, <1>0, <1>b DEF Related, BucketOf
      <4>2. Before(n, i) < Before(n, j) BY <3>1, <1>b
      <4> QED BY <4>1, <4>2, <1>b DEF BufferOrdered
    <3> QED BY <3>1 DEF BufferOrdered
  <2>6. AppliedFirst'
    <3>1. ASSUME NEW m \in 1..Len(applied'), NEW j \in 1..Len(buffer'),
                 Related(applied[m], buffer[j])'
          PROVE  applied'[m].row < buffer'[j].row
      <4>1. CASE m \in 1..Len(applied)
        <5>1. Related(applied[m], buffer[Before(n, j)])
              BY <4>1, <2>0, <3>1, <1>0, <1>b DEF Related, BucketOf
        <5> QED BY <5>1, <4>1, <2>0, <1>b DEF AppliedFirst
      <4>2. CASE m = Len(applied) + 1
        <5>1. Related(e, buffer[Before(n, j)])
              BY <4>2, <2>0, <3>1, <1>0, <1>b DEF Related, BucketOf
        <5> QED BY <5>1, <4>2, <2>0, <1>b, <1>d
      <4> QED BY <4>1, <4>2, <2>0, <1>a
    <3> QED BY <3>1 DEF AppliedFirst
  <2>7. WrittenOnce'
    <3>1. ASSUME NEW m \in 1..Len(applied), applied[m].send = e.send
          PROVE  applied[m].row # e.row
      <4>1. CASE applied[m].row = e.row
        <5>1. Related(applied[m], e) BY <3>1, <4>1 DEF Related, BucketOf
        <5> QED BY <5>1, <1>c, <4>1 DEF AppliedFirst, e
      <4> QED BY <4>1
    <3>2. ASSUME NEW s \in Sends, NEW k \in 1..Len(applied'), NEW m \in 1..Len(applied'),
                 applied'[k].send = s, applied'[m].send = s, k # m
          PROVE  applied'[k].row # applied'[m].row
      <4>1. CASE k \in 1..Len(applied) /\ m \in 1..Len(applied)
            BY <4>1, <3>2, <2>0 DEF WrittenOnce, Done
      <4>2. CASE k = Len(applied) + 1 /\ m \in 1..Len(applied) BY <4>2, <3>1, <3>2, <2>0
      <4>3. CASE m = Len(applied) + 1 /\ k \in 1..Len(applied) BY <4>3, <3>1, <3>2, <2>0
      <4> QED BY <4>1, <4>2, <4>3, <3>2, <2>0, <1>a
    <3> QED BY <3>2 DEF WrittenOnce, Done
  <2>8. Kept'
    <3>1. ASSUME NEW t \in Sends, pc[t] = "write", t \notin failed, NEW i \in 1..next[t]
          PROVE  Somewhere(buffer', t, i) \/ Somewhere(applied', t, i)
      <4>1. CASE Somewhere(applied, t, i)
        <5>1. 1..Len(applied) \subseteq 1..Len(applied') BY <2>0, <1>a
        <5> QED BY <4>1, <5>1, <2>0 DEF Somewhere
      <4>2. CASE Somewhere(buffer, t, i)
        <5>1. PICK k \in 1..Len(buffer) : buffer[k].send = t /\ buffer[k].row = i
              BY <4>2 DEF Somewhere
        <5>2. CASE k # n BY <5>1, <5>2, <1>b DEF Somewhere
        <5>3. CASE k = n
          <6>1. Len(applied) + 1 \in 1..Len(applied') BY <2>0, <1>a
          <6> QED BY <6>1, <5>1, <5>3, <2>0 DEF Somewhere, e
        <5> QED BY <5>2, <5>3
      <4> QED BY <4>1, <4>2, <3>1 DEF Kept
    <3> QED BY <3>1, <1>0, <1>2 DEF Kept, Somewhere
  <2>9. AckedIsWritten'
    <3>1. 1..Len(applied) \subseteq 1..Len(applied') BY <2>0, <1>a
    <3>2. \A t \in Sends : \A m \in Done(t) : m \in Done(t)' /\ applied'[m].row = applied[m].row
          BY <3>1, <2>0 DEF Done
    <3> QED BY <3>2, <1>0 DEF AckedIsWritten
  <2> QED BY <2>1, <2>2, <2>3, <2>4, <2>5, <2>6, <2>7, <2>8, <2>9
<1> QED BY <1>0, <1>1, <1>2 DEF e

LEMMA CreateTableIInv == ASSUME IInv, CreateTable PROVE IInv'
<1> USE DEF IInv
<1>0. /\ Len(kinds) < MaxTables /\ live' = Len(kinds')
      /\ UNCHANGED <<pc, rows, op, target, next, buffer, applied, failed>>
      BY DEF CreateTable, handler
<1>a. /\ Len(kinds) \in Nat /\ Len(kinds') = Len(kinds) + 1 /\ kinds' \in Seq({"log", "pk"})
      /\ \A i \in 1..Len(kinds) : kinds'[i] = kinds[i]
  <2>1. PICK kind \in {"log", "pk"} : kinds' = Append(kinds, kind) BY DEF CreateTable
  <2>2. kinds \in Seq({"log", "pk"}) BY DEF TypeOK
  <2> QED BY <2>1, <2>2, AppendProperties, EntriesTyped
<1>1. TypeOK'
  <2>1. 0..Len(kinds) \subseteq 0..Len(kinds') /\ live' \in 0..Len(kinds') BY <1>0, <1>a
  <2>2. target' \in [Sends -> 0..Len(kinds')] BY <2>1, <1>0 DEF TypeOK
  <2>3. Len(kinds') <= MaxTables BY <1>0, <1>a, BoundsAssumption
  <2> QED BY <2>1, <2>2, <2>3, <1>0, <1>a DEF TypeOK
<1>2. Fresh' /\ Counted' BY <1>0 DEF Fresh, Counted
<1>3. Aimed'
  <2>1. Tables \subseteq Tables' BY <1>a DEF Tables
  <2> QED BY <2>1, <1>0, <1>a DEF Aimed, Tables
<1>4. BufferTraced' /\ AppliedTraced' BY <1>0 DEF BufferTraced, AppliedTraced, Traced
<1>5. BufferOrdered' /\ AppliedFirst' BY <1>0 DEF BufferOrdered, AppliedFirst, Related, BucketOf
<1>6. WrittenOnce' /\ AckedIsWritten' BY <1>0 DEF WrittenOnce, AckedIsWritten, Done
<1>7. Kept' BY <1>0 DEF Kept, Somewhere
<1> QED BY <1>1, <1>2, <1>3, <1>4, <1>5, <1>6, <1>7

\* Steps that at most take the path away from its table.
LEMMA DropTableIInv ==
    ASSUME IInv, live' = 0 \/ UNCHANGED live,
           UNCHANGED <<pc, rows, op, target, next, buffer, applied, failed, kinds>>
    PROVE  IInv'
<1> USE DEF IInv
<1>1. TypeOK'
  <2>1. live' \in 0..Len(kinds) BY EntriesTyped DEF TypeOK
  <2> QED BY <2>1 DEF TypeOK
<1>2. Fresh' /\ Counted' /\ Aimed' BY DEF Fresh, Counted, Aimed, Tables
<1>3. BufferTraced' /\ AppliedTraced' BY DEF BufferTraced, AppliedTraced, Traced
<1>4. BufferOrdered' /\ AppliedFirst' BY DEF BufferOrdered, AppliedFirst, Related, BucketOf
<1>5. WrittenOnce' /\ AckedIsWritten' BY DEF WrittenOnce, AckedIsWritten, Done
<1>6. Kept' BY DEF Kept, Somewhere
<1> QED BY <1>1, <1>2, <1>3, <1>4, <1>5, <1>6

LEMMA HandleIInv == ASSUME IInv, NEW s \in Sends, Handle(s) PROVE IInv'
<1>1. CASE Convert(s) BY <1>1, ConvertIInv
<1>2. CASE Open(s) BY <1>2, OpenIInv
<1>3. CASE Buffer(s) BY <1>3, BufferIInv
<1>4. CASE Flush(s) BY <1>4, FlushIInv
<1>5. CASE RefuseRows(s) BY <1>5, EndIInv DEF RefuseRows, At, Running, fluss
<1>6. CASE RefuseKind(s) BY <1>6, EndIInv DEF RefuseKind, At, Running, fluss
<1>7. CASE TableFails(s) BY <1>7, EndIInv DEF TableFails, At, Running, fluss
<1>8. CASE RowFails(s) BY <1>8, EndIInv DEF RowFails, At, Running, fluss
<1>9. CASE FlushFails(s) BY <1>9, EndIInv DEF FlushFails, At, Running, fluss
<1> QED BY <1>1, <1>2, <1>3, <1>4, <1>5, <1>6, <1>7, <1>8, <1>9 DEF Handle

LEMMA NextIInv == IInv /\ [Next]_vars => IInv'
<1> SUFFICES ASSUME IInv, [Next]_vars PROVE IInv'
    OBVIOUS
<1>1. ASSUME NEW s \in Sends, NEW rs \in Requests, Produce(s, rs) PROVE IInv'
      BY <1>1, ProduceIInv
<1>2. ASSUME NEW s \in Sends, Handle(s) PROVE IInv' BY <1>2, HandleIInv
<1>3. ASSUME NEW s \in Sends, ClientLeaves(s) PROVE IInv'
      BY <1>3, EndIInv DEF ClientLeaves, fluss
<1>4. CASE Deliver BY <1>4, DeliverIInv
<1>5. CASE CreateTable BY <1>5, CreateTableIInv
<1>6. CASE DropTable BY <1>6, DropTableIInv DEF DropTable, handler
<1>7. CASE Crash BY <1>7, CrashIInv
<1>8. CASE UNCHANGED vars BY <1>8, DropTableIInv DEF vars
<1> QED BY <1>1, <1>2, <1>3, <1>4, <1>5, <1>6, <1>7, <1>8 DEF Next

THEOREM Invariance == Spec => []IInv
BY InitIInv, NextIInv, PTL DEF Spec

(***************************************************************************)
(* What follows from it.                                                   *)
(***************************************************************************)

\* Every variable keeps its type; no handler gives its writer a row too many.
THEOREM TypeCorrect == Spec => []TypeOK
<1>1. IInv => TypeOK BY DEF IInv
<1> QED BY <1>1, Invariance, PTL

\* A request answered 200 has had each of its rows written.
THEOREM AckedMeansWritten == Spec => []AckedIsWritten
<1>1. IInv => AckedIsWritten BY DEF IInv
<1> QED BY <1>1, Invariance, PTL

\* A request writes each of its rows at most once.
THEOREM RowsAreWrittenOnce == Spec => []WrittenOnce
<1>1. IInv => WrittenOnce BY DEF IInv
<1> QED BY <1>1, Invariance, PTL

LEMMA RefusedTraceless ==
    ASSUME IInv, NEW s \in Sends, pc[s] = "refused"
    PROVE  Done(s) = {} /\ Pending(s) = {}
<1> USE DEF IInv
<1>1. ASSUME NEW n \in 1..Len(buffer) PROVE buffer[n].send # s
  <2>1. buffer[n] \in Entry /\ Traced(buffer[n]) BY EntriesTyped DEF BufferTraced
  <2> QED BY <2>1, EntryHasWriter
<1>2. ASSUME NEW n \in 1..Len(applied) PROVE applied[n].send # s
  <2>1. applied[n] \in Entry /\ Traced(applied[n]) BY EntriesTyped DEF AppliedTraced
  <2> QED BY <2>1, EntryHasWriter
<1> QED BY <1>1, <1>2 DEF Done, Pending

\* A request answered with a 4xx has written nothing and never will.
THEOREM RefusalLeavesNoTrace == Spec => []RefusedLeavesNoTrace
<1>1. IInv => RefusedLeavesNoTrace BY RefusedTraceless DEF RefusedLeavesNoTrace
<1> QED BY <1>1, Invariance, PTL

\* Rows are appended to log tables only, upserted and deleted in primary key
\* tables only, also when the table changes under the request.
THEOREM KindsAreRespected == Spec => []KindRespected
<1>1. IInv => KindRespected
  <2> SUFFICES ASSUME IInv, NEW n \in 1..Len(applied)
               PROVE  Fits(applied[n].op, kinds[applied[n].to])
      BY DEF KindRespected
  <2>1. TypeOK /\ Fresh /\ Traced(applied[n]) /\ Aimed BY DEF IInv, AppliedTraced
  <2>2. applied[n] \in Entry /\ applied[n].send \in Sends BY <2>1, EntriesTyped DEF Entry
  <2>3. next[applied[n].send] > 0 BY <2>1, <2>2, EntryHasWriter
  <2> QED BY <2>1, <2>2, <2>3 DEF Aimed, Traced
<1> QED BY <1>1, Invariance, PTL

(***************************************************************************)
(* ProducePath implements RowWrites.                                       *)
(***************************************************************************)

LEMMA InitImplements == Init => Promise!Init
<1> SUFFICES ASSUME Init PROVE Promise!Init
    OBVIOUS
<1>1. Phase = [s \in Sends |-> "new"] BY DEF Init, Phase, Running
<1> QED BY <1>1 DEF Init, Promise!Init

LEMMA SamePhase ==
    ASSUME NEW s \in Sends, TypeOK, pc[s] \in Running,
           NEW there \in Running, pc' = [pc EXCEPT ![s] = there]
    PROVE  Phase' = Phase
<1>1. \A t \in Sends : Phase'[t] = Phase[t] BY DEF Phase, Running, TypeOK
<1> QED BY <1>1 DEF Phase

LEMMA NewPhase ==
    ASSUME NEW s \in Sends, TypeOK,
           NEW there \in Running \cup {"acked", "refused", "error", "gone"},
           NEW phase, phase = (IF there \in Running THEN "running"
                               ELSE IF there \in {"error", "gone"} THEN "unknown" ELSE there),
           pc' = [pc EXCEPT ![s] = there]
    PROVE  Phase' = [Phase EXCEPT ![s] = phase]
<1>1. \A t \in Sends : t # s => Phase'[t] = Phase[t] BY DEF Phase, TypeOK
<1>2. Phase'[s] = phase BY DEF Phase, TypeOK, Running
<1>3. /\ Phase = [t \in Sends |-> Phase[t]]
      /\ Phase' = [t \in Sends |-> Phase'[t]]
      BY DEF Phase
<1> QED BY <1>1, <1>2, <1>3

LEMMA PhaseOfRunning ==
    ASSUME NEW s \in Sends, pc[s] \in Running
    PROVE  Phase[s] = "running"
BY DEF Phase, Running

\* A request that ends as an error, or with its client, or is refused.
LEMMA EndImplements ==
    ASSUME IInv, NEW s \in Sends, NEW there \in {"refused", "error", "gone"},
           there = "refused" => pc[s] \in {"describe", "open"},
           pc' = [pc EXCEPT ![s] = there], pc[s] \in Running,
           UNCHANGED <<rows, applied>>
    PROVE  Promise!Next
<1> DEFINE how == IF there = "refused" THEN "refused" ELSE "unknown"
<1>1. Phase' = [Phase EXCEPT ![s] = how] BY NewPhase DEF IInv, Running
<1>2. Phase[s] = "running" BY PhaseOfRunning
<1>3. how = "refused" => Promise!AppliedRows(s) = {}
  <2>1. SUFFICES ASSUME pc[s] \in {"describe", "open"},
                        NEW n \in 1..Len(applied)
                 PROVE  applied[n].send # s
        BY DEF Promise!AppliedRows, Promise!AppliedTo
  <2>2. applied[n] \in Entry /\ Traced(applied[n])
        BY EntriesTyped DEF IInv, AppliedTraced
  <2> QED BY <2>1, <2>2, EntryHasWriter DEF IInv
<1>4. Promise!End(s, how) BY <1>1, <1>2, <1>3 DEF Promise!End
<1> QED BY <1>4 DEF Promise!Next

LEMMA ProduceImplements ==
    ASSUME IInv, NEW s \in Sends, NEW rs \in Requests, Produce(s, rs)
    PROVE  Promise!Next
<1>1. /\ pc[s] = "new" /\ pc' = [pc EXCEPT ![s] = "describe"]
      /\ rows' = [rows EXCEPT ![s] = rs] /\ UNCHANGED applied
      BY DEF Produce, At, fluss
<1>2. Phase' = [Phase EXCEPT ![s] = "running"] BY <1>1, NewPhase DEF IInv, Running
<1>3. Phase[s] = "new" BY <1>1 DEF Phase, Running
<1>4. Promise!Begin(s) BY <1>1, <1>2, <1>3 DEF Promise!Begin, Promise!Requests, Requests
<1> QED BY <1>4 DEF Promise!Next

LEMMA FlushImplements ==
    ASSUME IInv, NEW s \in Sends, Flush(s)
    PROVE  Promise!Next
<1>1. /\ pc[s] = "write" /\ pc' = [pc EXCEPT ![s] = "acked"] /\ UNCHANGED <<rows, applied>>
      BY DEF Flush, At, fluss
<1>2. Phase' = [Phase EXCEPT ![s] = "acked"] BY <1>1, NewPhase DEF IInv, Running
<1>3. Phase[s] = "running" BY <1>1, PhaseOfRunning DEF Running
<1>4. Promise!AppliedRows(s) = DOMAIN rows[s]
  <2>1. IInv' BY FlushIInv
  <2>2. pc'[s] = "acked" BY <1>1 DEF IInv, TypeOK
  <2>3. DOMAIN rows[s] \subseteq Promise!AppliedRows(s)
        BY <2>1, <2>2, <1>1
        DEF IInv, AckedIsWritten, Done, Promise!AppliedRows, Promise!AppliedTo
  <2>4. ASSUME NEW n \in 1..Len(applied), applied[n].send = s
        PROVE  applied[n].row \in DOMAIN rows[s]
    <3>1. applied[n] \in Entry /\ applied[n].row <= next[s]
          BY <2>4, EntriesTyped DEF IInv, AppliedTraced, Traced
    <3>2. applied[n].row \in Nat /\ applied[n].row >= 1 BY <3>1, BoundsAssumption DEF Entry
    <3>3. next[s] <= Len(rows[s]) BY DEF IInv, Counted
    <3> QED BY <3>1, <3>2, <3>3, LengthsTyped, BoundsAssumption DEF IInv
  <2>5. Promise!AppliedRows(s) \subseteq DOMAIN rows[s]
        BY <2>4 DEF Promise!AppliedRows, Promise!AppliedTo
  <2> QED BY <2>3, <2>5
<1>5. Promise!End(s, "acked") BY <1>1, <1>2, <1>3, <1>4 DEF Promise!End
<1> QED BY <1>5 DEF Promise!Next

\* The row that a delivery writes is one that RowWrites lets it write.
LEMMA DeliverImplements ==
    ASSUME IInv, NEW n \in 1..Len(buffer), Foremost(n),
           applied' = Append(applied, buffer[n]), UNCHANGED <<pc, rows>>
    PROVE  Promise!Next
<1> DEFINE e == buffer[n]
           s == e.send
<1>1. e \in Entry /\ Traced(e) /\ TypeOK /\ Fresh BY EntriesTyped DEF IInv, BufferTraced
<1>2. /\ Len(applied') = Len(applied) + 1 /\ applied'[Len(applied')] = e
      /\ Len(applied) \in Nat
  <2>1. applied \in Seq(Entry) BY <1>1 DEF TypeOK
  <2> QED BY <2>1, <1>1, AppendProperties, EntriesTyped
<1>3. s \in Sends /\ e.row \in Nat /\ e.row >= 1 BY <1>1, BoundsAssumption DEF Entry
<1>4. e.row \in DOMAIN rows[s]
  <2>1. e.row <= next[s] /\ next[s] <= Len(rows[s]) BY <1>1, <1>3 DEF Traced, IInv, Counted
  <2> QED BY <2>1, <1>1, <1>3, LengthsTyped, BoundsAssumption
<1>5. ASSUME NEW m \in Promise!AppliedTo(s)
      PROVE  /\ m \in 1..Len(applied) /\ applied[m].send = s
             /\ e.op = applied[m].op /\ e.to = applied[m].to
  <2>1. m \in 1..Len(applied) /\ applied[m].send = s BY DEF Promise!AppliedTo
  <2>2. Traced(applied[m]) BY <2>1 DEF IInv, AppliedTraced
  <2> QED BY <2>1, <2>2, <1>1 DEF Traced
<1>6. ASSUME NEW m \in Promise!AppliedTo(s),
             rows[s][applied[m].row].bucket = rows[s][e.row].bucket
      PROVE  applied[m].row < e.row
  <2>1. Related(applied[m], e) BY <1>5, <1>6 DEF Related, BucketOf
  <2> QED BY <2>1, <1>5 DEF IInv, AppliedFirst
<1>7. e.row \notin Promise!AppliedRows(s)
  <2>1. SUFFICES ASSUME NEW m \in Promise!AppliedTo(s), applied[m].row = e.row PROVE FALSE
        BY DEF Promise!AppliedRows
  <2> QED BY <2>1, <1>6, <1>3
<1>8. Phase[s] \in {"running", "unknown"}
  <2>1. pc[s] \notin {"new", "refused"} BY <1>1, EntryHasWriter
  <2>2. pc[s] # "acked"
    <3>1. SUFFICES ASSUME pc[s] = "acked" PROVE FALSE
          OBVIOUS
    <3>2. PICK m \in Done(s) : applied[m].row = e.row
          BY <3>1, <1>3, <1>4 DEF IInv, AckedIsWritten
    <3>3. m \in Promise!AppliedTo(s) BY <3>2 DEF Done, Promise!AppliedTo
    <3> QED BY <3>2, <3>3, <1>7 DEF Promise!AppliedRows
  <2>3. pc[s] \in Running \cup {"new", "acked", "refused", "error", "gone"}
        BY <1>1, <1>3 DEF TypeOK
  <2> QED BY <2>1, <2>2, <2>3, <1>3 DEF Phase
<1>9. Phase' = Phase BY DEF Phase
<1> HIDE DEF e, s
<1>10. Promise!Apply(e)
  <2>1. e.send = s /\ applied' = Append(applied, e) BY DEF e, s
  <2> QED BY <2>1, <1>4, <1>5, <1>6, <1>7, <1>8, <1>9 DEF Promise!Apply
<1> QED BY <1>2, <1>10 DEF Promise!Next

LEMMA CrashImplements == ASSUME IInv, Crash PROVE Promise!Crash
<1>1. Phase' = [s \in Sends |-> IF Phase[s] = "running" THEN "unknown" ELSE Phase[s]]
  <2>1. \A s \in Sends :
           Phase'[s] = IF Phase[s] = "running" THEN "unknown" ELSE Phase[s]
        BY DEF Crash, Phase, Running, IInv, TypeOK
  <2> QED BY <2>1 DEF Phase
<1> QED BY <1>1 DEF Crash, fluss, Promise!Crash

LEMMA StepImplements ==
    ASSUME IInv, [Next]_vars
    PROVE  [Promise!Next \/ Promise!Crash]_<<Phase, rows, applied>>
<1> DEFINE P == [Promise!Next \/ Promise!Crash]_<<Phase, rows, applied>>
<1>1. ASSUME NEW s \in Sends, NEW rs \in Requests, Produce(s, rs) PROVE P
      BY <1>1, ProduceImplements
<1>2. ASSUME NEW s \in Sends, Handle(s) PROVE P
  <2>1. CASE Convert(s)
        BY <2>1, SamePhase DEF Convert, At, Running, fluss, IInv
  <2>2. CASE Open(s)
        BY <2>2, SamePhase DEF Open, At, Running, fluss, IInv
  <2>3. CASE Buffer(s) BY <2>3 DEF Buffer, Phase, fluss
  <2>4. CASE Flush(s) BY <2>4, FlushImplements
  <2>5. CASE RefuseRows(s) BY <2>5, EndImplements DEF RefuseRows, At, Running, fluss
  <2>6. CASE RefuseKind(s) BY <2>6, EndImplements DEF RefuseKind, At, Running, fluss
  <2>7. CASE TableFails(s) BY <2>7, EndImplements DEF TableFails, At, Running, fluss
  <2>8. CASE RowFails(s) BY <2>8, EndImplements DEF RowFails, At, Running, fluss
  <2>9. CASE FlushFails(s) BY <2>9, EndImplements DEF FlushFails, At, Running, fluss
  <2> QED BY <1>2, <2>1, <2>2, <2>3, <2>4, <2>5, <2>6, <2>7, <2>8, <2>9 DEF Handle
<1>3. ASSUME NEW s \in Sends, ClientLeaves(s) PROVE P
      BY <1>3, EndImplements DEF ClientLeaves, fluss
<1>4. CASE Deliver
  <2>1. PICK n \in 1..Len(buffer) :
          /\ Foremost(n)
          /\ applied' = Append(applied, buffer[n]) \/ UNCHANGED applied
          /\ UNCHANGED <<pc, rows>>
        BY <1>4 DEF Deliver, handler
  <2>2. CASE applied' = Append(applied, buffer[n]) BY <2>1, <2>2, DeliverImplements
  <2>3. CASE UNCHANGED applied BY <2>1, <2>3 DEF Phase
  <2> QED BY <2>1, <2>2, <2>3
<1>5. CASE CreateTable BY <1>5 DEF CreateTable, handler, Phase
<1>6. CASE DropTable BY <1>6 DEF DropTable, handler, Phase
<1>7. CASE Crash BY <1>7, CrashImplements
<1>8. CASE UNCHANGED vars BY <1>8 DEF vars, Phase
<1> QED BY <1>1, <1>2, <1>3, <1>4, <1>5, <1>6, <1>7, <1>8 DEF Next

\* produce keeps the promise of RowWrites: what it answers is what happened,
\* through the buffer, the second look at the table and every failure.
THEOREM ProduceImplementsRowWrites == Spec => ImplementsRowWrites
<1>1. Init => Promise!Init BY InitImplements
<1>2. IInv /\ [Next]_vars => [Promise!Next \/ Promise!Crash]_<<Phase, rows, applied>>
      BY StepImplements
<1> QED BY <1>1, <1>2, Invariance, PTL DEF Spec, ImplementsRowWrites, Promise!Spec
=============================================================================
