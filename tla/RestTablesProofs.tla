-------------------------- MODULE RestTablesProofs --------------------------
(***************************************************************************)
(* Proofs of the safety properties of RestTables, for any number of        *)
(* requests, any catalogue to begin with, and integer types of any width.  *)
(***************************************************************************)
EXTENDS RestTables, DatumsProofs, FiniteSetTheorems, SequenceTheorems

(***************************************************************************)
(* Sequences of anything.                                                  *)
(***************************************************************************)

LEMMA SeqOfAnything ==
    ASSUME NEW s, IsSeq(s)
    PROVE  /\ Len(s) \in Nat /\ DOMAIN s = 1..Len(s)
           /\ s = [i \in 1..Len(s) |-> s[i]]
           /\ \A x : x \in ToSet(s) <=> \E i \in 1..Len(s) : x = s[i]
<1>1. Len(s) \in Nat /\ s \in [1..Len(s) -> ToSet(s)] /\ DOMAIN s = 1..Len(s)
      BY LenProperties DEF IsSeq
<1> QED BY <1>1 DEF ToSet

LEMMA SeqIsSeq ==
    ASSUME NEW S, NEW s \in Seq(S)
    PROVE  IsSeq(s) /\ ToSet(s) \subseteq S
<1>1. Len(s) \in Nat /\ s \in [1..Len(s) -> S] /\ DOMAIN s = 1..Len(s) BY LenProperties
<1>2. s \in [1..Len(s) -> ToSet(s)] BY <1>1 DEF ToSet
<1>3. s \in Seq(ToSet(s)) BY <1>1, <1>2, SeqDef
<1> QED BY <1>1, <1>3 DEF IsSeq, ToSet

LEMMA FunctionInSeq == ASSUME NEW S, NEW n \in Nat, NEW s \in [1..n -> S] PROVE s \in Seq(S)
BY SeqDef

LEMMA ConstantSeq ==
    ASSUME NEW n \in Nat, NEW e, NEW s, s = [i \in 1..n |-> e]
    PROVE  /\ IsSeq(s)
           /\ \A x \in ToSet(s) : x = e
           /\ \A i \in DOMAIN s : s[i] = e
<1>1. s \in [1..n -> {e}] OBVIOUS
<1>2. s \in Seq({e}) BY <1>1, FunctionInSeq
<1> QED BY <1>2, SeqIsSeq DEF ToSet

LEMMA FunctionIsSeq ==
    ASSUME NEW n \in Nat, NEW s, s = [i \in 1..n |-> s[i]]
    PROVE  IsSeq(s) /\ Len(s) = n
<1>1. s \in [1..n -> {s[i] : i \in 1..n}] BY Zenon
<1>2. s \in Seq({s[i] : i \in 1..n}) BY <1>1, SeqDef
<1>3. Len(s) = n BY <1>1, <1>2, LenProperties
<1> QED BY <1>2, <1>3, SeqIsSeq

LEMMA AppendIsSeq ==
    ASSUME NEW s, IsSeq(s), NEW x
    PROVE  /\ IsSeq(Append(s, x)) /\ Len(Append(s, x)) = Len(s) + 1
           /\ \A i \in 1..Len(s) : Append(s, x)[i] = s[i]
           /\ Append(s, x)[Len(s) + 1] = x
<1>1. s \in Seq(ToSet(s) \cup {x}) BY SeqMonotonic DEF IsSeq
<1>2. x \in ToSet(s) \cup {x} OBVIOUS
<1>3. /\ Append(s, x) \in Seq(ToSet(s) \cup {x}) /\ Len(Append(s, x)) = Len(s) + 1
      /\ \A i \in 1..Len(s) : Append(s, x)[i] = s[i]
      /\ Append(s, x)[Len(s) + 1] = x
      BY <1>1, <1>2, AppendProperties
<1>4. IsSeq(Append(s, x)) BY <1>3, SeqIsSeq
<1> QED BY <1>3, <1>4

LEMMA ReplaceIsSeq ==
    ASSUME NEW s, IsSeq(s), NEW i \in DOMAIN s, NEW x
    PROVE  /\ IsSeq([s EXCEPT ![i] = x]) /\ Len([s EXCEPT ![i] = x]) = Len(s)
           /\ \A j \in 1..Len(s) : [s EXCEPT ![i] = x][j] = IF j = i THEN x ELSE s[j]
<1>1. s \in Seq(ToSet(s) \cup {x}) BY SeqMonotonic DEF IsSeq
<1>2. x \in ToSet(s) \cup {x} /\ i \in 1..Len(s) BY SeqOfAnything
<1> DEFINE u == [s EXCEPT ![i] = x]
<1>3. /\ u \in Seq(ToSet(s) \cup {x}) /\ Len(u) = Len(s)
      /\ \A j \in 1..Len(s) : u[j] = IF j = i THEN x ELSE s[j]
      BY <1>1, <1>2, ExceptSeq
<1> HIDE DEF u
<1>4. IsSeq(u) BY <1>3, SeqIsSeq
<1> QED BY <1>3, <1>4 DEF u

LEMMA RemoveIsSeq ==
    ASSUME NEW s, IsSeq(s), NEW i \in DOMAIN s
    PROVE  /\ IsSeq(RemoveAt(s, i)) /\ Len(RemoveAt(s, i)) = Len(s) - 1
           /\ \A j \in 1..(Len(s) - 1) : RemoveAt(s, i)[j] = IF j < i THEN s[j] ELSE s[j + 1]
<1>1. Len(s) \in Nat /\ i \in 1..Len(s) /\ DOMAIN s = 1..Len(s) BY SeqOfAnything
<1> DEFINE a == SubSeq(s, 1, i - 1)
           b == SubSeq(s, i + 1, Len(s))
<1>2. \A j \in 1..Len(s) : s[j] \in ToSet(s) BY <1>1 DEF ToSet
<1>3. /\ a \in Seq(ToSet(s)) /\ Len(a) = i - 1
      /\ \A j \in 1..(i - 1) : a[j] = s[j]
  <2>1. \A j \in 1..(i - 1) : s[j] \in ToSet(s) BY <1>1, <1>2
  <2>2. /\ a \in Seq(ToSet(s)) /\ Len(a) = IF 1 <= i - 1 THEN i - 1 - 1 + 1 ELSE 0
        /\ \A j \in 1..(i - 1 - 1 + 1) : a[j] = s[1 + j - 1]
        BY <1>1, <2>1, SubSeqProperties
  <2> HIDE DEF a
  <2> QED BY <1>1, <2>2
<1>4. /\ b \in Seq(ToSet(s)) /\ Len(b) = Len(s) - i
      /\ \A j \in 1..(Len(s) - i) : b[j] = s[i + j]
  <2>1. \A j \in (i + 1)..Len(s) : s[j] \in ToSet(s) BY <1>1, <1>2
  <2>2. /\ b \in Seq(ToSet(s))
        /\ Len(b) = IF i + 1 <= Len(s) THEN Len(s) - (i + 1) + 1 ELSE 0
        /\ \A j \in 1..(Len(s) - (i + 1) + 1) : b[j] = s[i + 1 + j - 1]
        BY <1>1, <2>1, SubSeqProperties
  <2> HIDE DEF b
  <2>3. Len(b) = Len(s) - i BY <1>1, <2>2
  <2>4. ASSUME NEW j \in 1..(Len(s) - i) PROVE b[j] = s[i + j]
    <3>1. j \in 1..(Len(s) - (i + 1) + 1) /\ i + 1 + j - 1 = i + j BY <1>1
    <3> QED BY <2>2, <3>1
  <2> QED BY <2>2, <2>3, <2>4
<1>5. RemoveAt(s, i) = a \o b BY DEF RemoveAt
<1> HIDE DEF a, b
<1>6. /\ a \o b \in Seq(ToSet(s)) /\ Len(a \o b) = Len(a) + Len(b)
      /\ \A j \in 1..(Len(a) + Len(b)) :
            (a \o b)[j] = IF j <= Len(a) THEN a[j] ELSE b[j - Len(a)]
      BY <1>3, <1>4, ConcatProperties
<1>7. IsSeq(a \o b) /\ Len(a \o b) = Len(s) - 1
  <2>1. IsSeq(a \o b) BY <1>6, SeqIsSeq
  <2> QED BY <1>1, <1>3, <1>4, <1>6, <2>1
<1>8. ASSUME NEW j \in 1..(Len(s) - 1)
      PROVE  (a \o b)[j] = IF j < i THEN s[j] ELSE s[j + 1]
  <2>1. CASE j < i BY <1>1, <1>3, <1>4, <1>6, <2>1
  <2>2. CASE j >= i
    <3>1. j - (i - 1) \in 1..(Len(s) - i) BY <1>1, <2>2
    <3>2. (a \o b)[j] = b[j - (i - 1)]
      <4>1. Len(a) = i - 1 /\ Len(b) = Len(s) - i BY <1>3, <1>4
      <4>2. j \in 1..(Len(a) + Len(b)) /\ ~(j <= Len(a)) BY <1>1, <2>2, <4>1
      <4> QED BY <1>6, <4>1, <4>2
    <3>3. b[j - (i - 1)] = s[i + (j - (i - 1))] BY <1>4, <3>1
    <3>4. i + (j - (i - 1)) = j + 1 BY <1>1
    <3> QED BY <1>1, <2>2, <3>2, <3>3, <3>4
  <2>3. j < i \/ j >= i BY <1>1
  <2> QED BY <2>1, <2>2, <2>3
<1> QED BY <1>5, <1>7, <1>8

LEMMA ConcatIsSeq ==
    ASSUME NEW s, IsSeq(s), NEW u, IsSeq(u)
    PROVE  /\ IsSeq(s \o u) /\ Len(s \o u) = Len(s) + Len(u)
           /\ \A i \in 1..(Len(s) + Len(u)) :
                 (s \o u)[i] = IF i <= Len(s) THEN s[i] ELSE u[i - Len(s)]
<1>1. s \in Seq(ToSet(s) \cup ToSet(u)) /\ u \in Seq(ToSet(s) \cup ToSet(u))
      BY SeqMonotonic DEF IsSeq
<1>2. /\ s \o u \in Seq(ToSet(s) \cup ToSet(u)) /\ Len(s \o u) = Len(s) + Len(u)
      /\ \A i \in 1..(Len(s) + Len(u)) :
            (s \o u)[i] = IF i <= Len(s) THEN s[i] ELSE u[i - Len(s)]
      BY <1>1, ConcatProperties
<1>3. IsSeq(s \o u) BY <1>2, SeqIsSeq
<1> QED BY <1>2, <1>3

(***************************************************************************)
(* Tables and their rows.                                                  *)
(***************************************************************************)

\* A column is found by its name.
LEMMA ColumnOfName ==
    ASSUME NEW t, IsTable(t), NEW j \in DOMAIN t.columns
    PROVE  Column(t, t.columns[j].name) = j
BY DEF IsTable, Column

LEMMA KeyColumn ==
    ASSUME NEW t, IsTable(t), NEW k \in DOMAIN t.pk
    PROVE  /\ Column(t, t.pk[k]) \in DOMAIN t.columns
           /\ t.columns[Column(t, t.pk[k])].name = t.pk[k]
<1>1. t.pk[k] \in ToSet(t.pk) BY DEF ToSet
<1>2. t.pk[k] \in {c.name : c \in ToSet(t.columns)} BY <1>1 DEF IsTable
<1>3. PICK j \in DOMAIN t.columns : t.columns[j].name = t.pk[k] BY <1>2 DEF ToSet
<1> QED BY <1>3, ColumnOfName

\* A row that a table may have: of its types, and with a key.
Fits(t, row) == IsRow(row) /\ RowOf(t, row) /\ Null \notin ToSet(KeyOf(t, row))

\* A log with such rows only.
IsLog(t, log) ==
    /\ IsSeq(log)
    /\ \A b \in DOMAIN log : IsSeq(log[b]) /\ \A i \in DOMAIN log[b] : Fits(t, log[b][i])

UniqueIn(t, log) ==
    t.pk # <<>> => \A b, c \in DOMAIN log : \A i \in DOMAIN log[b], j \in DOMAIN log[c] :
                     KeyOf(t, log[b][i]) = KeyOf(t, log[c][j]) => b = c /\ i = j

LEMMA TableHasLog ==
    ASSUME NEW t, IsTable(t), UniqueKeys(t)
    PROVE  IsLog(t, t.log) /\ UniqueIn(t, t.log)
<1>1. IsSeq(t.log) BY DEF IsTable
<1>2. ASSUME NEW b \in DOMAIN t.log
      PROVE  IsSeq(t.log[b]) /\ \A i \in DOMAIN t.log[b] : Fits(t, t.log[b][i])
  <2>1. t.log[b] \in ToSet(t.log) BY DEF ToSet
  <2> QED BY <2>1 DEF IsTable, ToSet, Fits
<1> QED BY <1>1, <1>2 DEF IsLog, UniqueKeys, UniqueIn

\* What changes nothing of its path and its schema leaves a table a table.
LEMMA TableWithLog ==
    ASSUME NEW t, IsTable(t), NEW log, IsLog(t, log), UniqueIn(t, log),
           NEW u, DOMAIN u = DOMAIN t, u.live \in BOOLEAN, u.log = log,
           \A f \in DOMAIN t \ {"log", "live"} : u[f] = t[f],
           u = [f \in DOMAIN u |-> u[f]]
    PROVE  IsTable(u) /\ UniqueKeys(u)
<1>1. /\ DOMAIN t = {"db", "name", "columns", "pk", "by", "live", "log"}
      /\ t.db \in Names /\ t.name \in Names /\ t.by \in SUBSET Slots
      /\ t.columns \in Seq([name : Names, type : Types]) /\ t.pk \in Seq(Names)
      BY DEF IsTable
<1>2. /\ u.db = t.db /\ u.name = t.name /\ u.columns = t.columns /\ u.pk = t.pk /\ u.by = t.by
      BY <1>1
<1>3. u \in [db : Names, name : Names, columns : Seq([name : Names, type : Types]),
             pk : Seq(Names), by : SUBSET Slots, live : BOOLEAN, log : {u.log}]
      BY <1>1, <1>2
<1>4. /\ \A name : Column(u, name) = Column(t, name)
      /\ \A row : KeyOf(u, row) = KeyOf(t, row)
      BY <1>2 DEF Column, KeyOf
<1>5. ASSUME NEW bucket \in ToSet(u.log)
      PROVE  /\ IsSeq(bucket)
             /\ \A row \in ToSet(bucket) :
                   IsRow(row) /\ RowOf(u, row) /\ Null \notin ToSet(KeyOf(u, row))
      BY <1>2, <1>4 DEF IsLog, Fits, RowOf, ToSet
<1>6. IsTable(u) BY <1>2, <1>3, <1>5 DEF IsTable, IsLog
<1>7. UniqueKeys(u) BY <1>2, <1>4 DEF UniqueIn, UniqueKeys
<1> QED BY <1>6, <1>7

\* A change of one bucket.
LEMMA BucketChanges ==
    ASSUME NEW t, NEW log, IsLog(t, log), NEW b \in DOMAIN log, NEW bucket,
           IsSeq(bucket), \A i \in DOMAIN bucket : Fits(t, bucket[i]),
           NEW new, new = [log EXCEPT ![b] = bucket]
    PROVE  /\ IsLog(t, new) /\ DOMAIN new = DOMAIN log /\ new[b] = bucket
           /\ \A c \in DOMAIN log \ {b} : new[c] = log[c]
<1>1. IsSeq(new) /\ DOMAIN new = DOMAIN log BY ReplaceIsSeq DEF IsLog
<1> QED BY <1>1 DEF IsLog

LEMMA PlaceOfKey ==
    ASSUME NEW t, NEW key, NEW p \in Places(t, key)
    PROVE  /\ p[1] \in DOMAIN t.log /\ p[2] \in DOMAIN t.log[p[1]]
           /\ p = <<p[1], p[2]>>
           /\ KeyOf(t, t.log[p[1]][p[2]]) = key
BY DEF Places

LEMMA NoPlaceNoKey ==
    ASSUME NEW t, NEW key, Places(t, key) = {},
           NEW b \in DOMAIN t.log, NEW i \in DOMAIN t.log[b]
    PROVE  KeyOf(t, t.log[b][i]) # key
<1>1. <<b, i>> \in UNION {{c} \X DOMAIN t.log[c] : c \in DOMAIN t.log} OBVIOUS
<1> QED BY <1>1 DEF Places

\* Where a row is written, nothing but its own key is touched.
LEMMA AppendKeepsKeys ==
    ASSUME NEW t, IsLog(t, t.log), UniqueIn(t, t.log), NEW row, Fits(t, row),
           t.pk = <<>> \/ Places(t, KeyOf(t, row)) = {},
           NEW b \in DOMAIN t.log, NEW log, log = [t.log EXCEPT ![b] = Append(@, row)]
    PROVE  IsLog(t, log) /\ UniqueIn(t, log)
<1> DEFINE bucket == Append(t.log[b], row)
           n == Len(t.log[b])
<1>1. IsSeq(t.log[b]) BY DEF IsLog
<1>2. n \in Nat /\ DOMAIN t.log[b] = 1..n BY <1>1, SeqOfAnything
<1>3. /\ IsSeq(bucket) /\ Len(bucket) = n + 1 /\ bucket[n + 1] = row
      /\ \A i \in 1..n : bucket[i] = t.log[b][i]
      BY <1>1, AppendIsSeq
<1>4. DOMAIN bucket = 1..(n + 1) BY <1>3, SeqOfAnything
<1>5. log = [t.log EXCEPT ![b] = bucket] OBVIOUS
<1> DEFINE old == t.log
<1> HIDE DEF bucket, n
<1>6. \A i \in DOMAIN bucket :
         IF i = n + 1 THEN bucket[i] = row ELSE i \in DOMAIN t.log[b] /\ bucket[i] = t.log[b][i]
      BY <1>2, <1>3, <1>4
<1>7. \A i \in DOMAIN bucket : Fits(t, bucket[i]) BY <1>6 DEF IsLog
<1>8. /\ IsLog(t, log) /\ DOMAIN log = DOMAIN t.log /\ log[b] = bucket
      /\ \A c \in DOMAIN t.log \ {b} : log[c] = t.log[c]
  <2>1. IsLog(t, old) /\ b \in DOMAIN old /\ log = [old EXCEPT ![b] = bucket] BY <1>5
  <2>2. IsSeq(bucket) /\ \A i \in DOMAIN bucket : Fits(t, bucket[i]) BY <1>3, <1>7
  <2> HIDE DEF old
  <2>3. /\ IsLog(t, log) /\ DOMAIN log = DOMAIN old /\ log[b] = bucket
        /\ \A c \in DOMAIN old \ {b} : log[c] = old[c]
        BY ONLY <2>1, <2>2, BucketChanges
  <2> QED BY <2>3 DEF old
<1>9. UniqueIn(t, log)
  <2> SUFFICES ASSUME t.pk # <<>>, NEW c \in DOMAIN log, NEW d \in DOMAIN log,
                      NEW i \in DOMAIN log[c], NEW j \in DOMAIN log[d],
                      KeyOf(t, log[c][i]) = KeyOf(t, log[d][j])
               PROVE  c = d /\ i = j
      BY DEF UniqueIn
  <2> DEFINE New(e, k) == e = b /\ k = n + 1
  <2>1. \A e \in DOMAIN log : \A k \in DOMAIN log[e] :
           IF New(e, k) THEN log[e][k] = row
           ELSE k \in DOMAIN t.log[e] /\ log[e][k] = t.log[e][k]
        BY <1>6, <1>8
  <2>2. \A e \in DOMAIN t.log : \A k \in DOMAIN t.log[e] : KeyOf(t, t.log[e][k]) # KeyOf(t, row)
        BY NoPlaceNoKey
  <2>3. CASE New(c, i) /\ New(d, j) BY <2>3
  <2>4. CASE New(c, i) /\ ~New(d, j)
    <3>1. log[c][i] = row BY <2>1, <2>4
    <3>2. d \in DOMAIN t.log /\ j \in DOMAIN t.log[d] /\ log[d][j] = t.log[d][j]
          BY <1>8, <2>1, <2>4
    <3>3. KeyOf(t, t.log[d][j]) = KeyOf(t, row) BY <3>1, <3>2
    <3> QED BY <2>2, <3>2, <3>3
  <2>5. CASE ~New(c, i) /\ New(d, j)
    <3>1. log[d][j] = row BY <2>1, <2>5
    <3>2. c \in DOMAIN t.log /\ i \in DOMAIN t.log[c] /\ log[c][i] = t.log[c][i]
          BY <1>8, <2>1, <2>5
    <3>3. KeyOf(t, t.log[c][i]) = KeyOf(t, row) BY <3>1, <3>2
    <3> QED BY <2>2, <3>2, <3>3
  <2>6. CASE ~New(c, i) /\ ~New(d, j) BY <1>8, <2>1, <2>6 DEF UniqueIn
  <2> QED BY <2>3, <2>4, <2>5, <2>6
<1> QED BY <1>8, <1>9

LEMMA ReplaceKeepsKeys ==
    ASSUME NEW t, IsLog(t, t.log), UniqueIn(t, t.log), NEW row, Fits(t, row),
           NEW b \in DOMAIN t.log, NEW i \in DOMAIN t.log[b],
           KeyOf(t, t.log[b][i]) = KeyOf(t, row),
           NEW log, log = [t.log EXCEPT ![b] = [@ EXCEPT ![i] = row]]
    PROVE  IsLog(t, log) /\ UniqueIn(t, log)
<1> DEFINE bucket == [t.log[b] EXCEPT ![i] = row]
<1>1. IsSeq(t.log[b]) BY DEF IsLog
<1>2. IsSeq(bucket) /\ DOMAIN bucket = DOMAIN t.log[b] BY <1>1, ReplaceIsSeq
<1>3. \A k \in DOMAIN bucket : bucket[k] = IF k = i THEN row ELSE t.log[b][k] OBVIOUS
<1>4. log = [t.log EXCEPT ![b] = bucket] OBVIOUS
<1> HIDE DEF bucket
<1>5. \A k \in DOMAIN bucket : Fits(t, bucket[k]) BY <1>2, <1>3 DEF IsLog
<1>6. /\ IsLog(t, log) /\ DOMAIN log = DOMAIN t.log /\ log[b] = bucket
      /\ \A c \in DOMAIN t.log \ {b} : log[c] = t.log[c]
      BY <1>2, <1>4, <1>5, BucketChanges
<1>7. \A c \in DOMAIN log : /\ DOMAIN log[c] = DOMAIN t.log[c]
                            /\ \A k \in DOMAIN log[c] :
                                  KeyOf(t, log[c][k]) = KeyOf(t, t.log[c][k])
      BY <1>2, <1>3, <1>6
<1> QED BY <1>6, <1>7 DEF UniqueIn

LEMMA RemoveKeepsKeys ==
    ASSUME NEW t, IsLog(t, t.log), UniqueIn(t, t.log),
           NEW b \in DOMAIN t.log, NEW i \in DOMAIN t.log[b],
           NEW log, log = [t.log EXCEPT ![b] = RemoveAt(@, i)]
    PROVE  IsLog(t, log) /\ UniqueIn(t, log)
<1> DEFINE bucket == RemoveAt(t.log[b], i)
           Was(c, k) == IF c = b /\ k >= i THEN k + 1 ELSE k
<1>1. IsSeq(t.log[b]) BY DEF IsLog
<1>2. Len(t.log[b]) \in Nat /\ DOMAIN t.log[b] = 1..Len(t.log[b]) BY <1>1, SeqOfAnything
<1>3. /\ IsSeq(bucket) /\ Len(bucket) = Len(t.log[b]) - 1
      /\ \A k \in 1..(Len(t.log[b]) - 1) :
            bucket[k] = IF k < i THEN t.log[b][k] ELSE t.log[b][k + 1]
      BY <1>1, RemoveIsSeq
<1>4. DOMAIN bucket = 1..(Len(t.log[b]) - 1) BY <1>3, SeqOfAnything
<1>5. log = [t.log EXCEPT ![b] = bucket] OBVIOUS
<1> HIDE DEF bucket
<1>6. \A k \in DOMAIN bucket : /\ Was(b, k) \in DOMAIN t.log[b]
                               /\ bucket[k] = t.log[b][Was(b, k)]
      BY <1>2, <1>3, <1>4
<1>7. \A k \in DOMAIN bucket : Fits(t, bucket[k]) BY <1>6 DEF IsLog
<1>8. /\ IsLog(t, log) /\ DOMAIN log = DOMAIN t.log /\ log[b] = bucket
      /\ \A c \in DOMAIN t.log \ {b} : log[c] = t.log[c]
      BY <1>3, <1>5, <1>7, BucketChanges
<1>9. \A c \in DOMAIN log : \A k \in DOMAIN log[c] :
         Was(c, k) \in DOMAIN t.log[c] /\ log[c][k] = t.log[c][Was(c, k)]
      BY <1>6, <1>8
<1>10. UniqueIn(t, log)
  <2> SUFFICES ASSUME t.pk # <<>>, NEW c \in DOMAIN log, NEW d \in DOMAIN log,
                      NEW k \in DOMAIN log[c], NEW j \in DOMAIN log[d],
                      KeyOf(t, log[c][k]) = KeyOf(t, log[d][j])
               PROVE  c = d /\ k = j
      BY DEF UniqueIn
  <2>1. c = d /\ Was(c, k) = Was(d, j) BY <1>8, <1>9 DEF UniqueIn
  <2>2. CASE c = b BY <1>2, <1>4, <1>8, <2>1, <2>2
  <2>3. CASE c # b BY <2>1, <2>3
  <2> QED BY <2>1, <2>2, <2>3
<1> QED BY <1>8, <1>10

\* A table into which a row is written, or from which it is deleted, has rows that
\* fit it and no two of one key.
LEMMA WriteKeepsTable ==
    ASSUME NEW t, IsTable(t), UniqueKeys(t), NEW row, Fits(t, row),
           NEW delete, NEW log \in LogsAfter(t, row, delete)
    PROVE  IsTable([t EXCEPT !.log = log]) /\ UniqueKeys([t EXCEPT !.log = log])
<1> DEFINE places == Places(t, KeyOf(t, row))
<1>1. IsLog(t, t.log) /\ UniqueIn(t, t.log) BY TableHasLog
<1>2. IsLog(t, log) /\ UniqueIn(t, log)
  <2>1. CASE t.pk = <<>> \/ (places = {} /\ ~delete)
    <3>1. PICK b \in DOMAIN t.log : log = [t.log EXCEPT ![b] = Append(@, row)]
          BY <2>1 DEF LogsAfter
    <3> QED BY <1>1, <2>1, <3>1, AppendKeepsKeys
  <2>2. CASE ~(t.pk = <<>> \/ (places = {} /\ ~delete)) /\ places = {}
        BY <1>1, <2>2 DEF LogsAfter
  <2>3. CASE ~(t.pk = <<>> \/ (places = {} /\ ~delete)) /\ places # {}
    <3>1. PICK p \in places :
             log = IF delete THEN [t.log EXCEPT ![p[1]] = RemoveAt(@, p[2])]
                   ELSE [t.log EXCEPT ![p[1]] = [@ EXCEPT ![p[2]] = row]]
          BY <2>3 DEF LogsAfter
    <3>2. /\ p[1] \in DOMAIN t.log /\ p[2] \in DOMAIN t.log[p[1]]
          /\ KeyOf(t, t.log[p[1]][p[2]]) = KeyOf(t, row)
          BY PlaceOfKey
    <3>3. CASE delete BY <1>1, <3>1, <3>2, <3>3, RemoveKeepsKeys
    <3>4. CASE ~delete BY <1>1, <3>1, <3>2, <3>4, ReplaceKeepsKeys
    <3> QED BY <3>3, <3>4
  <2> QED BY <2>1, <2>2, <2>3
<1> DEFINE u == [t EXCEPT !.log = log]
<1>3. /\ DOMAIN u = DOMAIN t /\ u.live \in BOOLEAN /\ u.log = log
      /\ \A f \in DOMAIN t \ {"log", "live"} : u[f] = t[f]
      /\ u = [f \in DOMAIN u |-> u[f]]
      BY DEF IsTable
<1> HIDE DEF u
<1>4. IsTable(u) /\ UniqueKeys(u) BY <1>2, <1>3, TableWithLog
<1> QED BY <1>4 DEF u

LEMMA DropKeepsTable ==
    ASSUME NEW t, IsTable(t), UniqueKeys(t)
    PROVE  IsTable([t EXCEPT !.live = FALSE]) /\ UniqueKeys([t EXCEPT !.live = FALSE])
<1>1. IsLog(t, t.log) /\ UniqueIn(t, t.log) BY TableHasLog
<1> DEFINE u == [t EXCEPT !.live = FALSE]
<1>2. /\ DOMAIN u = DOMAIN t /\ u.live \in BOOLEAN /\ u.log = t.log
      /\ \A f \in DOMAIN t \ {"log", "live"} : u[f] = t[f]
      /\ u = [f \in DOMAIN u |-> u[f]]
      BY DEF IsTable
<1> HIDE DEF u
<1>3. IsTable(u) /\ UniqueKeys(u) BY <1>1, <1>2, TableWithLog
<1> QED BY <1>3 DEF u

(***************************************************************************)
(* Requests.                                                               *)
(***************************************************************************)

LEMMA CreationRequest ==
    ASSUME NEW q \in AnyRequest, q.op = "create_table"
    PROVE  /\ q.db \in Names /\ q.table \in Names /\ q.schema \in Seq(ColumnSpec)
           /\ q.primary_key \in Seq(Names) /\ q.bucket_count \in Nat \ {0}
BY DEF AnyRequest, DatabaseRequests, CreateTableRequests, TableRequests, LookupRequests,
       ScanParams, ListOffsetsRequests, ProduceRequests

LEMMA ReadRequest ==
    ASSUME NEW q \in AnyRequest, q.op \in Reads
    PROVE  q.keys \in Seq(LookupParams)
BY DEF AnyRequest, DatabaseRequests, CreateTableRequests, TableRequests, LookupRequests,
       ScanParams, ListOffsetsRequests, ProduceRequests, Reads

LEMMA ProduceRequest ==
    ASSUME NEW q \in AnyRequest, q.op = "produce"
    PROVE  q.values \in Seq(Values) /\ q.delete \in BOOLEAN
BY DEF AnyRequest, DatabaseRequests, CreateTableRequests, TableRequests, LookupRequests,
       ScanParams, ListOffsetsRequests, ProduceRequests

\* A table is made as the request describes it, when there is nothing to object to.
LEMMA MadeAsDescribed ==
    ASSUME NEW q \in AnyRequest, q.op = "create_table", ObjectionToTable(q) = {}, NEW r \in Slots,
           NEW t, t = Table(q.db, q.table, Columns(q), q.primary_key, q.bucket_count, {r})
    PROVE  /\ IsTable(t) /\ UniqueKeys(t)
           /\ t.db = q.db /\ t.name = q.table /\ t.by = {r}
           /\ \A j \in DOMAIN q.schema : q.schema[j].data_type \in TypeNames[t.columns[j].type]
<1>1. /\ q.db \in Names /\ q.table \in Names /\ q.schema \in Seq(ColumnSpec)
      /\ q.primary_key \in Seq(Names) /\ q.bucket_count \in Nat \ {0}
      BY CreationRequest
<1>2. /\ \A c \in ToSet(q.schema) : ParseDataType(c.data_type) # {}
      /\ \A i, j \in DOMAIN q.schema : i # j => q.schema[i].name # q.schema[j].name
      /\ ToSet(q.primary_key) \subseteq {c.name : c \in ToSet(q.schema)}
      BY DEF ObjectionToTable
<1>3. ASSUME NEW j \in DOMAIN q.schema
      PROVE  /\ Columns(q)[j] \in [name : Names, type : Types]
             /\ Columns(q)[j].name = q.schema[j].name
             /\ q.schema[j].data_type \in TypeNames[Columns(q)[j].type]
  <2>1. q.schema[j] \in ToSet(q.schema) /\ q.schema[j] \in ColumnSpec
        BY <1>1, LenProperties, ElementOfSeq DEF ToSet
  <2>2. ParseDataType(q.schema[j].data_type) # {} BY <1>2, <2>1
  <2>3. q.schema[j].name \in Names BY <2>1 DEF ColumnSpec
  <2> QED BY <2>2, <2>3 DEF Columns, ParseDataType
<1>4. Columns(q) \in Seq([name : Names, type : Types]) /\ DOMAIN Columns(q) = DOMAIN q.schema
  <2>1. Len(q.schema) \in Nat /\ DOMAIN q.schema = 1..Len(q.schema) BY <1>1, LenProperties
  <2>2. Columns(q) \in [1..Len(q.schema) -> [name : Names, type : Types]]
        BY <1>3, <2>1 DEF Columns
  <2>3. DOMAIN Columns(q) = DOMAIN q.schema BY DEF Columns
  <2> QED BY <2>1, <2>2, <2>3, FunctionInSeq
<1>5. /\ t.columns = Columns(q) /\ t.pk = q.primary_key
      /\ t.db = q.db /\ t.name = q.table /\ t.by = {r}
      BY DEF Table
<1>6. t \in [db : Names, name : Names, columns : Seq([name : Names, type : Types]),
             pk : Seq(Names), by : SUBSET Slots, live : BOOLEAN, log : {t.log}]
      BY <1>1, <1>4 DEF Table
<1>7. \A i, j \in DOMAIN t.columns : t.columns[i].name = t.columns[j].name => i = j
      BY <1>2, <1>3, <1>4, <1>5
<1>8. ToSet(t.pk) \subseteq {c.name : c \in ToSet(t.columns)}
  <2> SUFFICES ASSUME NEW name \in ToSet(q.primary_key)
               PROVE  \E j \in DOMAIN t.columns : name = t.columns[j].name
    <3>1. t.pk = q.primary_key BY <1>5
    <3>2. {c.name : c \in ToSet(t.columns)} = {t.columns[j].name : j \in DOMAIN t.columns}
          BY DEF ToSet
    <3> QED BY <3>1, <3>2
  <2>1. PICK j \in DOMAIN q.schema : name = q.schema[j].name BY <1>2 DEF ToSet
  <2> QED BY <1>3, <1>4, <1>5, <2>1
<1>9. /\ IsSeq(t.log) /\ \A bucket \in ToSet(t.log) : bucket = <<>>
      /\ \A b \in DOMAIN t.log : t.log[b] = <<>>
  <2>1. q.bucket_count \in Nat /\ t.log = [b \in 1..q.bucket_count |-> <<>>]
        BY <1>1 DEF Table
  <2>2. \A n \in Nat : \A s : s = [i \in 1..n |-> <<>>] =>
           IsSeq(s) /\ (\A x \in ToSet(s) : x = <<>>) /\ (\A i \in DOMAIN s : s[i] = <<>>)
        BY ConstantSeq
  <2> QED BY <2>1, <2>2
<1>10. IsTable(t)
  <2>1. IsSeq(<<>>) /\ ToSet(<<>>) = {} BY DEF IsSeq, ToSet
  <2> QED BY <1>6, <1>7, <1>8, <1>9, <2>1 DEF IsTable
<1>11. UniqueKeys(t)
  <2>1. DOMAIN <<>> = {} OBVIOUS
  <2> QED BY <1>9, <2>1 DEF UniqueKeys
<1> QED BY <1>3, <1>5, <1>10, <1>11

(***************************************************************************)
(* Lookups.                                                                *)
(***************************************************************************)

LEMMA KeyIsConverted ==
    ASSUME NEW t, NEW params, NEW key \in LookupKey(t, params), NEW k \in DOMAIN t.pk
    PROVE  /\ t.pk[k] \in DOMAIN params
           /\ key[k] \in JsonToDatum(String(params[t.pk[k]]), t.columns[Column(t, t.pk[k])].type)
<1> DEFINE ds == [l \in DOMAIN t.pk |->
                    IF t.pk[l] \in DOMAIN params
                    THEN JsonToDatum(String(params[t.pk[l]]), t.columns[Column(t, t.pk[l])].type)
                    ELSE {}]
<1>1. (\A l \in DOMAIN ds : ds[l] # {}) /\ key = [l \in DOMAIN ds |-> CHOOSE d \in ds[l] : TRUE]
      BY DEF LookupKey
<1>2. DOMAIN ds = DOMAIN t.pk OBVIOUS
<1>3. ds[k] # {} /\ key[k] \in ds[k] BY <1>1, <1>2
<1> QED BY <1>3

\* A row that is found with a key shows the text that was asked for.
LEMMA RowShowsKey ==
    ASSUME NEW t, IsTable(t), NEW params \in LookupParams, NEW key \in LookupKey(t, params),
           NEW row, Fits(t, row), KeyOf(t, row) = key,
           NEW name \in ToSet(t.pk), t.columns[Column(t, name)].type \in LookupTypes
    PROVE  Written(Shown(t, row, DOMAIN t.columns)[name]) = params[name]
<1>1. PICK k \in DOMAIN t.pk : name = t.pk[k] BY DEF ToSet
<1> DEFINE j == Column(t, name)
<1>2. j \in DOMAIN t.columns /\ t.columns[j].name = name BY <1>1, KeyColumn
<1>3. row[j] = key[k] BY <1>1 DEF KeyOf
<1>4. name \in DOMAIN params /\ row[j] \in JsonToDatum(String(params[name]), t.columns[j].type)
      BY <1>1, <1>3, KeyIsConverted
<1>5. IsText(params[name])
  <2>1. params[name] \in Texts BY <1>4 DEF LookupParams
  <2> QED BY <2>1, TextsAssumption
<1>6. Written(DatumToJson(row[j])) = params[name] BY <1>4, <1>5, TextIsKept
<1>7. j \in DOMAIN row
  <2>1. IsSeq(row) /\ Len(row) = Len(t.columns) BY DEF Fits, IsRow, RowOf
  <2>2. DOMAIN row = 1..Len(row) BY <2>1, SeqOfAnything
  <2>3. DOMAIN t.columns = 1..Len(t.columns) BY LenProperties DEF IsTable
  <2> QED BY <1>2, <2>1, <2>2, <2>3
<1>8. Shown(t, row, DOMAIN t.columns)[name] = DatumToJson(row[j])
  <2>1. name \in {t.columns[i].name : i \in DOMAIN t.columns} BY <1>2
  <2> QED BY <1>7, <2>1 DEF Shown, ToJson
<1> QED BY <1>6, <1>8

\* With unique keys, a lookup finds at most one row.
LEMMA OneRowToAKey ==
    ASSUME NEW t, IsTable(t), UniqueKeys(t), t.pk # <<>>, NEW key,
           NEW found \in SetToSeqs(Places(t, key))
    PROVE  \/ found = <<>>
           \/ \E p \in Places(t, key) : found = <<p>>
<1> DEFINE places == Places(t, key)
<1>1. \A p, q \in places : p = q
  <2> SUFFICES ASSUME NEW p \in places, NEW q \in places PROVE p = q OBVIOUS
  <2>1. /\ p[1] \in DOMAIN t.log /\ p[2] \in DOMAIN t.log[p[1]] /\ p = <<p[1], p[2]>>
        /\ q[1] \in DOMAIN t.log /\ q[2] \in DOMAIN t.log[q[1]] /\ q = <<q[1], q[2]>>
        /\ KeyOf(t, t.log[p[1]][p[2]]) = KeyOf(t, t.log[q[1]][q[2]])
        BY PlaceOfKey
  <2>2. p[1] = q[1] /\ p[2] = q[2] BY <2>1 DEF UniqueKeys
  <2> QED BY <2>1, <2>2
<1>2. found \in [1..Cardinality(places) -> places] BY DEF SetToSeqs
<1> HIDE DEF places
<1>3. CASE places = {}
  <2>1. Cardinality(places) = 0 BY <1>3, FS_EmptySet
  <2>2. DOMAIN found = {} BY <1>2, <2>1
  <2>3. found \in Seq(places) BY <1>2, <2>1, FunctionInSeq
  <2>4. Len(found) = 0 BY <2>2, <2>3, LenProperties
  <2> QED BY <2>3, <2>4, EmptySeq
<1>4. CASE places # {}
  <2>1. PICK p \in places : places = {p} BY <1>1, <1>4
  <2>2. Cardinality(places) = 1 BY <2>1, FS_Singleton
  <2>3. found \in [1..1 -> {p}] BY <1>2, <2>1, <2>2
  <2>4. found = <<p>> BY <2>3
  <2> QED BY <2>4 DEF places
<1> QED BY <1>3, <1>4 DEF places

(***************************************************************************)
(* The inductive invariant.                                                *)
(***************************************************************************)

\* A database or a table is only there with what it is in, and the tables are ones.
Catalogue ==
    /\ databases \subseteq Names
    /\ IsSeq(tables) /\ Len(tables) <= MaxTables
    /\ \A id \in DOMAIN tables :
          /\ IsTable(tables[id]) /\ UniqueKeys(tables[id])
          /\ tables[id].live => tables[id].db \in databases

Calls == {"none", "sent", "ok", "refused", "unpartitioned"}

Fields == {"pc", "req", "table", "carry", "done", "out", "answer"}

IsHandler(h) == DOMAIN h = Fields /\ h = [f \in Fields |-> h[f]]

\* The part of TypeOK for one slot.
Typed(r) ==
    LET h == handler[r]
    IN  /\ IsHandler(h)
        /\ h.pc \in Running \cup {"new", "done", "gone"}
        /\ h.req \in {Idle.req} \cup Requests[r]
        /\ h.pc = "new" \/ h.req \in Requests[r]
        /\ h.table \in 0..Len(tables) /\ h.done \in Nat
        /\ IF h.pc = "done" THEN h.answer \in Answers ELSE h.answer = NoAnswer

\* Only an administrative request or a write makes a call, once it is found good,
\* and waits for its result; until then it has none, and the others never do.
Follows(r) ==
    LET h == handler[r]
    IN  /\ h.pc = "new" => h = Idle /\ call[r] = "none"
        /\ h.pc \in Running \ {"call"} => call[r] = "none"
        /\ call[r] \in {"ok", "refused", "unpartitioned"} => h.pc = "call"
        /\ call[r] # "none" =>
              h.pc # "new" /\ h.req.op \notin Served \ {"produce"} /\ Objection(h.req) = {}
        /\ h.pc = "call" => call[r] # "none"
        /\ call[r] = "unpartitioned" => h.req.op = "list_partitions"
        /\ h.answer.status \in 400..499 => call[r] = "none"

\* A lookup has keys left, and where it has found its table it has converted one.
LooksUp(r) ==
    LET h == handler[r]
    IN  /\ h.pc \in {"table", "read"} /\ h.req.op \in Reads => h.done < Len(h.req.keys)
        /\ h.pc = "read" /\ h.req.op \in Reads =>
              /\ h.table \in DOMAIN tables /\ tables[h.table].pk # <<>>
              /\ h.carry \in LookupKey(tables[h.table], h.req.keys[h.done + 1])

\* The row has the texts of the key that was asked for, as far as a type keeps its text.
Shows(t, row, params) ==
    \A name \in ToSet(t.pk) : t.columns[Column(t, name)].type \in LookupTypes =>
        Written(row[name]) = params[name]

\* The rows found so far answer the keys done so far.
InOrder(r) ==
    LET h == handler[r]
    IN  h.req.op \in Reads =>
          /\ IsSeq(h.out)
          /\ \A i \in DOMAIN h.out : h.out[i].table \in DOMAIN tables
          /\ \E key \in [DOMAIN h.out -> 1..h.done] :
                /\ \A i, j \in DOMAIN h.out : i < j => key[i] < key[j]
                /\ \A i \in DOMAIN h.out :
                      Shows(tables[h.out[i].table], h.out[i].row, h.req.keys[key[i]])

\* The row of a produce request, and once it is sent, that it fits its table.
Writes(r) ==
    LET h == handler[r]
    IN  h.req.op = "produce" =>
          /\ h.pc = "open" => IsRow(h.carry)
          /\ call[r] = "sent" => h.table \in DOMAIN tables /\ Fits(tables[h.table], h.carry)

\* Whatever a request has made is what it asked for, and the call has been executed.
Makes(r) ==
    LET h == handler[r]
    IN  \A id \in DOMAIN tables : tables[id].by = {r} =>
          /\ h.pc # "new" /\ h.req.op = "create_table"
          /\ call[r] # "sent" /\ h.answer.status \notin 400..499
          /\ tables[id].db = h.req.db /\ tables[id].name = h.req.table
          /\ \A j \in DOMAIN h.req.schema :
                h.req.schema[j].data_type \in TypeNames[tables[id].columns[j].type]
          /\ \A other \in DOMAIN tables : tables[other].by = {r} => other = id

\* A creation that has been executed without an error has led to a table.
Made(r) ==
    LET h == handler[r]
    IN  h.req.op = "create_table" /\ (call[r] = "ok" \/ Succeeded(r)) =>
          \E id \in DOMAIN tables :
             /\ tables[id].db = h.req.db /\ tables[id].name = h.req.table
             /\ tables[id].by = {r} \/ h.req.ignore_if_exists

Undisturbed(r) ==
    Typed(r) /\ Follows(r) /\ LooksUp(r) /\ InOrder(r) /\ Writes(r) /\ Makes(r) /\ Made(r)

IInv ==
    /\ Catalogue
    /\ DOMAIN handler = Slots /\ call \in [Slots -> Calls]
    /\ \A r \in Slots : Undisturbed(r)

LEMMA TypeOKInv == ASSUME IInv PROVE TypeOK
<1>1. ASSUME NEW t \in ToSet(tables) PROVE IsTable(t) /\ (t.live => t.db \in databases)
      BY <1>1 DEF IInv, Catalogue, ToSet
<1>2. ASSUME NEW r \in Slots
      PROVE  LET h == handler[r] IN
             /\ h \in [pc : Running \cup {"new", "done", "gone"}, req : {Idle.req} \cup Requests[r],
                       table : 0..Len(tables), carry : {h.carry}, done : Nat, out : {h.out},
                       answer : Answers \cup {NoAnswer}]
             /\ h.pc = "new" \/ h.req \in Requests[r]
             /\ IF h.pc = "done" THEN h.answer \in Answers ELSE h.answer = NoAnswer
             /\ h.answer.error_code # 0 => h.answer.error_code \div 100 = h.answer.status
  <2> DEFINE h == handler[r]
  <2>1. Typed(r) BY DEF IInv, Undisturbed
  <2>2. h.answer \in Answers \cup {NoAnswer} BY <2>1 DEF Typed
  <2>3. \A e \in Errors : ErrorCode[e] \div 100 = StatusCode[e]
        BY DEF Errors, ErrorCode, StatusCode
  <2>4. h.answer.error_code # 0 => h.answer.error_code \div 100 = h.answer.status
        BY <2>2, <2>3 DEF Answers, NoAnswer, IntoResponse, Success
  <2>5. h \in [pc : Running \cup {"new", "done", "gone"}, req : {Idle.req} \cup Requests[r],
               table : 0..Len(tables), carry : {h.carry}, done : Nat, out : {h.out},
               answer : Answers \cup {NoAnswer}]
        BY <2>1, <2>2 DEF Typed, IsHandler, Fields
  <2> QED BY <2>1, <2>4, <2>5 DEF Typed
<1>3. call \in [Slots -> {"none", "sent", "ok", "refused", "unpartitioned"}]
      BY DEF IInv, Calls
<1> QED BY <1>1, <1>2, <1>3 DEF IInv, Catalogue, TypeOK

LEMMA RequestOf ==
    ASSUME NEW r \in Slots, NEW q \in Requests[r]
    PROVE  q \in AnyRequest
BY RequestsAssumption

\* Nothing but its path and its schema says which rows fit a table, and which keys
\* lead to them.
LEMMA SameSchema ==
    ASSUME NEW t, NEW u, u.columns = t.columns, u.pk = t.pk
    PROVE  /\ \A name : Column(u, name) = Column(t, name)
           /\ \A row : Fits(u, row) <=> Fits(t, row)
           /\ \A params : LookupKey(u, params) = LookupKey(t, params)
           /\ \A row, params : Shows(u, row, params) <=> Shows(t, row, params)
<1>1. \A name : Column(u, name) = Column(t, name) BY DEF Column
<1>2. \A row : KeyOf(u, row) = KeyOf(t, row) BY <1>1 DEF KeyOf
<1>3. \A row : Fits(u, row) <=> Fits(t, row) BY <1>2 DEF Fits, RowOf
<1>4. ASSUME NEW params PROVE LookupKey(u, params) = LookupKey(t, params)
  <2> DEFINE ds(x) == [k \in DOMAIN x.pk |->
                         IF x.pk[k] \in DOMAIN params
                         THEN JsonToDatum(String(params[x.pk[k]]),
                                          x.columns[Column(x, x.pk[k])].type)
                         ELSE {}]
         key(d) == IF \E k \in DOMAIN d : d[k] = {} THEN {}
                   ELSE {[k \in DOMAIN d |-> CHOOSE x \in d[k] : TRUE]}
  <2>1. ds(u) = ds(t) BY <1>1
  <2>2. LookupKey(u, params) = key(ds(u)) /\ LookupKey(t, params) = key(ds(t)) BY DEF LookupKey
  <2> HIDE DEF ds, key
  <2> QED BY <2>1, <2>2
<1>5. \A row, params : Shows(u, row, params) <=> Shows(t, row, params) BY <1>1 DEF Shows
<1> QED BY <1>1, <1>3, <1>4, <1>5

(***************************************************************************)
(* Steps that leave a slot alone.                                          *)
(***************************************************************************)

\* Tables come to exist; none is forgotten, and none changes its path or its schema.
Grows ==
    /\ DOMAIN tables \subseteq DOMAIN tables' /\ Len(tables) <= Len(tables')
    /\ Len(tables) \in Nat /\ Len(tables') \in Nat
    /\ \A id \in DOMAIN tables :
          /\ tables'[id].db = tables[id].db /\ tables'[id].name = tables[id].name
          /\ tables'[id].columns = tables[id].columns /\ tables'[id].pk = tables[id].pk
          /\ tables'[id].by = tables[id].by

\* For a slot whose handler and call stay, and which makes no table.
LEMMA OthersKeep ==
    ASSUME NEW s \in Slots, Undisturbed(s), Grows,
           handler'[s] = handler[s], call'[s] = call[s],
           \A id \in DOMAIN tables' \ DOMAIN tables : tables'[id].by # {s}
    PROVE  Undisturbed(s)'
<1> DEFINE h == handler[s]
<1>1. /\ \A id \in DOMAIN tables : \A row, params :
            Shows(tables'[id], row, params) <=> Shows(tables[id], row, params)
      /\ \A id \in DOMAIN tables : \A row : Fits(tables'[id], row) <=> Fits(tables[id], row)
      /\ \A id \in DOMAIN tables : \A params :
            LookupKey(tables'[id], params) = LookupKey(tables[id], params)
      BY SameSchema DEF Grows
<1>2. Typed(s)' BY DEF Undisturbed, Typed, Grows
<1>3. Follows(s)' BY DEF Undisturbed, Follows
<1>4. LooksUp(s)' BY <1>1 DEF Undisturbed, LooksUp, Grows
<1>5. InOrder(s)'
  <2> SUFFICES ASSUME h.req.op \in Reads PROVE InOrder(s)' BY DEF InOrder
  <2>1. IsSeq(h.out) /\ \A i \in DOMAIN h.out : h.out[i].table \in DOMAIN tables
        BY DEF Undisturbed, InOrder
  <2>2. PICK key \in [DOMAIN h.out -> 1..h.done] :
           /\ \A i, j \in DOMAIN h.out : i < j => key[i] < key[j]
           /\ \A i \in DOMAIN h.out :
                 Shows(tables[h.out[i].table], h.out[i].row, h.req.keys[key[i]])
        BY DEF Undisturbed, InOrder
  <2>3. \A i \in DOMAIN h.out :
           Shows(tables'[h.out[i].table], h.out[i].row, h.req.keys[key[i]])
        BY <1>1, <2>1, <2>2 DEF Grows
  <2>4. \A i \in DOMAIN h.out : h.out[i].table \in DOMAIN tables' BY <2>1 DEF Grows
  <2>5. \E k \in [DOMAIN h.out -> 1..h.done] :
           /\ \A i, j \in DOMAIN h.out : i < j => k[i] < k[j]
           /\ \A i \in DOMAIN h.out :
                 Shows(tables'[h.out[i].table], h.out[i].row, h.req.keys[k[i]])
        BY <2>2, <2>3
  <2> QED BY <2>1, <2>4, <2>5 DEF InOrder
<1>6. Writes(s)' BY <1>1 DEF Undisturbed, Writes, Grows
<1>7. Makes(s)'
  <2>1. \A id \in DOMAIN tables' : tables'[id].by = {s} =>
           id \in DOMAIN tables /\ tables[id].by = {s}
        BY DEF Grows
  <2>2. ASSUME NEW id \in DOMAIN tables', tables'[id].by = {s}
        PROVE  /\ h.pc # "new" /\ h.req.op = "create_table"
               /\ call[s] # "sent" /\ h.answer.status \notin 400..499
               /\ tables'[id].db = h.req.db /\ tables'[id].name = h.req.table
               /\ \A j \in DOMAIN h.req.schema :
                     h.req.schema[j].data_type \in TypeNames[tables'[id].columns[j].type]
               /\ \A other \in DOMAIN tables' : tables'[other].by = {s} => other = id
    <3>1. id \in DOMAIN tables /\ tables[id].by = {s} BY <2>1, <2>2
    <3>2. /\ h.pc # "new" /\ h.req.op = "create_table"
          /\ call[s] # "sent" /\ h.answer.status \notin 400..499
          /\ tables[id].db = h.req.db /\ tables[id].name = h.req.table
          /\ \A j \in DOMAIN h.req.schema :
                h.req.schema[j].data_type \in TypeNames[tables[id].columns[j].type]
          /\ \A other \in DOMAIN tables : tables[other].by = {s} => other = id
          BY <3>1 DEF Undisturbed, Makes
    <3>3. /\ tables'[id].db = tables[id].db /\ tables'[id].name = tables[id].name
          /\ tables'[id].columns = tables[id].columns
          BY <3>1 DEF Grows
    <3> QED BY <2>1, <3>2, <3>3
  <2> QED BY <2>2 DEF Makes
<1>8. Made(s)' BY DEF Undisturbed, Made, Succeeded, Grows
<1> QED BY <1>2, <1>3, <1>4, <1>5, <1>6, <1>7, <1>8 DEF Undisturbed

LEMMA NothingGrows ==
    ASSUME Catalogue, UNCHANGED catalogue
    PROVE  Grows /\ Catalogue' /\ tables' = tables
<1>1. Len(tables) \in Nat BY SeqOfAnything DEF Catalogue
<1> QED BY <1>1 DEF Catalogue, catalogue, Grows

\* A step of a handler: the catalogue stays, and so do the other slots.
LEMMA HandlerStep ==
    ASSUME IInv, NEW r \in Slots, UNCHANGED catalogue,
           DOMAIN handler' = Slots, call' \in [Slots -> Calls],
           \A s \in Slots \ {r} : handler'[s] = handler[s] /\ call'[s] = call[s],
           Undisturbed(r)'
    PROVE  IInv'
<1>1. Grows /\ Catalogue' /\ tables' = tables BY NothingGrows DEF IInv
<1>2. ASSUME NEW s \in Slots PROVE Undisturbed(s)'
  <2>1. CASE s = r BY <2>1
  <2>2. CASE s # r
    <3>1. \A id \in DOMAIN tables' \ DOMAIN tables : tables'[id].by # {s} BY <1>1
    <3> QED BY <1>1, <2>2, <3>1, OthersKeep DEF IInv
  <2> QED BY <2>1, <2>2
<1> QED BY <1>1, <1>2 DEF IInv

\* The fields of a handler that goes on.
LEMMA Went ==
    ASSUME IInv, NEW r \in Slots, NEW new, Goes(r, new)
    PROVE  /\ DOMAIN handler' = Slots /\ IsHandler(handler'[r])
           /\ \A s \in Slots \ {r} : handler'[s] = handler[s]
           /\ \A f \in Fields :
                 handler'[r][f] = IF f \in DOMAIN new THEN new[f] ELSE handler[r][f]
<1>1. DOMAIN handler = Slots /\ IsHandler(handler[r]) BY DEF IInv, Undisturbed, Typed
<1>2. /\ DOMAIN handler' = Slots /\ handler'[r] = With(handler[r], new)
      /\ \A s \in Slots \ {r} : handler'[s] = handler[s]
      BY <1>1 DEF Goes
<1>3. handler'[r] = [f \in Fields |-> IF f \in DOMAIN new THEN new[f] ELSE handler[r][f]]
      BY <1>1, <1>2 DEF With, IsHandler
<1> QED BY <1>2, <1>3 DEF IsHandler

(***************************************************************************)
(* Steps of handlers.                                                      *)
(***************************************************************************)

\* A step of a request for a table, which goes on without a call or is answered.
LEMMA Advance ==
    ASSUME IInv, NEW r \in Slots, UNCHANGED <<catalogue, call>>,
           handler[r].pc \in Running \ {"call"}, handler[r].req.op \in Served,
           NEW new, Goes(r, new), DOMAIN new \subseteq Fields \ {"req"},
           handler'[r].pc \in (Running \ {"call"}) \cup {"done"},
           handler'[r].table \in 0..Len(tables), handler'[r].done \in Nat,
           handler'[r].answer = IF handler'[r].pc = "done" THEN Success(200) ELSE NoAnswer,
           LooksUp(r)', InOrder(r)', Writes(r)'
    PROVE  IInv'
<1> DEFINE h == handler[r]
           g == handler'[r]
<1>1. /\ DOMAIN handler' = Slots /\ IsHandler(g)
      /\ \A s \in Slots \ {r} : handler'[s] = handler[s]
      /\ g.req = h.req
      BY Went DEF Fields
<1>2. Undisturbed(r) /\ call \in [Slots -> Calls] /\ Catalogue BY DEF IInv
<1>3. call[r] = "none" /\ h.req \in Requests[r] /\ call' = call /\ tables' = tables
      BY <1>2 DEF Undisturbed, Typed, Follows, Running, catalogue
<1>4. Success(200) \in Answers /\ Success(200).status = 200 /\ NoAnswer.status = 0
      BY DEF Answers, Success, NoAnswer
<1>5. Typed(r)' BY <1>1, <1>3, <1>4 DEF Typed
<1>6. Follows(r)' BY <1>1, <1>3, <1>4 DEF Follows, Running
<1>7. h.req.op # "create_table" BY DEF Served
<1>8. Makes(r)' BY <1>2, <1>3, <1>7 DEF Undisturbed, Makes
<1>9. Made(r)' BY <1>1, <1>7 DEF Made
<1> QED BY <1>1, <1>2, <1>3, <1>5, <1>6, <1>8, <1>9, HandlerStep DEF Undisturbed

\* The end of a request: it is answered, or its client has left.  Only a request that
\* makes no call is blamed, and no creation succeeds unless its call has.
LEMMA Ended ==
    ASSUME IInv, NEW r \in Slots, UNCHANGED catalogue, handler[r].pc \in Running,
           NEW pc, NEW answer, NEW new, Ends(r, new),
           \/ pc = "gone" /\ answer = NoAnswer /\ new = [pc |-> pc]
           \/ pc = "done" /\ answer \in Answers /\ new = [pc |-> pc, answer |-> answer],
           answer.status \in 400..499 => handler[r].req.op \in Served /\ call[r] = "none",
           answer.status \in {200, 201, 204} =>
               call[r] = "ok" \/ handler[r].req.op # "create_table"
    PROVE  IInv'
<1> DEFINE h == handler[r]
           g == handler'[r]
           kept == IF call[r] = "sent" THEN h ELSE [Idle EXCEPT !.req = h.req]
<1>1. /\ Catalogue /\ DOMAIN handler = Slots /\ call \in [Slots -> Calls]
      /\ Typed(r) /\ Follows(r) /\ InOrder(r) /\ Writes(r) /\ Makes(r) /\ Made(r)
      BY DEF IInv, Undisturbed
<1>2. IsHandler(h) /\ h.req \in Requests[r] /\ h.answer = NoAnswer
      BY <1>1 DEF Typed, Running
<1>3. tables' = tables BY DEF catalogue
<1>4. /\ DOMAIN kept = Fields /\ kept.req = h.req /\ kept.answer = NoAnswer
      /\ call[r] = "sent" => kept = h
      /\ call[r] # "sent" => /\ kept.table = 0 /\ kept.carry = <<>> /\ kept.done = 0
                             /\ kept.out = <<>>
      BY <1>2 DEF IsHandler, Fields, Idle
<1>5. /\ DOMAIN handler' = Slots /\ g = With(kept, new)
      /\ \A s \in Slots \ {r} : handler'[s] = handler[s] /\ call'[s] = call[s]
      /\ call' \in [Slots -> Calls]
      /\ call'[r] = IF call[r] = "sent" THEN "sent" ELSE "none"
  <2>1. handler' = [handler EXCEPT ![r] = With(kept, new)] BY DEF Ends
  <2>2. call' = [call EXCEPT ![r] = IF call[r] = "sent" THEN "sent" ELSE "none"] BY <1>1 DEF Ends
  <2> HIDE DEF kept
  <2>3. /\ DOMAIN handler' = Slots /\ g = With(kept, new)
        /\ \A s \in Slots \ {r} : handler'[s] = handler[s]
        BY <1>1, <2>1
  <2>4. /\ call' \in [Slots -> Calls]
        /\ call'[r] = IF call[r] = "sent" THEN "sent" ELSE "none"
        /\ \A s \in Slots \ {r} : call'[s] = call[s]
        BY <1>1, <2>2 DEF Calls
  <2> QED BY <2>3, <2>4
<1> HIDE DEF kept
<1>6. g = [f \in Fields |-> IF f \in DOMAIN new THEN new[f] ELSE kept[f]]
      BY <1>4, <1>5 DEF With
<1>7. /\ IsHandler(g) /\ g.pc = pc /\ g.answer = answer /\ g.req = h.req
      /\ g.table = kept.table /\ g.carry = kept.carry /\ g.done = kept.done /\ g.out = kept.out
  <2>1. IsHandler(g) BY <1>6 DEF IsHandler
  <2>2. g.req = kept.req /\ g.table = kept.table /\ g.carry = kept.carry /\ g.done = kept.done
        /\ g.out = kept.out
    <3>1. \A f \in Fields \ {"pc", "answer"} : f \notin DOMAIN new OBVIOUS
    <3> QED BY <1>6, <3>1 DEF Fields
  <2>3. g.pc = pc
    <3>1. "pc" \in DOMAIN new /\ new["pc"] = pc OBVIOUS
    <3> QED BY <1>6, <3>1 DEF Fields
  <2>4. g.answer = answer
    <3>1. IF "answer" \in DOMAIN new THEN new["answer"] = answer ELSE answer = NoAnswer OBVIOUS
    <3> QED BY <1>4, <1>6, <3>1 DEF Fields
  <2> QED BY <1>4, <2>1, <2>2, <2>3, <2>4
<1>8. Typed(r)'
  <2>1. g.table \in 0..Len(tables) /\ g.done \in Nat
    <3>1. Len(tables) \in Nat BY <1>1, SeqOfAnything DEF Catalogue
    <3>2. h.table \in 0..Len(tables) /\ h.done \in Nat BY <1>1 DEF Typed
    <3>3. CASE call[r] = "sent" BY <1>4, <1>7, <3>2, <3>3
    <3>4. CASE call[r] # "sent"
      <4>1. g.table = 0 /\ g.done = 0 BY <1>4, <1>7, <3>4
      <4> QED BY <3>1, <4>1
    <3> QED BY <3>3, <3>4
  <2> QED BY <1>2, <1>3, <1>5, <1>7, <2>1 DEF Typed
<1>9. Follows(r)' BY <1>1, <1>5, <1>7 DEF Follows, Running
<1>10. LooksUp(r)' BY <1>7 DEF LooksUp
<1>11. InOrder(r)'
  <2>1. CASE call[r] = "sent"
        BY <1>1, <1>3, <1>4, <1>7, <2>1 DEF InOrder
  <2>2. CASE call[r] # "sent"
    <3>1. IsSeq(<<>>) /\ DOMAIN <<>> = {} BY DEF IsSeq, ToSet
    <3>2. [i \in {} |-> 1] \in [{} -> 1..g.done] OBVIOUS
    <3> QED BY <1>4, <1>7, <2>2, <3>1, <3>2 DEF InOrder
  <2> QED BY <2>1, <2>2
<1>12. Writes(r)'
  <2>1. CASE call[r] = "sent"
    <3>1. /\ g.req = h.req /\ g.table = h.table /\ g.carry = h.carry /\ g.pc = pc /\ pc # "open"
          BY <1>4, <1>7, <2>1
    <3> QED BY <1>1, <1>3, <2>1, <3>1 DEF Writes
  <2>2. CASE call[r] # "sent"
    <3>1. g.pc # "open" /\ call'[r] # "sent" BY <1>5, <1>7, <2>2
    <3> QED BY <3>1 DEF Writes
  <2> QED BY <2>1, <2>2
<1>13. Makes(r)'
  <2>1. ASSUME NEW id \in DOMAIN tables, tables[id].by = {r} PROVE answer.status \notin 400..499
        BY <1>1, <2>1 DEF Makes, Served
  <2> QED BY <1>1, <1>3, <1>5, <1>7, <2>1 DEF Makes
<1>14. Made(r)' BY <1>1, <1>3, <1>5, <1>7 DEF Made, Succeeded
<1> QED BY <1>5, <1>8, <1>9, <1>10, <1>11, <1>12, <1>13, <1>14, HandlerStep DEF Undisturbed

LEMMA AnswersHaveStatus ==
    /\ \A n \in {200, 201, 204} : Success(n) \in Answers /\ Success(n).status = n
    /\ \A e \in Errors : IntoResponse(e) \in Answers /\ IntoResponse(e).status = StatusCode[e]
    /\ Errors = {"BadRequest", "Unauthorized", "BodyLimitTooLarge", "InvalidOperation",
                 "FlussError", "Internal"}
BY DEF Answers, Success, IntoResponse, Errors, StatusCode

\* A request of the API fails with an error that blames no one else for it.
LEMMA Failed ==
    ASSUME IInv, NEW r \in Slots, UNCHANGED catalogue, handler[r].pc \in Running,
           NEW e \in Errors, Fail(r, e),
           StatusCode[e] < 500 => handler[r].req.op \in Served /\ call[r] = "none"
    PROVE  IInv'
<1> DEFINE answer == IntoResponse(e)
<1>1. answer \in Answers /\ answer.status = StatusCode[e] /\ answer.status >= 400
      BY AnswersHaveStatus DEF StatusCode
<1>2. Ends(r, [pc |-> "done", answer |-> answer]) BY DEF Fail, Reply
<1> HIDE DEF answer
<1>3. /\ answer.status \in 400..499 => handler[r].req.op \in Served /\ call[r] = "none"
      /\ answer.status \notin {200, 201, 204}
      BY <1>1
<1> QED BY <1>1, <1>2, <1>3, Ended

LEMMA ReceiveInv == ASSUME IInv, NEW r \in Slots, NEW q \in Requests[r], Receive(r, q) PROVE IInv'
<1> DEFINE h == handler[r]
           g == handler'[r]
<1>1. /\ Undisturbed(r) /\ call \in [Slots -> Calls] /\ h = Idle /\ call[r] = "none"
      /\ \A id \in DOMAIN tables : tables[id].by # {r}
  <2>1. Undisturbed(r) /\ call \in [Slots -> Calls] BY DEF IInv
  <2>2. Follows(r) /\ Makes(r) BY <2>1 DEF Undisturbed
  <2>3. h.pc = "new" BY DEF Receive
  <2>4. h = Idle /\ call[r] = "none" BY <2>2, <2>3 DEF Follows
  <2>5. \A id \in DOMAIN tables : tables[id].by # {r} BY <2>2, <2>3 DEF Makes
  <2> QED BY <2>1, <2>4, <2>5
<1>2. tables' = tables /\ UNCHANGED catalogue /\ q \in AnyRequest
      BY RequestOf DEF Receive, catalogue
<1>3. h.table = 0 /\ h.done = 0 /\ h.out = <<>> /\ h.answer = NoAnswer /\ NoAnswer.status = 0
      BY <1>1 DEF Idle, NoAnswer
<1>4. ASSUME NEW new, Goes(r, new), DOMAIN new \subseteq {"req", "pc", "answer"},
             g.req = q, g.pc \in {"done", "table", "call"},
             IF g.pc = "done" THEN g.answer \in Answers ELSE g.answer = NoAnswer,
             g.answer.status \in {200, 201, 204} => q.op \in Reads,
             IF g.pc = "call" THEN call' = [call EXCEPT ![r] = "sent"] ELSE call' = call,
             g.pc = "call" => q.op \notin Served /\ Objection(q) = {},
             g.pc = "table" /\ q.op \in Reads => q.keys # <<>>
      PROVE  IInv'
  <2>1. /\ DOMAIN handler' = Slots /\ IsHandler(g)
        /\ \A s \in Slots \ {r} : handler'[s] = handler[s]
        /\ g.table = 0 /\ g.done = 0 /\ g.out = <<>>
        BY <1>3, <1>4, Went DEF Fields
  <2>2. /\ call' \in [Slots -> Calls] /\ \A s \in Slots \ {r} : call'[s] = call[s]
        /\ call'[r] = IF g.pc = "call" THEN "sent" ELSE "none"
        BY <1>1, <1>4 DEF Calls
  <2>3. Typed(r)'
    <3>1. Len(tables) \in Nat BY SeqOfAnything DEF IInv, Catalogue
    <3> QED BY <1>2, <1>4, <2>1, <3>1 DEF Typed, Running
  <2>4. Follows(r)'
    <3>1. g.pc # "new" /\ (g.pc = "call" => g.answer.status = 0) BY <1>3, <1>4
    <3>2. CASE g.pc = "call"
      <4>1. /\ call'[r] = "sent" /\ g.req = q /\ q.op \notin Served /\ Objection(q) = {}
            /\ g.answer.status \notin 400..499
            BY <1>4, <2>2, <3>1, <3>2
      <4> QED BY <3>2, <4>1 DEF Follows, Running
    <3>3. CASE g.pc # "call" BY <1>4, <2>1, <2>2, <3>1, <3>3 DEF Follows, Running
    <3> QED BY <3>2, <3>3
  <2>5. LooksUp(r)'
    <3> SUFFICES ASSUME g.pc = "table", q.op \in Reads PROVE 0 < Len(q.keys)
        BY <1>4, <2>1 DEF LooksUp
    <3>1. q.keys \in Seq(LookupParams) /\ q.keys # <<>> BY <1>2, <1>4, ReadRequest
    <3> QED BY <3>1, EmptySeq, LenProperties
  <2>6. InOrder(r)'
    <3>1. IsSeq(<<>>) /\ DOMAIN <<>> = {} BY DEF IsSeq, ToSet
    <3>2. [i \in {} |-> 1] \in [{} -> 1..g.done] OBVIOUS
    <3> QED BY <2>1, <3>1, <3>2 DEF InOrder
  <2>7. Writes(r)' BY <1>4, <2>2 DEF Writes, Served
  <2>8. Makes(r)' BY <1>1, <1>2 DEF Makes
  <2>9. Made(r)' BY <1>4, <2>2 DEF Made, Succeeded, Reads
  <2> QED BY <1>2, <2>1, <2>2, <2>3, <2>4, <2>5, <2>6, <2>7, <2>8, <2>9, HandlerStep
          DEF Undisturbed
<1> DEFINE answered(answer) == [req |-> q, pc |-> "done", answer |-> answer]
<1>5. CASE /\ \E e \in Objection(q) : Goes(r, answered(IntoResponse(e)))
           /\ UNCHANGED call
  <2>1. PICK e \in Objection(q) : Goes(r, answered(IntoResponse(e))) BY <1>5
  <2>2. e \in Errors
        BY DEF Objection, ObjectionToTable, ObjectionToOffsets, Errors, StatusCode
  <2>3. IntoResponse(e) \in Answers /\ IntoResponse(e).status \notin {200, 201, 204}
        BY <2>2, AnswersHaveStatus DEF StatusCode
  <2> DEFINE answer == IntoResponse(e)
             new == [req |-> q, pc |-> "done", answer |-> answer]
  <2>4. DOMAIN new = {"req", "pc", "answer"} /\ new["req"] = q /\ new["pc"] = "done"
        /\ new["answer"] = answer
        OBVIOUS
  <2>5. Goes(r, new) BY <2>1
  <2> HIDE DEF answer, new
  <2>6. g.req = q /\ g.pc = "done" /\ g.answer = answer BY <2>4, <2>5, Went DEF Fields
  <2> QED BY <1>4, <1>5, <2>3, <2>4, <2>5, <2>6 DEF answer
<1>6. CASE /\ q.op \in Reads /\ q.keys = <<>>
           /\ Goes(r, answered(Success(200)))
           /\ UNCHANGED call
  <2> DEFINE answer == Success(200)
             new == [req |-> q, pc |-> "done", answer |-> answer]
  <2>1. DOMAIN new = {"req", "pc", "answer"} /\ new["req"] = q /\ new["pc"] = "done"
        /\ new["answer"] = answer
        OBVIOUS
  <2>2. Goes(r, new) BY <1>6
  <2>3. answer \in Answers BY AnswersHaveStatus
  <2> HIDE DEF answer, new
  <2>4. g.req = q /\ g.pc = "done" /\ g.answer = answer BY <2>1, <2>2, Went DEF Fields
  <2> QED BY <1>4, <1>6, <2>1, <2>2, <2>3, <2>4
<1> DEFINE goes(pc) == [req |-> q, pc |-> pc]
<1>7. ASSUME NEW pc, Goes(r, goes(pc))
      PROVE  DOMAIN goes(pc) \subseteq {"req", "pc", "answer"} /\ g.req = q /\ g.pc = pc
             /\ g.answer = NoAnswer
  <2> DEFINE new == goes(pc)
  <2>1. DOMAIN new = {"req", "pc"} /\ new["req"] = q /\ new["pc"] = pc OBVIOUS
  <2>2. Goes(r, new) BY <1>7
  <2> HIDE DEF new
  <2>3. g.req = q /\ g.pc = pc /\ g.answer = NoAnswer BY <1>3, <2>1, <2>2, Went DEF Fields
  <2> QED BY <2>1, <2>3 DEF new
<1>8. CASE /\ q.op \in Served
           /\ q.op \in Reads => q.keys # <<>>
           /\ Goes(r, goes("table"))
           /\ UNCHANGED call
  <2> DEFINE new == goes("table")
  <2>1. Goes(r, new) /\ DOMAIN new \subseteq {"req", "pc", "answer"} BY <1>7, <1>8
  <2>2. g.req = q /\ g.pc = "table" /\ g.answer = NoAnswer BY <1>7, <1>8
  <2> HIDE DEF new
  <2> QED BY <1>3, <1>4, <1>8, <2>1, <2>2
<1>9. CASE /\ Objection(q) = {} /\ q.op \notin Served
           /\ Goes(r, goes("call"))
           /\ call' = [call EXCEPT ![r] = "sent"]
  <2> DEFINE new == goes("call")
  <2>1. Goes(r, new) /\ DOMAIN new \subseteq {"req", "pc", "answer"} BY <1>7, <1>9
  <2>2. g.req = q /\ g.pc = "call" /\ g.answer = NoAnswer BY <1>7, <1>9
  <2> HIDE DEF new
  <2> QED BY <1>3, <1>4, <1>9, <2>1, <2>2
<1> QED BY <1>5, <1>6, <1>8, <1>9 DEF Receive

LEMMA TableInfoInv == ASSUME IInv, NEW r \in Slots, TableInfo(r) PROVE IInv'
<1> DEFINE answer == Success(200)
<1>1. answer \in Answers /\ answer.status = 200 BY AnswersHaveStatus
<1>2. /\ Ends(r, [pc |-> "done", answer |-> answer]) /\ UNCHANGED catalogue
      /\ handler[r].pc \in Running /\ handler[r].req.op # "create_table"
      BY DEF TableInfo, Reply, At, Running
<1> HIDE DEF answer
<1>3. answer.status \notin 400..499 BY <1>1
<1> QED BY <1>1, <1>2, <1>3, Ended

LEMMA AnswerInv == ASSUME IInv, NEW r \in Slots, Answer(r) PROVE IInv'
<1>1. UNCHANGED catalogue /\ handler[r].pc \in Running BY DEF Answer, Running
<1>2. CASE call[r] \in {"ok", "unpartitioned"} /\ Reply(r, Success(Done(handler[r].req.op)))
  <2> DEFINE n == Done(handler[r].req.op)
             answer == Success(n)
  <2>1. n \in {200, 201, 204} BY DEF Done
  <2> HIDE DEF n
  <2>2. answer \in Answers /\ answer.status = n BY <2>1, AnswersHaveStatus
  <2>3. Ends(r, [pc |-> "done", answer |-> answer]) BY <1>2 DEF Reply, n
  <2> HIDE DEF answer
  <2>4. call[r] = "ok" \/ handler[r].req.op # "create_table"
        BY <1>2 DEF IInv, Undisturbed, Follows
  <2>5. answer.status \notin 400..499 BY <2>1, <2>2
  <2> QED BY <1>1, <2>2, <2>3, <2>4, <2>5, Ended
<1>3. CASE Fail(r, "FlussError")
  <2>1. "FlussError" \in Errors /\ ~(StatusCode["FlussError"] < 500)
        BY AnswersHaveStatus DEF StatusCode
  <2> QED BY <1>1, <1>3, <2>1, Failed
<1> QED BY <1>2, <1>3 DEF Answer

LEMMA CallFailsInv == ASSUME IInv, NEW r \in Slots, CallFails(r) PROVE IInv'
<1>1. "FlussError" \in Errors /\ ~(StatusCode["FlussError"] < 500)
      BY AnswersHaveStatus DEF StatusCode
<1> QED BY <1>1, Failed DEF CallFails

LEMMA ClientLeavesInv == ASSUME IInv, NEW r \in Slots, ClientLeaves(r) PROVE IInv'
<1>1. NoAnswer.status = 0 BY DEF NoAnswer
<1> QED BY <1>1, Ended DEF ClientLeaves

\* What a step leaves of the rows of a lookup is still in the order of its keys.
LEMMA OrderKept ==
    ASSUME NEW r, InOrder(r), tables' = tables, handler'[r].req = handler[r].req,
           handler'[r].out = handler[r].out, handler'[r].done = handler[r].done
    PROVE  InOrder(r)'
BY DEF InOrder

LEMMA StartLookupInv == ASSUME IInv, NEW r \in Slots, StartLookup(r) PROVE IInv'
<1> DEFINE h == handler[r]
           g == handler'[r]
<1>1. /\ UNCHANGED <<catalogue, call>> /\ tables' = tables
      /\ h.pc = "table" /\ h.req.op \in Reads /\ h.req.op \in Served
      BY DEF StartLookup, At, catalogue, Reads, Served
<1>2. /\ h.pc \in Running \ {"call"} /\ h.pc \in Running /\ call[r] = "none"
      /\ LooksUp(r) /\ InOrder(r)
      BY <1>1 DEF IInv, Undisturbed, Follows, Running
<1>3. PICK id \in Found(r) :
         LET t    == tables[id]
             keys == LookupKey(t, h.req.keys[h.done + 1])
         IN  IF t.pk = <<>> THEN Fail(r, "InvalidOperation")
             ELSE IF keys = {} THEN Fail(r, "BadRequest")
             ELSE \E key \in keys : Goes(r, [pc |-> "read", table |-> id, carry |-> key])
      BY DEF StartLookup
<1>4. CASE Fail(r, "InvalidOperation") \/ Fail(r, "BadRequest")
  <2>1. {"InvalidOperation", "BadRequest"} \subseteq Errors BY AnswersHaveStatus
  <2> QED BY <1>1, <1>2, <1>4, <2>1, Failed
<1>5. CASE /\ tables[id].pk # <<>>
           /\ \E key \in LookupKey(tables[id], h.req.keys[h.done + 1]) :
                 Goes(r, [pc |-> "read", table |-> id, carry |-> key])
  <2>1. PICK key \in LookupKey(tables[id], h.req.keys[h.done + 1]) :
           Goes(r, [pc |-> "read", table |-> id, carry |-> key])
        BY <1>5
  <2> DEFINE new == [pc |-> "read", table |-> id, carry |-> key]
  <2>2. DOMAIN new = {"pc", "table", "carry"} /\ new["pc"] = "read" /\ new["table"] = id
        /\ new["carry"] = key
        OBVIOUS
  <2>3. Goes(r, new) BY <2>1
  <2> HIDE DEF new
  <2>4. /\ g.pc = "read" /\ g.table = id /\ g.carry = key /\ g.req = h.req
        /\ g.done = h.done /\ g.out = h.out /\ g.answer = h.answer
        BY <2>2, <2>3, Went DEF Fields
  <2>5. id \in DOMAIN tables /\ Len(tables) \in Nat /\ DOMAIN tables = 1..Len(tables)
        BY SeqOfAnything DEF Found, LiveAt, IInv, Catalogue
  <2>6. h.done \in Nat /\ h.answer = NoAnswer BY <1>1 DEF IInv, Undisturbed, Typed
  <2>7. LooksUp(r)' BY <1>1, <1>2, <1>5, <2>4, <2>5 DEF LooksUp
  <2>8. InOrder(r)' BY <1>1, <1>2, <2>4, OrderKept
  <2>9. Writes(r)' BY <1>1, <2>4 DEF Writes, Reads
  <2>10. DOMAIN new \subseteq Fields \ {"req"} BY <2>2 DEF Fields
  <2>11. g.pc \in (Running \ {"call"}) \cup {"done"} /\ g.table \in 0..Len(tables) /\ g.done \in Nat
        /\ g.answer = IF g.pc = "done" THEN Success(200) ELSE NoAnswer
        BY <2>4, <2>5, <2>6 DEF Running
  <2> QED BY <1>1, <1>2, <2>3, <2>7, <2>8, <2>9, <2>10, <2>11, Advance
<1> QED BY <1>3, <1>4, <1>5

\* The rows that a lookup returns for what it has found.
RowsFound(t, id, found) ==
    [i \in DOMAIN found |->
        [table |-> id, bucket |-> found[i][1],
         row |-> Shown(t, t.log[found[i][1]][found[i][2]], DOMAIN t.columns)]]

\* They are at most one, and that one answers its key.
LEMMA RowsAnswerKey ==
    ASSUME NEW t, IsTable(t), UniqueKeys(t), t.pk # <<>>,
           NEW params \in LookupParams, NEW key \in LookupKey(t, params),
           NEW found \in SetToSeqs(Places(t, key)), NEW id
    PROVE  LET rows == RowsFound(t, id, found)
           IN  /\ IsSeq(rows) /\ Len(rows) \in {0, 1}
               /\ \A i \in DOMAIN rows : rows[i].table = id /\ Shows(t, rows[i].row, params)
<1> DEFINE rows == RowsFound(t, id, found)
<1>1. CASE found = <<>>
  <2>1. DOMAIN rows = {} /\ rows = [i \in 1..0 |-> rows[i]] BY <1>1 DEF RowsFound
  <2>2. IsSeq(rows) /\ Len(rows) = 0 BY <2>1, FunctionIsSeq
  <2> QED BY <2>1, <2>2
<1>2. CASE \E p \in Places(t, key) : found = <<p>>
  <2>1. PICK p \in Places(t, key) : found = <<p>> BY <1>2
  <2>2. DOMAIN rows = 1..1 /\ rows = [i \in 1..1 |-> rows[i]] BY <2>1 DEF RowsFound
  <2>3. IsSeq(rows) /\ Len(rows) = 1 BY <2>2, FunctionIsSeq
  <2> DEFINE row == t.log[p[1]][p[2]]
  <2>4. rows[1] = [table |-> id, bucket |-> p[1], row |-> Shown(t, row, DOMAIN t.columns)]
        BY <2>1 DEF RowsFound
  <2>5. p[1] \in DOMAIN t.log /\ p[2] \in DOMAIN t.log[p[1]] /\ KeyOf(t, row) = key
        BY PlaceOfKey
  <2>6. Fits(t, row) BY <2>5, TableHasLog DEF IsLog
  <2> HIDE DEF row
  <2>7. Shows(t, Shown(t, row, DOMAIN t.columns), params)
        BY <2>5, <2>6, RowShowsKey DEF Shows
  <2> HIDE DEF rows
  <2>8. rows[1].table = id /\ Shows(t, rows[1].row, params) BY <2>4, <2>7
  <2>9. \A i \in DOMAIN rows : i = 1 BY <2>2
  <2>10. \A i \in DOMAIN rows : rows[i].table = id /\ Shows(t, rows[i].row, params)
         BY <2>8, <2>9
  <2> QED BY <2>3, <2>10 DEF rows
<1> QED BY <1>1, <1>2, OneRowToAKey

LEMMA LookupInv == ASSUME IInv, NEW r \in Slots, Lookup(r) PROVE IInv'
<1> DEFINE h == handler[r]
           g == handler'[r]
           t == tables[h.table]
           n == h.done
           last == n + 1 = Len(h.req.keys)
<1>1. /\ UNCHANGED <<catalogue, call>> /\ tables' = tables
      /\ h.pc = "read" /\ h.req.op \in Reads /\ h.req.op \in Served
      BY DEF Lookup, At, catalogue, Reads, Served
<1>2. /\ h.pc \in Running \ {"call"} /\ call[r] = "none" /\ InOrder(r)
      /\ n < Len(h.req.keys) /\ h.table \in DOMAIN tables /\ t.pk # <<>>
      /\ h.carry \in LookupKey(t, h.req.keys[n + 1])
      BY <1>1 DEF IInv, Undisturbed, Follows, LooksUp, Running
<1>3. h.req \in Requests[r] /\ n \in Nat /\ h.table \in 0..Len(tables)
      BY <1>1 DEF IInv, Undisturbed, Typed
<1>4. IsTable(t) /\ UniqueKeys(t) BY <1>2 DEF IInv, Catalogue
<1>5. Len(h.req.keys) \in Nat /\ h.req.keys[n + 1] \in LookupParams
  <2>1. h.req.keys \in Seq(LookupParams) BY <1>1, <1>3, RequestOf, ReadRequest
  <2>2. Len(h.req.keys) \in Nat BY <2>1, LenProperties
  <2>3. n + 1 \in 1..Len(h.req.keys) BY <1>2, <1>3, <2>2
  <2> QED BY <2>1, <2>2, <2>3, ElementOfSeq
<1>6. PICK found \in SetToSeqs(Places(t, h.carry)) :
         Goes(r, [pc |-> IF last THEN "done" ELSE "table",
                  done |-> n + 1,
                  out |-> h.out \o RowsFound(t, h.table, found),
                  answer |-> IF last THEN Success(200) ELSE NoAnswer])
      BY DEF Lookup, Extend, RowsFound
<1> DEFINE rows == RowsFound(t, h.table, found)
<1>7. /\ IsSeq(rows) /\ Len(rows) \in {0, 1}
      /\ \A i \in DOMAIN rows : rows[i].table = h.table /\ Shows(t, rows[i].row, h.req.keys[n + 1])
      BY <1>2, <1>4, <1>5, RowsAnswerKey
<1> HIDE DEF rows
<1> DEFINE pc == IF last THEN "done" ELSE "table"
           answer == IF last THEN Success(200) ELSE NoAnswer
           out == h.out \o rows
           new == [pc |-> pc, done |-> n + 1, out |-> out, answer |-> answer]
<1>8. Goes(r, new) BY <1>6 DEF rows
<1>9. DOMAIN new = {"pc", "done", "out", "answer"} /\ new["pc"] = pc /\ new["done"] = n + 1
      /\ new["out"] = out /\ new["answer"] = answer
      OBVIOUS
<1> HIDE DEF new
<1>10. /\ g.pc = pc /\ g.done = n + 1 /\ g.out = out /\ g.answer = answer
       /\ g.req = h.req /\ g.table = h.table
       BY <1>8, <1>9, Went DEF Fields
<1>11. LooksUp(r)' BY <1>1, <1>2, <1>3, <1>5, <1>10 DEF LooksUp
<1>12. InOrder(r)'
  <2>1. IsSeq(h.out) /\ \A i \in DOMAIN h.out : h.out[i].table \in DOMAIN tables
        BY <1>1, <1>2 DEF InOrder
  <2>2. /\ Len(h.out) \in Nat /\ DOMAIN h.out = 1..Len(h.out)
        /\ DOMAIN rows = 1..Len(rows)
        BY <1>7, <2>1, SeqOfAnything
  <2> DEFINE m == Len(h.out)
  <2>3. /\ IsSeq(out) /\ Len(out) = m + Len(rows)
        /\ \A i \in 1..(m + Len(rows)) : out[i] = IF i <= m THEN h.out[i] ELSE rows[i - m]
        BY <1>7, <2>1, ConcatIsSeq
  <2>4. DOMAIN out = 1..(m + Len(rows)) BY <2>3, SeqOfAnything
  <2>5. PICK key \in [DOMAIN h.out -> 1..n] :
           /\ \A i, j \in DOMAIN h.out : i < j => key[i] < key[j]
           /\ \A i \in DOMAIN h.out :
                 Shows(tables[h.out[i].table], h.out[i].row, h.req.keys[key[i]])
        BY <1>1, <1>2 DEF InOrder
  <2> DEFINE longer == [i \in DOMAIN out |-> IF i <= m THEN key[i] ELSE n + 1]
  <2> HIDE DEF out
  <2>6. \A i \in DOMAIN out :
           IF i <= m THEN i \in DOMAIN h.out /\ out[i] = h.out[i]
           ELSE i = m + 1 /\ 1 \in DOMAIN rows /\ out[i] = rows[1]
        BY <1>7, <2>2, <2>3, <2>4
  <2>7. longer \in [DOMAIN out -> 1..(n + 1)] BY <1>3, <2>5, <2>6
  <2>8. \A i, j \in DOMAIN out : i < j => longer[i] < longer[j]
    <3> SUFFICES ASSUME NEW i \in DOMAIN out, NEW j \in DOMAIN out, i < j
                 PROVE  longer[i] < longer[j]
        OBVIOUS
    <3>1. i \in Nat /\ j \in Nat /\ m \in Nat BY <1>7, <2>2, <2>4
    <3>2. i <= m /\ longer[i] = key[i] /\ key[i] \in 1..n BY <2>5, <2>6, <3>1
    <3>3. CASE j <= m BY <2>5, <2>6, <3>2, <3>3
    <3>4. CASE ~(j <= m) BY <1>3, <3>2, <3>4
    <3> QED BY <3>3, <3>4
  <2>9. ASSUME NEW i \in DOMAIN out
        PROVE  /\ out[i].table \in DOMAIN tables
               /\ Shows(tables[out[i].table], out[i].row, h.req.keys[longer[i]])
    <3>1. CASE i <= m BY <2>1, <2>5, <2>6, <3>1
    <3>2. CASE ~(i <= m) BY <1>2, <1>7, <2>6, <3>2
    <3> QED BY <3>1, <3>2
  <2> HIDE DEF longer
  <2>10. \E k \in [DOMAIN out -> 1..(n + 1)] :
            /\ \A i, j \in DOMAIN out : i < j => k[i] < k[j]
            /\ \A i \in DOMAIN out :
                  Shows(tables[out[i].table], out[i].row, h.req.keys[k[i]])
         BY <2>7, <2>8, <2>9
  <2>11. g.out = out /\ g.done = n + 1 /\ g.req = h.req BY <1>10
  <2> QED BY <1>1, <2>3, <2>9, <2>10, <2>11 DEF InOrder
<1>13. Writes(r)' BY <1>1, <1>10 DEF Writes, Reads
<1>14. DOMAIN new \subseteq Fields \ {"req"} BY <1>9 DEF Fields
<1>15. g.pc \in (Running \ {"call"}) \cup {"done"} /\ g.table \in 0..Len(tables) /\ g.done \in Nat
       /\ g.answer = IF g.pc = "done" THEN Success(200) ELSE NoAnswer
       BY <1>3, <1>10 DEF Running
<1> QED BY <1>1, <1>2, <1>8, <1>11, <1>12, <1>13, <1>14, <1>15, Advance

LEMMA StartScanInv == ASSUME IInv, NEW r \in Slots, StartScan(r) PROVE IInv'
<1> DEFINE h == handler[r]
           g == handler'[r]
<1>1. /\ UNCHANGED <<catalogue, call>> /\ h.pc = "table" /\ h.req.op = "scan"
      /\ h.req.op \in Served /\ h.req.op \notin Reads
      BY DEF StartScan, At, Reads, Served
<1>2. /\ h.pc \in Running \ {"call"} /\ h.pc \in Running
      /\ h.done \in Nat /\ h.answer = NoAnswer
      BY <1>1 DEF IInv, Undisturbed, Typed, Running
<1>3. PICK id \in Found(r) :
         \/ Fail(r, "FlussError")
         \/ Goes(r, [pc |-> "poll", table |-> id, carry |-> Subscribe(tables[id])])
      BY DEF StartScan
<1>4. CASE Fail(r, "FlussError")
  <2>1. "FlussError" \in Errors /\ ~(StatusCode["FlussError"] < 500)
        BY AnswersHaveStatus DEF StatusCode
  <2> QED BY <1>1, <1>2, <1>4, <2>1, Failed
<1>5. CASE Goes(r, [pc |-> "poll", table |-> id, carry |-> Subscribe(tables[id])])
  <2> DEFINE new == [pc |-> "poll", table |-> id, carry |-> Subscribe(tables[id])]
  <2>1. DOMAIN new = {"pc", "table", "carry"} /\ new["pc"] = "poll" /\ new["table"] = id
        OBVIOUS
  <2>2. Goes(r, new) BY <1>5
  <2> HIDE DEF new
  <2>3. /\ g.pc = "poll" /\ g.table = id /\ g.req = h.req
        /\ g.done = h.done /\ g.answer = h.answer
        BY <2>1, <2>2, Went DEF Fields
  <2>4. id \in DOMAIN tables /\ Len(tables) \in Nat /\ DOMAIN tables = 1..Len(tables)
        BY SeqOfAnything DEF Found, LiveAt, IInv, Catalogue
  <2>5. LooksUp(r)' /\ InOrder(r)' /\ Writes(r)' BY <1>1, <2>3 DEF LooksUp, InOrder, Writes
  <2>6. DOMAIN new \subseteq Fields \ {"req"} BY <2>1 DEF Fields
  <2>7. g.pc \in (Running \ {"call"}) \cup {"done"} /\ g.table \in 0..Len(tables) /\ g.done \in Nat
        /\ g.answer = IF g.pc = "done" THEN Success(200) ELSE NoAnswer
        BY <1>2, <2>3, <2>4 DEF Running
  <2> QED BY <1>1, <1>2, <2>2, <2>5, <2>6, <2>7, Advance
<1> QED BY <1>3, <1>4, <1>5

LEMMA ScanInv == ASSUME IInv, NEW r \in Slots, Scan(r) PROVE IInv'
<1> DEFINE h == handler[r]
           g == handler'[r]
<1>1. /\ UNCHANGED <<catalogue, call>> /\ h.pc = "poll" /\ h.req.op = "scan"
      /\ h.req.op \in Served /\ h.req.op \notin Reads
      BY DEF Scan, At, Reads, Served
<1>2. /\ h.pc \in Running \ {"call"} /\ h.table \in 0..Len(tables) /\ h.done \in Nat
      BY <1>1 DEF IInv, Undisturbed, Typed, Running
<1>3. PICK out : Goes(r, [pc |-> "done", answer |-> Success(200), out |-> out])
      BY DEF Scan
<1> DEFINE answer == Success(200)
           new == [pc |-> "done", answer |-> answer, out |-> out]
<1>4. DOMAIN new = {"pc", "answer", "out"} /\ new["pc"] = "done" /\ new["answer"] = answer
      OBVIOUS
<1>5. Goes(r, new) BY <1>3
<1> HIDE DEF new
<1>6. /\ g.pc = "done" /\ g.answer = answer /\ g.req = h.req
      /\ g.table = h.table /\ g.done = h.done
      BY <1>4, <1>5, Went DEF Fields
<1>7. LooksUp(r)' /\ InOrder(r)' /\ Writes(r)' BY <1>1, <1>6 DEF LooksUp, InOrder, Writes
<1>8. DOMAIN new \subseteq Fields \ {"req"} BY <1>4 DEF Fields
<1>9. g.pc \in (Running \ {"call"}) \cup {"done"} /\ g.table \in 0..Len(tables) /\ g.done \in Nat
      /\ g.answer = IF g.pc = "done" THEN Success(200) ELSE NoAnswer
      BY <1>2, <1>6
<1> QED BY <1>1, <1>2, <1>5, <1>7, <1>8, <1>9, Advance

LEMMA ConvertInv == ASSUME IInv, NEW r \in Slots, Convert(r) PROVE IInv'
<1> DEFINE h == handler[r]
           g == handler'[r]
<1>1. /\ UNCHANGED <<catalogue, call>> /\ tables' = tables
      /\ h.pc = "table" /\ h.req.op = "produce"
      /\ h.req.op \in Served /\ h.req.op \notin Reads
      BY DEF Convert, At, Reads, Served, catalogue
<1>2. /\ h.pc \in Running \ {"call"} /\ h.pc \in Running /\ call[r] = "none"
      /\ h.done \in Nat /\ h.answer = NoAnswer /\ h.req \in Requests[r]
      BY <1>1 DEF IInv, Undisturbed, Typed, Follows, Running
<1>3. PICK id \in Found(r) :
         \/ Fail(r, "BadRequest")
         \/ \E row \in ToRow(h.req.values, tables[id].columns) :
               Goes(r, [pc |-> "open", table |-> id, carry |-> row])
      BY DEF Convert
<1>4. CASE Fail(r, "BadRequest")
  <2>1. "BadRequest" \in Errors BY AnswersHaveStatus
  <2> QED BY <1>1, <1>2, <1>4, <2>1, Failed
<1>5. CASE \E row \in ToRow(h.req.values, tables[id].columns) :
              Goes(r, [pc |-> "open", table |-> id, carry |-> row])
  <2>1. PICK row \in ToRow(h.req.values, tables[id].columns) :
           Goes(r, [pc |-> "open", table |-> id, carry |-> row])
        BY <1>5
  <2>2. /\ id \in DOMAIN tables /\ Len(tables) \in Nat /\ DOMAIN tables = 1..Len(tables)
        /\ IsTable(tables[id])
        BY SeqOfAnything DEF Found, LiveAt, IInv, Catalogue
  <2>3. IsRow(row)
    <3> DEFINE columns == tables[id].columns
               values == h.req.values
    <3>1. columns \in Seq([name : Names, type : Types]) BY <2>2 DEF IsTable
    <3>2. Len(columns) \in Nat /\ DOMAIN columns = 1..Len(columns) BY <3>1, LenProperties
    <3>3. \A j \in DOMAIN columns : columns[j].type \in Types
      <4>1. \A j \in DOMAIN columns : columns[j] \in [name : Names, type : Types]
            BY <3>1, <3>2, ElementOfSeq
      <4> QED BY <4>1
    <3>4. \A j \in DOMAIN values : IsJson(values[j])
      <4>1. values \in Seq(Values) BY <1>1, <1>2, RequestOf, ProduceRequest
      <4>2. \A j \in DOMAIN values : values[j] \in Values
            BY <4>1, LenProperties, ElementOfSeq
      <4> QED BY <4>2, TextsAssumption
    <3>5. row \in ToRow(values, columns) OBVIOUS
    <3> HIDE DEF columns, values
    <3>6. /\ row = [j \in DOMAIN columns |-> row[j]]
          /\ \A j \in DOMAIN columns : IsDatum(row[j])
      <4>1. /\ row = [j \in DOMAIN columns |-> row[j]]
            /\ \A j \in DOMAIN columns : IsDatum(row[j]) /\ Holds(columns[j].type, row[j])
            BY <3>3, <3>4, <3>5, ToRowHolds
      <4> QED BY <4>1
    <3>7. row = [j \in 1..Len(columns) |-> row[j]] /\ DOMAIN row = DOMAIN columns
          BY <3>2, <3>6
    <3>8. IsSeq(row) BY <3>2, <3>7, FunctionIsSeq
    <3> QED BY <3>6, <3>7, <3>8 DEF IsRow
  <2> DEFINE new == [pc |-> "open", table |-> id, carry |-> row]
  <2>4. DOMAIN new = {"pc", "table", "carry"} /\ new["pc"] = "open" /\ new["table"] = id
        /\ new["carry"] = row
        OBVIOUS
  <2>5. Goes(r, new) BY <2>1
  <2> HIDE DEF new
  <2>6. /\ g.pc = "open" /\ g.table = id /\ g.carry = row /\ g.req = h.req
        /\ g.done = h.done /\ g.answer = h.answer
        BY <2>4, <2>5, Went DEF Fields
  <2>7. LooksUp(r)' /\ InOrder(r)' BY <1>1, <2>6 DEF LooksUp, InOrder
  <2>8. Writes(r)' BY <1>1, <1>2, <2>3, <2>6 DEF Writes
  <2>9. DOMAIN new \subseteq Fields \ {"req"} BY <2>4 DEF Fields
  <2>10. g.pc \in (Running \ {"call"}) \cup {"done"} /\ g.table \in 0..Len(tables) /\ g.done \in Nat
         /\ g.answer = IF g.pc = "done" THEN Success(200) ELSE NoAnswer
         BY <1>2, <2>2, <2>6 DEF Running
  <2> QED BY <1>1, <1>2, <2>5, <2>7, <2>8, <2>9, <2>10, Advance
<1> QED BY <1>3, <1>4, <1>5

LEMMA OpenWriterInv == ASSUME IInv, NEW r \in Slots, OpenWriter(r) PROVE IInv'
<1> DEFINE h == handler[r]
           g == handler'[r]
<1>1. /\ UNCHANGED catalogue /\ tables' = tables
      /\ h.pc = "open" /\ h.req.op = "produce"
      /\ h.req.op \in Served /\ h.req.op \notin Reads
      BY DEF OpenWriter, At, Reads, Served, catalogue
<1>2. /\ h.pc \in Running /\ call[r] = "none" /\ call \in [Slots -> Calls]
      /\ h.done \in Nat /\ h.answer = NoAnswer /\ NoAnswer.status = 0 /\ h.req \in Requests[r]
      /\ Writes(r) /\ Makes(r)
      BY <1>1 DEF IInv, Undisturbed, Typed, Follows, Running, NoAnswer
<1>3. PICK id \in Found(r) :
         LET t == tables[id]
             chosen == tables[h.table]
         IN  IF (t.pk = <<>>) # (chosen.pk = <<>>)
             THEN Fail(r, "InvalidOperation")
             ELSE IF ~RowOf(t, h.carry) \/ Null \in ToSet(KeyOf(t, h.carry))
             THEN Fail(r, "FlussError")
             ELSE /\ Goes(r, [pc |-> "call", table |-> id])
                  /\ call' = [call EXCEPT ![r] = "sent"]
      BY DEF OpenWriter
<1>4. CASE Fail(r, "InvalidOperation") \/ Fail(r, "FlussError")
  <2>1. {"InvalidOperation", "FlussError"} \subseteq Errors BY AnswersHaveStatus
  <2> QED BY <1>1, <1>2, <1>4, <2>1, Failed
<1>5. CASE /\ RowOf(tables[id], h.carry) /\ Null \notin ToSet(KeyOf(tables[id], h.carry))
           /\ Goes(r, [pc |-> "call", table |-> id])
           /\ call' = [call EXCEPT ![r] = "sent"]
  <2> DEFINE new == [pc |-> "call", table |-> id]
  <2>1. DOMAIN new = {"pc", "table"} /\ new["pc"] = "call" /\ new["table"] = id OBVIOUS
  <2>2. Goes(r, new) BY <1>5
  <2> HIDE DEF new
  <2>3. /\ g.pc = "call" /\ g.table = id /\ g.carry = h.carry /\ g.req = h.req
        /\ g.done = h.done /\ g.answer = h.answer /\ IsHandler(g)
        /\ DOMAIN handler' = Slots /\ \A s \in Slots \ {r} : handler'[s] = handler[s]
        BY <2>1, <2>2, Went DEF Fields
  <2>4. /\ call' \in [Slots -> Calls] /\ call'[r] = "sent"
        /\ \A s \in Slots \ {r} : call'[s] = call[s]
        BY <1>2, <1>5 DEF Calls
  <2>5. id \in DOMAIN tables /\ Len(tables) \in Nat /\ DOMAIN tables = 1..Len(tables)
        BY SeqOfAnything DEF Found, LiveAt, IInv, Catalogue
  <2>6. Typed(r)' BY <1>1, <1>2, <2>3, <2>5 DEF Typed, Running
  <2>7. Follows(r)'
    <3>1. Objection(h.req) = {} BY <1>1 DEF Objection
    <3> QED BY <1>1, <1>2, <2>3, <2>4, <3>1 DEF Follows
  <2>8. LooksUp(r)' /\ InOrder(r)' BY <1>1, <2>3 DEF LooksUp, InOrder
  <2>9. Writes(r)'
    <3>1. Fits(tables[id], h.carry) BY <1>1, <1>2, <1>5 DEF Writes, Fits
    <3> QED BY <1>1, <2>3, <2>5, <3>1 DEF Writes
  <2>10. Makes(r)' BY <1>1, <1>2 DEF Makes
  <2>11. Made(r)' BY <1>1, <2>3 DEF Made
  <2> QED BY <1>1, <2>3, <2>4, <2>6, <2>7, <2>8, <2>9, <2>10, <2>11, HandlerStep DEF Undisturbed
<1> QED BY <1>3, <1>4, <1>5

(***************************************************************************)
(* Steps of Fluss.                                                         *)
(***************************************************************************)

\* A call is executed: tables grow, and no one else makes one.
LEMMA FlussStep ==
    ASSUME IInv, NEW r \in Slots, call[r] = "sent",
           NEW result \in {"ok", "refused", "unpartitioned"},
           Returns(r, result), result = "unpartitioned" => handler[r].req.op = "list_partitions",
           Catalogue', Grows, \A id \in DOMAIN tables' \ DOMAIN tables : tables'[id].by = {r},
           Makes(r)', Made(r)'
    PROVE  IInv'
<1> DEFINE h == handler[r]
<1>1. /\ handler' = handler /\ call' \in [Slots -> Calls]
      /\ \A s \in Slots \ {r} : call'[s] = call[s]
      /\ call'[r] = IF h.pc = "call" THEN result ELSE "none"
  <2> DEFINE new == IF h.pc = "call" THEN result ELSE "none"
  <2>1. new \in Calls BY DEF Calls
  <2>2. call \in [Slots -> Calls] BY DEF IInv
  <2>3. call' = [call EXCEPT ![r] = new] /\ handler' = handler BY DEF Returns
  <2> HIDE DEF new
  <2>4. /\ call' \in [Slots -> Calls] /\ call'[r] = new
        /\ \A s \in Slots \ {r} : call'[s] = call[s]
        BY <2>1, <2>2, <2>3
  <2> QED BY <2>3, <2>4 DEF new
<1>2. DOMAIN handler = Slots /\ Typed(r) /\ Follows(r) BY DEF IInv, Undisturbed
<1>3. Typed(r)' BY <1>1, <1>2 DEF Typed, Grows
<1>4. Follows(r)' BY <1>1, <1>2 DEF Follows
<1>5. h.pc \notin {"table", "read", "open"} /\ h.req.op \notin Reads
      BY <1>2 DEF Follows, Running, Served, Reads
<1>6. LooksUp(r)' /\ InOrder(r)' BY <1>1, <1>5 DEF LooksUp, InOrder
<1>7. Writes(r)' BY <1>1, <1>5 DEF Writes
<1>8. ASSUME NEW s \in Slots PROVE Undisturbed(s)'
  <2>1. CASE s = r BY <1>3, <1>4, <1>6, <1>7, <2>1 DEF Undisturbed
  <2>2. CASE s # r
    <3>1. \A id \in DOMAIN tables' \ DOMAIN tables : tables'[id].by # {s} BY <2>2
    <3>2. handler'[s] = handler[s] /\ call'[s] = call[s] BY <1>1, <2>2
    <3> QED BY <3>1, <3>2, OthersKeep DEF IInv
  <2> QED BY <2>1, <2>2
<1> QED BY <1>1, <1>2, <1>8 DEF IInv

\* One that makes nothing: of the requests that would, it is an answer only to one
\* that ignores the table there is.
LEMMA NoCreation ==
    ASSUME IInv, NEW r \in Slots, call[r] = "sent",
           NEW result \in {"ok", "refused", "unpartitioned"},
           Returns(r, result), result = "unpartitioned" => handler[r].req.op = "list_partitions",
           Catalogue', Grows, DOMAIN tables' = DOMAIN tables,
           handler[r].req.op = "create_table" /\ result = "ok" =>
              \E id \in DOMAIN tables :
                 /\ tables[id].db = handler[r].req.db /\ tables[id].name = handler[r].req.table
                 /\ handler[r].req.ignore_if_exists
    PROVE  IInv'
<1> DEFINE h == handler[r]
<1>1. /\ \A id \in DOMAIN tables : tables[id].by # {r}
      /\ Made(r) /\ handler' = handler
      BY DEF IInv, Undisturbed, Makes, Returns
<1>2. Makes(r)' BY <1>1 DEF Makes, Grows
<1>3. call'[r] = "ok" => result = "ok" BY DEF IInv, Returns
<1>4. Made(r)' BY <1>1, <1>3 DEF Made, Succeeded, Grows
<1> QED BY <1>2, <1>4, FlussStep

LEMMA UnchangingInv ==
    ASSUME IInv, NEW r \in Slots, call[r] = "sent", NEW allowed, Unchanging(r, allowed),
           handler[r].req.op # "create_table"
    PROVE  IInv'
<1> DEFINE result == IF allowed THEN "ok" ELSE "refused"
<1>1. result \in {"ok", "refused", "unpartitioned"} /\ result # "unpartitioned" OBVIOUS
<1>2. Returns(r, result) /\ UNCHANGED catalogue BY DEF Unchanging
<1> HIDE DEF result
<1>3. Grows /\ Catalogue' /\ tables' = tables BY <1>2, NothingGrows DEF IInv
<1> QED BY <1>1, <1>2, <1>3, NoCreation

LEMMA CreateDatabaseInv == ASSUME IInv, NEW r \in Slots, CreateDatabase(r) PROVE IInv'
<1> DEFINE q == handler[r].req
<1>1. call[r] = "sent" /\ q.op = "create_database" /\ q.op # "create_table"
      BY DEF CreateDatabase, Sent
<1>2. CASE q.database_name \in databases
  <2>1. Unchanging(r, q.ignore_if_exists) BY <1>2 DEF CreateDatabase
  <2> QED BY <1>1, <2>1, UnchangingInv
<1>3. CASE /\ databases' = databases \cup {q.database_name}
           /\ Returns(r, "ok") /\ UNCHANGED tables
  <2>1. q \in Requests[r] /\ Catalogue
        BY <1>1 DEF IInv, Undisturbed, Typed, Follows
  <2>2. q.database_name \in Names
    <3>1. q \in AnyRequest BY <2>1, RequestOf
    <3> QED BY <1>1, <3>1 DEF AnyRequest, DatabaseRequests, CreateTableRequests, TableRequests,
               LookupRequests, ScanParams, ListOffsetsRequests, ProduceRequests
  <2>3. Catalogue' BY <1>3, <2>1, <2>2 DEF Catalogue
  <2>4. Grows
    <3>1. Len(tables) \in Nat BY <2>1, SeqOfAnything DEF Catalogue
    <3> QED BY <1>3, <3>1 DEF Grows
  <2> QED BY <1>1, <1>3, <2>3, <2>4, NoCreation
<1> QED BY <1>2, <1>3 DEF CreateDatabase

\* Tables that are dropped are still tables.
LEMMA WithoutKeeps ==
    ASSUME Catalogue, NEW ids, tables' = Without(ids)
    PROVE  /\ Grows /\ DOMAIN tables' = DOMAIN tables
           /\ IsSeq(tables') /\ Len(tables') = Len(tables)
           /\ \A id \in DOMAIN tables :
                 /\ IsTable(tables'[id]) /\ UniqueKeys(tables'[id])
                 /\ tables'[id].db = tables[id].db
                 /\ tables'[id].live => tables[id].live /\ id \notin ids
<1>1. Len(tables) \in Nat /\ DOMAIN tables = 1..Len(tables)
      BY SeqOfAnything DEF Catalogue
<1>2. DOMAIN tables' = DOMAIN tables
      /\ \A id \in DOMAIN tables :
            tables'[id] = IF id \in ids THEN [tables[id] EXCEPT !.live = FALSE] ELSE tables[id]
      BY DEF Without
<1>3. IsSeq(tables') /\ Len(tables') = Len(tables)
  <2>1. tables' = [i \in 1..Len(tables) |-> tables'[i]] BY <1>1 DEF Without
  <2> QED BY <1>1, <2>1, FunctionIsSeq
<1>4. ASSUME NEW id \in DOMAIN tables
      PROVE  /\ IsTable(tables'[id]) /\ UniqueKeys(tables'[id])
             /\ tables'[id].db = tables[id].db /\ tables'[id].name = tables[id].name
             /\ tables'[id].columns = tables[id].columns /\ tables'[id].pk = tables[id].pk
             /\ tables'[id].by = tables[id].by
             /\ tables'[id].live => tables[id].live /\ id \notin ids
  <2> DEFINE t == tables[id]
  <2>1. IsTable(t) /\ UniqueKeys(t) BY DEF Catalogue
  <2>2. CASE id \in ids
    <3>1. tables'[id] = [t EXCEPT !.live = FALSE] BY <1>2, <2>2
    <3>2. IsTable([t EXCEPT !.live = FALSE]) /\ UniqueKeys([t EXCEPT !.live = FALSE])
          BY <2>1, DropKeepsTable
    <3>3. DOMAIN t = {"db", "name", "columns", "pk", "by", "live", "log"}
          BY <2>1 DEF IsTable
    <3>4. /\ tables'[id].db = t.db /\ tables'[id].name = t.name /\ tables'[id].columns = t.columns
          /\ tables'[id].pk = t.pk /\ tables'[id].by = t.by
          BY <3>1, <3>3
    <3>5. ~tables'[id].live BY <3>1, <3>3
    <3> QED BY <3>1, <3>2, <3>4, <3>5
  <2>3. CASE id \notin ids BY <1>2, <2>1, <2>3
  <2> QED BY <2>2, <2>3
<1>5. Grows BY <1>1, <1>2, <1>3, <1>4 DEF Grows
<1> QED BY <1>2, <1>3, <1>4, <1>5

LEMMA DropDatabaseInv == ASSUME IInv, NEW r \in Slots, DropDatabase(r) PROVE IInv'
<1> DEFINE q == handler[r].req
<1>1. call[r] = "sent" /\ q.op # "create_table" /\ Catalogue
      BY DEF DropDatabase, Sent, IInv
<1>2. CASE \E allowed \in {DropFlags(q).ignore, FALSE} : Unchanging(r, allowed)
  <2>1. PICK allowed : Unchanging(r, allowed) BY <1>2
  <2> QED BY <1>1, <2>1, UnchangingInv
<1>3. CASE /\ databases' = databases \ {q.db}
           /\ tables' = Without(TablesOf(q.db))
           /\ Returns(r, "ok")
  <2>1. /\ Grows /\ DOMAIN tables' = DOMAIN tables
        /\ IsSeq(tables') /\ Len(tables') = Len(tables)
        /\ \A id \in DOMAIN tables :
              /\ IsTable(tables'[id]) /\ UniqueKeys(tables'[id])
              /\ tables'[id].db = tables[id].db
              /\ tables'[id].live => tables[id].live /\ id \notin TablesOf(q.db)
        BY <1>1, <1>3, WithoutKeeps
  <2>2. \A id \in DOMAIN tables : tables'[id].live => tables'[id].db \in databases'
        BY <1>1, <1>3, <2>1 DEF Catalogue, TablesOf
  <2>3. Catalogue' BY <1>1, <1>3, <2>1, <2>2 DEF Catalogue
  <2> QED BY <1>1, <1>3, <2>1, <2>3, NoCreation
<1> QED BY <1>2, <1>3 DEF DropDatabase

LEMMA DropTableInv == ASSUME IInv, NEW r \in Slots, DropTable(r) PROVE IInv'
<1> DEFINE q == handler[r].req
<1>1. call[r] = "sent" /\ q.op # "create_table" /\ Catalogue
      BY DEF DropTable, Sent, IInv
<1>2. CASE Unchanging(r, q.ignore_if_not_exists) BY <1>1, <1>2, UnchangingInv
<1>3. CASE /\ tables' = Without(Found(r))
           /\ Returns(r, "ok") /\ UNCHANGED databases
  <2>1. /\ Grows /\ DOMAIN tables' = DOMAIN tables
        /\ IsSeq(tables') /\ Len(tables') = Len(tables)
        /\ \A id \in DOMAIN tables :
              /\ IsTable(tables'[id]) /\ UniqueKeys(tables'[id])
              /\ tables'[id].db = tables[id].db
              /\ tables'[id].live => tables[id].live
        BY <1>1, <1>3, WithoutKeeps
  <2>2. Catalogue' BY <1>1, <1>3, <2>1 DEF Catalogue
  <2> QED BY <1>1, <1>3, <2>1, <2>2, NoCreation
<1> QED BY <1>2, <1>3 DEF DropTable

LEMMA CreateTableInv == ASSUME IInv, NEW r \in Slots, CreateTable(r) PROVE IInv'
<1> DEFINE h == handler[r]
           q == h.req
<1>1. call[r] = "sent" /\ q.op = "create_table" BY DEF CreateTable, Sent
<1>2. /\ Catalogue /\ q \in Requests[r] /\ Objection(q) = {}
      /\ \A id \in DOMAIN tables : tables[id].by # {r}
      /\ h.pc # "new" /\ h.answer.status \notin 400..499
  <2>1. Catalogue /\ Typed(r) /\ Follows(r) /\ Makes(r) BY DEF IInv, Undisturbed
  <2>2. q \in Requests[r]
    <3>1. h.pc # "new" BY <1>1, <2>1 DEF Follows
    <3> QED BY <2>1, <3>1 DEF Typed
  <2>3. Objection(q) = {} /\ h.pc # "new" /\ h.answer.status \notin 400..499
        BY <1>1, <2>1 DEF Follows
  <2>4. \A id \in DOMAIN tables : tables[id].by # {r} BY <1>1, <2>1 DEF Makes
  <2> QED BY <2>1, <2>2, <2>3, <2>4
<1>3. CASE q.db \notin databases /\ Unchanging(r, FALSE)
  <2>1. Returns(r, "refused") /\ UNCHANGED catalogue BY <1>3 DEF Unchanging
  <2>2. Grows /\ Catalogue' /\ tables' = tables BY <1>2, <2>1, NothingGrows
  <2> QED BY <1>1, <2>1, <2>2, NoCreation
<1>4. CASE LiveAt(q.db, q.table) # {} /\ Unchanging(r, q.ignore_if_exists)
  <2> DEFINE result == IF q.ignore_if_exists THEN "ok" ELSE "refused"
  <2>1. Returns(r, result) /\ UNCHANGED catalogue BY <1>4 DEF Unchanging
  <2>2. Grows /\ Catalogue' /\ tables' = tables BY <1>2, <2>1, NothingGrows
  <2>3. PICK id \in DOMAIN tables : tables[id].db = q.db /\ tables[id].name = q.table
        BY <1>4 DEF LiveAt
  <2>4. /\ result \in {"ok", "refused", "unpartitioned"} /\ result # "unpartitioned"
        /\ result = "ok" => q.ignore_if_exists
        OBVIOUS
  <2> HIDE DEF result
  <2>5. result = "ok" =>
           \E i \in DOMAIN tables : /\ tables[i].db = q.db /\ tables[i].name = q.table
                                    /\ q.ignore_if_exists
        BY <2>3, <2>4
  <2> QED BY <1>1, <2>1, <2>2, <2>4, <2>5, NoCreation
<1> DEFINE t == Table(q.db, q.table, Columns(q), q.primary_key, q.bucket_count, {r})
<1>5. CASE /\ q.db \in databases /\ Len(tables) < MaxTables
           /\ tables' = Append(tables, t)
           /\ Returns(r, "ok") /\ UNCHANGED databases
  <2>1. /\ IsTable(t) /\ UniqueKeys(t)
        /\ t.db = q.db /\ t.name = q.table /\ t.by = {r}
        /\ \A j \in DOMAIN q.schema : q.schema[j].data_type \in TypeNames[t.columns[j].type]
    <3>1. q \in AnyRequest /\ ObjectionToTable(q) = {}
          BY <1>1, <1>2, RequestOf DEF Objection
    <3> QED BY <1>1, <3>1, MadeAsDescribed
  <2> HIDE DEF t
  <2> DEFINE n == Len(tables)
  <2>2. n \in Nat /\ DOMAIN tables = 1..n /\ IsSeq(tables)
        BY <1>2, SeqOfAnything DEF Catalogue
  <2>3. /\ IsSeq(tables') /\ Len(tables') = n + 1 /\ tables'[n + 1] = t
        /\ \A id \in 1..n : tables'[id] = tables[id]
        BY <1>5, <2>2, AppendIsSeq
  <2>4. DOMAIN tables' = 1..(n + 1) BY <2>3, SeqOfAnything
  <2>5. \A id \in DOMAIN tables' :
           \/ id \in DOMAIN tables /\ tables'[id] = tables[id]
           \/ id = n + 1 /\ id \notin DOMAIN tables /\ tables'[id] = t
        BY <2>2, <2>3, <2>4
  <2>6. Grows BY <2>2, <2>3, <2>4 DEF Grows
  <2>7. Len(tables') <= MaxTables BY <1>5, <2>2, <2>3, BoundsAssumption
  <2>8. Catalogue'
    <3>1. \A id \in DOMAIN tables : /\ IsTable(tables[id]) /\ UniqueKeys(tables[id])
                                    /\ tables[id].live => tables[id].db \in databases
          BY <1>2 DEF Catalogue
    <3>2. \A id \in DOMAIN tables' : /\ IsTable(tables'[id]) /\ UniqueKeys(tables'[id])
                                     /\ tables'[id].live => tables'[id].db \in databases
          BY <1>5, <2>1, <2>5, <3>1
    <3> QED BY <1>2, <1>5, <2>3, <2>7, <3>2 DEF Catalogue
  <2>9. handler' = handler /\ call'[r] # "sent" BY <1>5 DEF Returns, IInv
  <2>10. Makes(r)'
    <3>1. \A id \in DOMAIN tables : tables[id].by # {r} BY <1>2
    <3>2. \A id \in DOMAIN tables' : tables'[id].by = {r} => id = n + 1 /\ tables'[id] = t
          BY <2>5, <3>1
    <3>3. \A id \in DOMAIN tables' : tables'[id].by = {r} =>
             /\ tables'[id].db = q.db /\ tables'[id].name = q.table
             /\ \A j \in DOMAIN q.schema :
                   q.schema[j].data_type \in TypeNames[tables'[id].columns[j].type]
             /\ \A other \in DOMAIN tables' : tables'[other].by = {r} => other = id
          BY <2>1, <3>2
    <3> QED BY <1>1, <1>2, <2>9, <3>3 DEF Makes
  <2>11. Made(r)'
    <3>1. n + 1 \in DOMAIN tables' BY <2>2, <2>4
    <3> QED BY <2>1, <2>3, <2>9, <3>1 DEF Made
  <2>12. \A id \in DOMAIN tables' \ DOMAIN tables : tables'[id].by = {r} BY <2>1, <2>5
  <2> QED BY <1>1, <1>5, <2>6, <2>8, <2>10, <2>11, <2>12, FlussStep
<1> QED BY <1>3, <1>4, <1>5 DEF CreateTable

LEMMA ListInv ==
    ASSUME IInv, NEW r \in Slots, ListDatabases(r) \/ ListTables(r) \/ ListOffsets(r)
    PROVE  IInv'
<1>1. call[r] = "sent" /\ handler[r].req.op # "create_table"
      BY DEF ListDatabases, ListTables, ListOffsets, Sent
<1>2. PICK allowed : Unchanging(r, allowed) BY DEF ListDatabases, ListTables, ListOffsets
<1> QED BY <1>1, <1>2, UnchangingInv

LEMMA ListPartitionsInv == ASSUME IInv, NEW r \in Slots, ListPartitions(r) PROVE IInv'
<1>1. /\ call[r] = "sent" /\ handler[r].req.op = "list_partitions"
      /\ handler[r].req.op # "create_table" /\ UNCHANGED catalogue
      BY DEF ListPartitions, Sent
<1>2. PICK result \in {"refused", "unpartitioned"} : Returns(r, result) BY DEF ListPartitions
<1>3. Grows /\ Catalogue' /\ tables' = tables BY <1>1, NothingGrows DEF IInv
<1> QED BY <1>1, <1>2, <1>3, NoCreation

LEMMA WriteInv == ASSUME IInv, NEW r \in Slots, Write(r) PROVE IInv'
<1> DEFINE h == handler[r]
           t == tables[h.table]
<1>1. /\ call[r] = "sent" /\ h.req.op = "produce" /\ h.req.op # "create_table"
      /\ Catalogue
      BY DEF Write, Sent, IInv
<1>2. h.table \in DOMAIN tables /\ Fits(t, h.carry) BY <1>1 DEF IInv, Undisturbed, Writes
<1>3. CASE Unchanging(r, FALSE) BY <1>1, <1>3, UnchangingInv
<1>4. CASE /\ \E log \in LogsAfter(t, h.carry, h.req.delete) :
                 tables' = [tables EXCEPT ![h.table].log = log]
           /\ t.live /\ Returns(r, "ok") /\ UNCHANGED databases
  <2>1. PICK log \in LogsAfter(t, h.carry, h.req.delete) :
           tables' = [tables EXCEPT ![h.table].log = log]
        BY <1>4
  <2> DEFINE u == [t EXCEPT !.log = log]
  <2>2. IsTable(t) /\ UniqueKeys(t) BY <1>1, <1>2 DEF Catalogue
  <2>3. IsTable(u) /\ UniqueKeys(u) BY <1>2, <2>2, WriteKeepsTable
  <2>4. tables' = [tables EXCEPT ![h.table] = u] BY <2>1
  <2>5. /\ u.db = t.db /\ u.name = t.name /\ u.columns = t.columns
        /\ u.pk = t.pk /\ u.by = t.by /\ u.live = t.live
    <3>1. DOMAIN t = {"db", "name", "columns", "pk", "by", "live", "log"}
          BY <2>2 DEF IsTable
    <3> QED BY <3>1
  <2> HIDE DEF u
  <2>6. /\ IsSeq(tables) /\ Len(tables) \in Nat /\ DOMAIN tables = 1..Len(tables)
        BY <1>1, SeqOfAnything DEF Catalogue
  <2>7. IsSeq(tables') /\ Len(tables') = Len(tables) BY <1>2, <2>4, <2>6, ReplaceIsSeq
  <2>8. /\ DOMAIN tables' = DOMAIN tables
        /\ \A id \in DOMAIN tables : tables'[id] = IF id = h.table THEN u ELSE tables[id]
        BY <2>4
  <2>9. Grows BY <2>5, <2>6, <2>7, <2>8 DEF Grows
  <2>10. Catalogue' BY <1>1, <1>4, <2>3, <2>5, <2>7, <2>8 DEF Catalogue
  <2> QED BY <1>1, <1>4, <2>8, <2>9, <2>10, NoCreation
<1> QED BY <1>3, <1>4 DEF Write

(***************************************************************************)
(* Invariance.                                                             *)
(***************************************************************************)

LEMMA InitIInv == ASSUME Init PROVE IInv
<1>1. databases = InitialDatabases /\ tables = InitialTables BY DEF Init
<1>2. \A id \in DOMAIN tables : tables[id] \in ToSet(tables) BY DEF ToSet
<1>3. Catalogue BY <1>1, <1>2, InitialAssumption DEF Catalogue
<1>4. \A id \in DOMAIN tables : tables[id].by = {} BY <1>1, <1>2, InitialAssumption
<1>5. DOMAIN handler = Slots /\ call \in [Slots -> Calls] BY DEF Init, Calls
<1>6. Len(tables) \in Nat BY <1>3, SeqOfAnything DEF Catalogue
<1>7. ASSUME NEW r \in Slots PROVE Undisturbed(r)
  <2>1. handler[r] = Idle /\ call[r] = "none" BY DEF Init
  <2>2. /\ Idle.pc = "new" /\ Idle.table = 0 /\ Idle.done = 0 /\ Idle.answer = NoAnswer
        /\ Idle.req.op = "none" /\ NoAnswer.status = 0
        BY DEF Idle, NoAnswer
  <2>3. Typed(r)
    <3>1. IsHandler(Idle) BY DEF IsHandler, Fields, Idle
    <3> QED BY <1>6, <2>1, <2>2, <3>1 DEF Typed
  <2>4. Follows(r) BY <2>1, <2>2 DEF Follows, Running
  <2>5. LooksUp(r) /\ InOrder(r) /\ Writes(r) /\ Made(r)
        BY <2>1, <2>2 DEF LooksUp, InOrder, Writes, Made, Reads
  <2>6. Makes(r) BY <1>4 DEF Makes
  <2> QED BY <2>3, <2>4, <2>5, <2>6 DEF Undisturbed
<1> QED BY <1>3, <1>5, <1>7 DEF IInv

LEMMA NextIInv == ASSUME IInv, [Next]_vars PROVE IInv'
<1>1. ASSUME NEW r \in Slots, NEW q \in Requests[r], Receive(r, q) PROVE IInv'
      BY <1>1, ReceiveInv
<1>2. ASSUME NEW r \in Slots, Handle(r) PROVE IInv'
      BY <1>2, TableInfoInv, StartLookupInv, LookupInv, StartScanInv, ScanInv, ConvertInv,
         OpenWriterInv, AnswerInv, CallFailsInv
      DEF Handle
<1>3. ASSUME NEW r \in Slots, Execute(r) PROVE IInv'
      BY <1>3, CreateDatabaseInv, DropDatabaseInv, CreateTableInv, DropTableInv, ListInv,
         ListPartitionsInv, WriteInv
      DEF Execute
<1>4. ASSUME NEW r \in Slots, ClientLeaves(r) PROVE IInv' BY <1>4, ClientLeavesInv
<1>5. CASE UNCHANGED vars
  <2>1. UNCHANGED <<databases, tables, handler, call>> BY <1>5 DEF vars
  <2>2. Grows /\ Catalogue' /\ tables' = tables BY <2>1, NothingGrows DEF IInv, catalogue
  <2>3. \A s \in Slots : Undisturbed(s)' BY <2>1, <2>2, OthersKeep DEF IInv
  <2> QED BY <2>1, <2>2, <2>3 DEF IInv
<1> QED BY <1>1, <1>2, <1>3, <1>4, <1>5 DEF Next

\* The invariant holds at any time.
THEOREM Invariance == Spec => []IInv
BY InitIInv, NextIInv, PTL DEF Spec

(***************************************************************************)
(* The properties.                                                         *)
(***************************************************************************)

\* Every database, table and request is one, tables only have rows of their types
\* with a key, and each request has one answer of those there are.
THEOREM TypeCorrect == Spec => []TypeOK
<1>1. IInv => TypeOK BY TypeOKInv
<1> QED BY <1>1, Invariance, PTL

\* create_table makes what it was asked for and once, whenever Fluss gets to it, and
\* makes nothing for a request that was refused for what is in it.
THEOREM CreationsAreHonest == Spec => []CreatedMeansMade
<1>1. IInv => CreatedMeansMade
  <2> SUFFICES ASSUME IInv, NEW r \in Slots
               PROVE  LET h    == handler[r]
                          mine == {id \in DOMAIN tables : tables[id].by = {r}}
                      IN  /\ Cardinality(mine) <= 1
                          /\ h.answer.status \in 400..499 => mine = {} /\ call[r] # "sent"
                          /\ h.req.op = "create_table" /\ Succeeded(r) =>
                               \E id \in IF h.req.ignore_if_exists THEN DOMAIN tables ELSE mine :
                                  /\ tables[id].db = h.req.db /\ tables[id].name = h.req.table
                                  /\ id \in mine =>
                                        \A j \in DOMAIN h.req.schema :
                                           h.req.schema[j].data_type
                                              \in TypeNames[tables[id].columns[j].type]
      BY DEF CreatedMeansMade
  <2> DEFINE h    == handler[r]
             mine == {id \in DOMAIN tables : tables[id].by = {r}}
  <2>1. Follows(r) /\ Makes(r) /\ Made(r) BY DEF IInv, Undisturbed
  <2>2. Cardinality(mine) <= 1
    <3>1. \A i, j \in mine : i = j BY <2>1 DEF Makes
    <3> HIDE DEF mine
    <3>2. CASE mine = {}
      <4>1. Cardinality(mine) = 0 BY <3>2, FS_EmptySet
      <4> QED BY <4>1
    <3>3. CASE mine # {}
      <4>1. PICK id \in mine : mine = {id} BY <3>1, <3>3
      <4>2. Cardinality(mine) = 1 BY <4>1, FS_Singleton
      <4> QED BY <4>2
    <3> QED BY <3>2, <3>3
  <2>3. h.answer.status \in 400..499 => mine = {} /\ call[r] # "sent"
        BY <2>1 DEF Follows, Makes
  <2>4. ASSUME h.req.op = "create_table", Succeeded(r)
        PROVE  \E id \in IF h.req.ignore_if_exists THEN DOMAIN tables ELSE mine :
                  /\ tables[id].db = h.req.db /\ tables[id].name = h.req.table
                  /\ id \in mine => \A j \in DOMAIN h.req.schema :
                        h.req.schema[j].data_type \in TypeNames[tables[id].columns[j].type]
    <3>1. PICK id \in DOMAIN tables :
             /\ tables[id].db = h.req.db /\ tables[id].name = h.req.table
             /\ tables[id].by = {r} \/ h.req.ignore_if_exists
          BY <2>1, <2>4 DEF Made
    <3>2. id \in mine => \A j \in DOMAIN h.req.schema :
             h.req.schema[j].data_type \in TypeNames[tables[id].columns[j].type]
          BY <2>1 DEF Makes
    <3>3. id \in IF h.req.ignore_if_exists THEN DOMAIN tables ELSE mine BY <3>1
    <3> QED BY <3>1, <3>2, <3>3
  <2> QED BY <2>2, <2>3, <2>4
<1> QED BY <1>1, Invariance, PTL

\* lookup and batch_lookup: the rows answer the keys in their order, one at most to a
\* key, though each key is looked up in what the table is by then.
THEOREM BatchesAreInOrder == Spec => []AnswersInKeyOrder
<1>1. IInv => AnswersInKeyOrder
      BY DEF IInv, Undisturbed, InOrder, AnswersInKeyOrder, Shows
<1> QED BY <1>1, Invariance, PTL

\* json_to_datum and arrow_value_to_json: what produce has written reads back, and the
\* key of a row, as it is shown, leads to it.
THEOREM RowsSurvive == Spec => []RowsReadBack
<1>1. IInv => RowsReadBack
  <2> SUFFICES ASSUME IInv, NEW id \in DOMAIN tables, NEW b \in DOMAIN tables[id].log,
                      NEW row \in ToSet(tables[id].log[b]), NEW j \in DOMAIN row
               PROVE  LET t     == tables[id]
                          type  == t.columns[j].type
                          shown == DatumToJson(row[j])
                      IN  /\ type # "bytes" /\ row[j] \notin {Float(f, x) : f \in Real, x \in NotFinite}
                                => JsonToDatum(shown, type) = {row[j]}
                          /\ /\ t.columns[j].name \in ToSet(t.pk)
                             /\ type \in LookupTypes
                             => JsonToDatum(String(Written(shown)), type) = {row[j]}
      BY DEF RowsReadBack
  <2> DEFINE t     == tables[id]
             type  == t.columns[j].type
             d     == row[j]
  <2>1. IsTable(t) /\ UniqueKeys(t) BY DEF IInv, Catalogue
  <2>2. Fits(t, row)
    <3>1. PICK i \in DOMAIN t.log[b] : row = t.log[b][i] BY DEF ToSet
    <3> QED BY <2>1, <3>1, TableHasLog DEF IsLog
  <2>3. IsDatum(d) /\ Holds(type, d) BY <2>2 DEF Fits, IsRow, RowOf
  <2>4. j \in DOMAIN t.columns /\ type \in Types
    <3>1. t.columns \in Seq([name : Names, type : Types]) BY <2>1 DEF IsTable
    <3>2. DOMAIN t.columns = 1..Len(t.columns) BY <3>1, LenProperties
    <3>3. DOMAIN row = 1..Len(t.columns) BY <2>2, SeqOfAnything DEF Fits, IsRow, RowOf
    <3>4. t.columns[j] \in [name : Names, type : Types] BY <3>1, <3>2, <3>3, ElementOfSeq
    <3> QED BY <3>2, <3>3, <3>4
  <2>5. t.columns[j].name \in ToSet(t.pk) => d # Null
    <3> SUFFICES ASSUME t.columns[j].name \in ToSet(t.pk) PROVE d # Null OBVIOUS
    <3>1. PICK k \in DOMAIN t.pk : t.pk[k] = t.columns[j].name BY DEF ToSet
    <3>2. Column(t, t.pk[k]) = j BY <2>1, <2>4, <3>1, ColumnOfName
    <3>3. d \in ToSet(KeyOf(t, row)) BY <3>2 DEF KeyOf, ToSet
    <3> QED BY <2>2, <3>3 DEF Fits
  <2> HIDE DEF t, type, d
  <2>6. type # "bytes" /\ d \notin {Float(f, x) : f \in Real, x \in NotFinite} =>
           JsonToDatum(DatumToJson(d), type) = {d}
        BY <2>3, <2>4, ShownReadsBack
  <2>7. t.columns[j].name \in ToSet(t.pk) /\ type \in LookupTypes =>
           JsonToDatum(String(Written(DatumToJson(d))), type) = {d}
        BY <2>3, <2>5, WrittenReadsBack
  <2> QED BY <2>6, <2>7 DEF t, type, d
<1> QED BY <1>1, Invariance, PTL

(***************************************************************************)
(* Routes.                                                                 *)
(***************************************************************************)

LEMMA Joins ==
    ASSUME NEW S, NEW s \in Seq(S), NEW u \in Seq(S), NEW w \in Seq(S), Len(w) = Len(s) + Len(u),
           \A i \in 1..Len(s) : w[i] = s[i], \A i \in 1..Len(u) : w[Len(s) + i] = u[i]
    PROVE  s \o u = w
<1>1. /\ s \o u \in Seq(S) /\ Len(s \o u) = Len(s) + Len(u)
      /\ \A i \in 1..(Len(s) + Len(u)) : (s \o u)[i] = IF i <= Len(s) THEN s[i] ELSE u[i - Len(s)]
      BY ConcatProperties
<1>2. Len(s) \in Nat /\ Len(u) \in Nat BY LenProperties
<1>3. ASSUME NEW i \in 1..Len(s \o u) PROVE (s \o u)[i] = w[i]
  <2>1. CASE i <= Len(s) BY <1>1, <1>2, <2>1
  <2>2. CASE ~(i <= Len(s))
    <3>1. i - Len(s) \in 1..Len(u) /\ Len(s) + (i - Len(s)) = i BY <1>1, <1>2, <2>2
    <3>2. w[Len(s) + (i - Len(s))] = u[i - Len(s)] BY <3>1
    <3> QED BY <1>1, <1>2, <2>2, <3>1, <3>2
  <2> QED BY <2>1, <2>2
<1> QED BY <1>1, <1>3, SeqEqual

\* The paths of one, two and three segments after the version.
LEMMA Paths ==
    ASSUME NEW a, NEW b, NEW c
    PROVE  /\ <<"v1">> \o <<a>> = <<"v1", a>>
           /\ <<"v1">> \o <<a, b>> = <<"v1", a, b>>
           /\ <<"v1">> \o <<a, b, c>> = <<"v1", a, b, c>>
<1> DEFINE S == {"v1", a, b, c}
           v == <<"v1">>
<1>1. /\ v \in Seq(S) /\ <<a>> \in Seq(S) /\ <<a, b>> \in Seq(S) /\ <<a, b, c>> \in Seq(S)
      /\ <<"v1", a>> \in Seq(S) /\ <<"v1", a, b>> \in Seq(S) /\ <<"v1", a, b, c>> \in Seq(S)
      OBVIOUS
<1>2. Len(v) = 1 /\ v[1] = "v1" OBVIOUS
<1> HIDE DEF S, v
<1>3. v \o <<a>> = <<"v1", a>>
  <2> DEFINE u == <<a>>
             w == <<"v1", a>>
  <2>1. Len(u) = 1 /\ Len(w) = 2 /\ u[1] = a /\ w[1] = "v1" /\ w[2] = a OBVIOUS
  <2>2. u \in Seq(S) /\ w \in Seq(S) BY <1>1
  <2> HIDE DEF u, w
  <2>3. /\ Len(w) = Len(v) + Len(u) /\ \A i \in 1..Len(v) : w[i] = v[i]
        /\ \A i \in 1..Len(u) : w[Len(v) + i] = u[i]
        BY <1>2, <2>1
  <2>4. v \o u = w BY <1>1, <2>2, <2>3, Joins
  <2> QED BY <2>4 DEF u, w
<1>4. v \o <<a, b>> = <<"v1", a, b>>
  <2> DEFINE u == <<a, b>>
             w == <<"v1", a, b>>
  <2>1. /\ Len(u) = 2 /\ Len(w) = 3 /\ u[1] = a /\ u[2] = b
        /\ w[1] = "v1" /\ w[2] = a /\ w[3] = b
        OBVIOUS
  <2>2. u \in Seq(S) /\ w \in Seq(S) BY <1>1
  <2> HIDE DEF u, w
  <2>3. /\ Len(w) = Len(v) + Len(u) /\ \A i \in 1..Len(v) : w[i] = v[i]
        /\ \A i \in 1..Len(u) : w[Len(v) + i] = u[i]
        BY <1>2, <2>1
  <2>4. v \o u = w BY <1>1, <2>2, <2>3, Joins
  <2> QED BY <2>4 DEF u, w
<1>5. v \o <<a, b, c>> = <<"v1", a, b, c>>
  <2> DEFINE u == <<a, b, c>>
             w == <<"v1", a, b, c>>
  <2>1. /\ Len(u) = 3 /\ Len(w) = 4 /\ u[1] = a /\ u[2] = b /\ u[3] = c
        /\ w[1] = "v1" /\ w[2] = a /\ w[3] = b /\ w[4] = c
        OBVIOUS
  <2>2. u \in Seq(S) /\ w \in Seq(S) BY <1>1
  <2> HIDE DEF u, w
  <2>3. /\ Len(w) = Len(v) + Len(u) /\ \A i \in 1..Len(v) : w[i] = v[i]
        /\ \A i \in 1..Len(u) : w[Len(v) + i] = u[i]
        BY <1>2, <2>1
  <2>4. v \o u = w BY <1>1, <2>2, <2>3, Joins
  <2> QED BY <2>4 DEF u, w
<1> QED BY <1>3, <1>4, <1>5 DEF v

\* Their labels have as many segments, and keep the last one unless it is a table's name.
LEMMA LabelOfOne == ASSUME NEW a PROVE NormalizePath(<<"v1", a>>) = <<"v1", a>>
<1>1. Len(<<"v1", a>>) = 2 OBVIOUS
<1> QED BY <1>1 DEF NormalizePath

LEMMA LabelOfTwo ==
    ASSUME NEW a, NEW b
    PROVE  /\ Len(NormalizePath(<<"v1", a, b>>)) = 3
           /\ NormalizePath(<<"v1", a, b>>)[3] =
                 IF b \in Underscored \cup {"_tables"} THEN b ELSE "{table}"
<1> DEFINE path == <<"v1", a, b>>
<1>1. path[1] = "v1" /\ Len(path) = 3 /\ path[3] = b /\ SubSeq(path, 4, 3) = <<>> OBVIOUS
<1> HIDE DEF path
<1>2. /\ b \in Underscored \cup {"_tables"} => NormalizePath(path) = <<"v1", "{db}", b>>
      /\ b \notin Underscored \cup {"_tables"} =>
            NormalizePath(path) = <<"v1", "{db}", "{table}">> \o SubSeq(path, 4, Len(path))
  <2>1. ~(path[1] # "v1" \/ Len(path) <= 2) BY <1>1
  <2> QED BY <1>1, <2>1 DEF NormalizePath
<1>3. <<"v1", "{db}", "{table}">> \o SubSeq(path, 4, Len(path)) = <<"v1", "{db}", "{table}">>
  <2>1. SubSeq(path, 4, Len(path)) = <<>> BY <1>1
  <2>2. <<"v1", "{db}", "{table}">> \o <<>> = <<"v1", "{db}", "{table}">> OBVIOUS
  <2> QED BY <2>1, <2>2
<1>4. /\ Len(<<"v1", "{db}", b>>) = 3 /\ <<"v1", "{db}", b>>[3] = b
      /\ Len(<<"v1", "{db}", "{table}">>) = 3 /\ <<"v1", "{db}", "{table}">>[3] = "{table}"
      OBVIOUS
<1>5. CASE b \in Underscored \cup {"_tables"} BY <1>2, <1>4, <1>5 DEF path
<1>6. CASE b \notin Underscored \cup {"_tables"} BY <1>2, <1>3, <1>4, <1>6 DEF path
<1> QED BY <1>5, <1>6

LEMMA LabelOfThree ==
    ASSUME NEW a, NEW b, NEW c
    PROVE  Len(NormalizePath(<<"v1", a, b, c>>)) = 4 /\ NormalizePath(<<"v1", a, b, c>>)[4] = c
<1> DEFINE path == <<"v1", a, b, c>>
           S == {"v1", "{db}", "{table}", a, b, c}
           rest == SubSeq(path, 4, 4)
           front == <<"v1", "{db}", "{table}">>
<1>1. path[1] = "v1" /\ Len(path) = 4 /\ path[4] = c /\ path \in Seq(S) /\ c \in S OBVIOUS
<1>2. Len(front) = 3 /\ front \in Seq(S) OBVIOUS
<1> HIDE DEF path, S, front
<1>3. rest \in Seq(S) /\ Len(rest) = 1 /\ rest[1] = c
  <2>1. \A i \in 4..4 : path[i] \in S BY <1>1
  <2>2. /\ rest \in Seq(S) /\ Len(rest) = IF 4 <= 4 THEN 4 - 4 + 1 ELSE 0
        /\ \A i \in 1..(4 - 4 + 1) : rest[i] = path[4 + i - 1]
        BY <2>1, SubSeqProperties
  <2> HIDE DEF rest
  <2> QED BY <1>1, <2>2
<1>4. NormalizePath(path) = front \o rest BY <1>1 DEF NormalizePath, front
<1> HIDE DEF rest
<1>5. /\ Len(front \o rest) = 4
      /\ \A i \in 1..4 : (front \o rest)[i] = IF i <= 3 THEN front[i] ELSE rest[i - 3]
      BY <1>2, <1>3, ConcatProperties
<1>6. (front \o rest)[4] = rest[1] BY <1>5
<1>7. Len(NormalizePath(path)) = 4 /\ NormalizePath(path)[4] = c BY <1>3, <1>4, <1>5, <1>6
<1> QED BY <1>7 DEF path

Operations ==
    {"list_databases", "create_database", "drop_database", "list_tables", "create_table",
     "table_info", "table_info_put", "prefix_scan", "list_partitions", "drop_table",
     "lookup", "batch_lookup", "scan", "list_offsets", "produce"}

LEMMA RequestHasNames ==
    ASSUME NEW q \in AnyRequest
    PROVE  /\ q.op \in Operations
           /\ q.op = "drop_database" => "db" \in DOMAIN q
           /\ q.op = "lookup" => "table" \in DOMAIN q
BY DEF AnyRequest, DatabaseRequests, CreateTableRequests, TableRequests, LookupRequests,
       ScanParams, ListOffsetsRequests, ProduceRequests, Operations

\* What tells the label of an operation from those of others with its method.
Marks(op, label) ==
    /\ op \in {"list_databases", "create_database"} => Len(label) = 2
    /\ op = "drop_database" => Len(label) = 3
    /\ op \in {"list_tables", "create_table"} => Len(label) = 3 /\ label[3] = "_tables"
    /\ op = "lookup" => Len(label) = 3 /\ label[3] # "_tables"
    /\ op \in {"table_info_put", "drop_table"} => Len(label) = 4
    /\ op \in DOMAIN Suffix => Len(label) = 4 /\ label[4] = Suffix[op]

LEMMA LabelOf ==
    ASSUME NEW r \in Slots, NEW q \in Requests[r]
    PROVE  Marks(q.op, NormalizePath(Segments(q)))
<1> DEFINE label == NormalizePath(Segments(q))
<1>1. CASE q.op \in {"list_databases", "create_database"}
  <2>1. Segments(q) = <<"v1">> \o <<"_databases">> BY <1>1 DEF Segments
  <2>2. label = <<"v1", "_databases">> BY <2>1, Paths, LabelOfOne
  <2>3. Len(<<"v1", "_databases">>) = 2 OBVIOUS
  <2> QED BY <1>1, <2>2, <2>3 DEF Marks, Suffix
<1>2. CASE q.op = "drop_database"
  <2>1. Segments(q) = <<"v1">> \o <<"_databases", q.db>> BY <1>2 DEF Segments
  <2>2. Segments(q) = <<"v1", "_databases", q.db>> BY <2>1, Paths
  <2> DEFINE db == q.db
  <2>3. Len(label) = 3
    <3>1. label = NormalizePath(<<"v1", "_databases", db>>) BY <2>2
    <3> HIDE DEF db, label
    <3> QED BY <3>1, LabelOfTwo
  <2> QED BY <1>2, <2>3 DEF Marks, Suffix
<1>3. CASE q.op \in {"list_tables", "create_table"}
  <2>1. Segments(q) = <<"v1">> \o <<q.db, "_tables">> BY <1>3 DEF Segments
  <2>2. Segments(q) = <<"v1", q.db, "_tables">> BY <2>1, Paths
  <2>3. Len(label) = 3 /\ label[3] = "_tables" BY <2>2, LabelOfTwo
  <2> QED BY <1>3, <2>3 DEF Marks, Suffix
<1>4. CASE q.op = "lookup"
  <2>1. Segments(q) = <<"v1">> \o <<q.db, q.table>> BY <1>4 DEF Segments
  <2>2. Segments(q) = <<"v1", q.db, q.table>> BY <2>1, Paths
  <2> DEFINE db == q.db
             table == q.table
  <2>3. /\ Len(label) = 3
        /\ label[3] = IF table \in Underscored \cup {"_tables"} THEN table ELSE "{table}"
    <3>1. label = NormalizePath(<<"v1", db, table>>) BY <2>2
    <3> HIDE DEF db, table, label
    <3> QED BY <3>1, LabelOfTwo
  <2>4. q.table # "_tables" BY <1>4, RequestOf, RequestHasNames, RequestsAssumption
  <2>5. label[3] # "_tables" BY <2>3, <2>4
  <2> QED BY <1>4, <2>3, <2>5 DEF Marks, Suffix
<1>5. CASE q.op \in {"table_info_put", "drop_table"}
  <2>1. Segments(q) = <<"v1">> \o <<q.db, "_tables", q.table>> BY <1>5 DEF Segments
  <2>2. Segments(q) = <<"v1", q.db, "_tables", q.table>> BY <2>1, Paths
  <2>3. Len(label) = 4 BY <2>2, LabelOfThree
  <2> QED BY <1>5, <2>3 DEF Marks, Suffix
<1>6. CASE q.op \in DOMAIN Suffix
  <2>1. Segments(q) = <<"v1">> \o <<q.db, q.table, Suffix[q.op]>>
    <3>1. q.op \notin {"list_databases", "create_database", "drop_database", "list_tables",
                       "create_table", "table_info_put", "drop_table", "lookup"}
          BY <1>6 DEF Suffix
    <3> QED BY <3>1 DEF Segments
  <2>2. Segments(q) = <<"v1", q.db, q.table, Suffix[q.op]>> BY <2>1, Paths
  <2>3. Len(label) = 4 /\ label[4] = Suffix[q.op] BY <2>2, LabelOfThree
  <2> QED BY <1>6, <2>3 DEF Marks, Suffix
<1>7. q.op \in {"list_databases", "create_database", "drop_database", "list_tables",
                "create_table", "table_info_put", "drop_table", "lookup"} \cup DOMAIN Suffix
      BY RequestOf, RequestHasNames DEF Operations, Suffix
<1> QED BY <1>1, <1>2, <1>3, <1>4, <1>5, <1>6, <1>7

Suffixed ==
    {"table_info", "prefix_scan", "batch_lookup", "scan", "produce", "list_offsets",
     "list_partitions"}

LEMMA SuffixesDiffer ==
    /\ DOMAIN Suffix = Suffixed
    /\ \A o, p \in Suffixed : Suffix[o] = Suffix[p] => o = p
BY DEF Suffix, Suffixed

LEMMA PostsDiffer ==
    ASSUME NEW o \in {"create_database", "create_table", "batch_lookup", "scan", "produce",
                      "list_offsets"},
           NEW p \in {"create_database", "create_table", "batch_lookup", "scan", "produce",
                      "list_offsets"},
           NEW label, Marks(o, label), Marks(p, label)
    PROVE  o = p
<1>1. CASE o = "create_database" BY <1>1, SuffixesDiffer DEF Marks, Suffixed
<1>2. CASE o = "create_table" BY <1>2, SuffixesDiffer DEF Marks, Suffixed
<1>3. CASE o \in Suffixed /\ p \in Suffixed BY <1>3, SuffixesDiffer DEF Marks
<1>4. CASE o \in Suffixed /\ p \notin Suffixed BY <1>4, SuffixesDiffer DEF Marks, Suffixed
<1> QED BY <1>1, <1>2, <1>3, <1>4 DEF Suffixed

LEMMA GetsDiffer ==
    ASSUME NEW o \in {"list_databases", "list_tables", "table_info", "prefix_scan",
                      "list_partitions", "lookup"},
           NEW p \in {"list_databases", "list_tables", "table_info", "prefix_scan",
                      "list_partitions", "lookup"},
           NEW label, Marks(o, label), Marks(p, label)
    PROVE  o = p
<1>1. CASE o = "list_databases" BY <1>1, SuffixesDiffer DEF Marks, Suffixed
<1>2. CASE o = "list_tables" BY <1>2, SuffixesDiffer DEF Marks, Suffixed
<1>3. CASE o = "lookup" BY <1>3, SuffixesDiffer DEF Marks, Suffixed
<1>4. CASE o \in Suffixed /\ p \in Suffixed BY <1>4, SuffixesDiffer DEF Marks
<1>5. CASE o \in Suffixed /\ p \notin Suffixed BY <1>5, SuffixesDiffer DEF Marks, Suffixed
<1> QED BY <1>1, <1>2, <1>3, <1>4, <1>5 DEF Suffixed

\* GatewayServer::app and metrics::normalize_path: a request is counted with those of
\* its own operation only, whatever its database and its table are called.
THEOREM SeriesAreApart == Spec => []SeriesTellRoutesApart
<1>1. IInv => SeriesTellRoutesApart
  <2> SUFFICES ASSUME IInv, NEW r \in Slots, handler[r].pc = "done",
                      NEW s \in Slots, NEW q \in Requests[s],
                      Method(handler[r].req) = Method(q),
                      NormalizePath(Segments(handler[r].req)) = NormalizePath(Segments(q))
               PROVE  handler[r].req.op = q.op
      BY DEF SeriesTellRoutesApart
  <2> DEFINE p == handler[r].req
             label == NormalizePath(Segments(p))
  <2>1. p \in Requests[r] BY DEF IInv, Undisturbed, Typed
  <2>2. p.op \in Operations /\ q.op \in Operations BY <2>1, RequestOf, RequestHasNames
  <2>3. Marks(p.op, label) BY <2>1, LabelOf
  <2>4. Marks(q.op, label) BY LabelOf
  <2>5. Method(p) = Method(q) OBVIOUS
  <2> HIDE DEF label, p
  <2> SUFFICES p.op = q.op BY DEF p
  <2>6. CASE Method(q) = "POST"
    <3>1. {p.op, q.op} \subseteq {"create_database", "create_table", "batch_lookup", "scan",
                                  "produce", "list_offsets"}
          BY <2>2, <2>5, <2>6 DEF Method, Operations
    <3> QED BY <2>3, <2>4, <3>1, PostsDiffer
  <2>7. CASE Method(q) = "DELETE"
    <3>1. {p.op, q.op} \subseteq {"drop_database", "drop_table"}
          BY <2>2, <2>5, <2>7 DEF Method, Operations
    <3> QED BY <2>3, <2>4, <3>1 DEF Marks
  <2>8. CASE Method(q) = "PUT" BY <2>2, <2>5, <2>8 DEF Method, Operations
  <2>9. CASE Method(q) = "GET"
    <3>1. {p.op, q.op} \subseteq {"list_databases", "list_tables", "table_info", "prefix_scan",
                                  "list_partitions", "lookup"}
          BY <2>2, <2>5, <2>9 DEF Method, Operations
    <3> QED BY <2>3, <2>4, <3>1, GetsDiffer
  <2>10. Method(q) \in {"POST", "DELETE", "PUT", "GET"} BY DEF Method
  <2> QED BY <2>6, <2>7, <2>8, <2>9, <2>10
<1> QED BY <1>1, Invariance, PTL

(***************************************************************************)
(* Scans.                                                                  *)
(***************************************************************************)

\* The rows are, of each bucket, the first of its log, each as the table shows it.
Begins(t, out) ==
    \E place \in [DOMAIN out -> Nat] : \A i \in DOMAIN out : LET b == out[i].bucket IN
       /\ b \in DOMAIN t.log /\ place[i] \in DOMAIN t.log[b]
       /\ \A name \in DOMAIN out[i].row :
             out[i].row[name] = DatumToJson(t.log[b][place[i]][Column(t, name)])
       /\ {place[j] : j \in {k \in 1..(i - 1) : out[k].bucket = b}} = 1..(place[i] - 1)

\* A scan is one of a log table, begins at the first offset of each bucket, and has
\* returned the rows that come first there.
Scans(r) ==
    LET h == handler[r]
        t == tables[h.table]
    IN  h.req.op = "scan" =>
          /\ h.pc = "poll" =>
                /\ h.table \in DOMAIN tables /\ t.pk = <<>>
                /\ h.carry = [b \in DOMAIN t.log |-> 0]
                /\ Projected(t, h.req.projection) \subseteq DOMAIN t.columns
          /\ Succeeded(r) =>
                /\ h.table \in DOMAIN tables /\ t.pk = <<>>
                /\ Begins(t, h.out)
                /\ \A n \in h.req.limit : Len(h.out) <= n

\* A table without a primary key only gains rows, each bucket at its end.
LogsGrow ==
    \A id \in DOMAIN tables : tables[id].pk = <<>> =>
       /\ id \in DOMAIN tables' /\ tables'[id].pk = <<>>
       /\ tables'[id].columns = tables[id].columns
       /\ DOMAIN tables'[id].log = DOMAIN tables[id].log
       /\ \A b \in DOMAIN tables[id].log : \A i \in DOMAIN tables[id].log[b] :
             i \in DOMAIN tables'[id].log[b] /\ tables'[id].log[b][i] = tables[id].log[b][i]

LEMMA ScansKept ==
    ASSUME NEW r \in Slots, Scans(r), LogsGrow, handler'[r] = handler[r]
    PROVE  Scans(r)'
<1> DEFINE h == handler[r]
           t == tables[h.table]
           u == tables'[h.table]
<1> SUFFICES ASSUME h.req.op = "scan" PROVE Scans(r)' BY DEF Scans
<1>1. ASSUME h.table \in DOMAIN tables, t.pk = <<>>
      PROVE  /\ h.table \in DOMAIN tables' /\ u.pk = <<>>
             /\ u.columns = t.columns /\ DOMAIN u.log = DOMAIN t.log
             /\ \A b \in DOMAIN t.log : \A i \in DOMAIN t.log[b] :
                   i \in DOMAIN u.log[b] /\ u.log[b][i] = t.log[b][i]
      BY <1>1 DEF LogsGrow
<1>2. ASSUME h.pc = "poll"
      PROVE  /\ h.table \in DOMAIN tables' /\ u.pk = <<>>
             /\ h.carry = [b \in DOMAIN u.log |-> 0]
             /\ Projected(u, h.req.projection) \subseteq DOMAIN u.columns
      BY <1>1, <1>2 DEF Scans, Projected
<1>3. ASSUME Succeeded(r)
      PROVE  /\ h.table \in DOMAIN tables' /\ u.pk = <<>>
             /\ Begins(u, h.out)
             /\ \A n \in h.req.limit : Len(h.out) <= n
  <2>1. /\ h.table \in DOMAIN tables /\ t.pk = <<>> /\ Begins(t, h.out)
        /\ \A n \in h.req.limit : Len(h.out) <= n
        BY <1>3 DEF Scans
  <2>2. \A name : Column(u, name) = Column(t, name) BY <1>1, <2>1 DEF Column
  <2>3. Begins(u, h.out)
    <3> DEFINE Row(i, x, n) == \A name \in DOMAIN h.out[i].row :
                  h.out[i].row[name] = DatumToJson(x.log[h.out[i].bucket][n][Column(x, name)])
               Before(i, p) ==
                  {p[j] : j \in {k \in 1..(i - 1) : h.out[k].bucket = h.out[i].bucket}}
    <3>1. PICK place \in [DOMAIN h.out -> Nat] : \A i \in DOMAIN h.out :
             /\ h.out[i].bucket \in DOMAIN t.log /\ place[i] \in DOMAIN t.log[h.out[i].bucket]
             /\ Row(i, t, place[i])
             /\ Before(i, place) = 1..(place[i] - 1)
          BY <2>1 DEF Begins
    <3>2. ASSUME NEW i \in DOMAIN h.out
          PROVE  /\ h.out[i].bucket \in DOMAIN u.log /\ place[i] \in DOMAIN u.log[h.out[i].bucket]
                 /\ Row(i, u, place[i])
                 /\ Before(i, place) = 1..(place[i] - 1)
      <4>1. /\ h.out[i].bucket \in DOMAIN t.log /\ place[i] \in DOMAIN t.log[h.out[i].bucket]
            /\ Row(i, t, place[i]) /\ Before(i, place) = 1..(place[i] - 1)
            BY <3>1
      <4>2. /\ h.out[i].bucket \in DOMAIN u.log /\ place[i] \in DOMAIN u.log[h.out[i].bucket]
            /\ u.log[h.out[i].bucket][place[i]] = t.log[h.out[i].bucket][place[i]]
            BY <1>1, <2>1, <4>1
      <4>3. Row(i, u, place[i]) BY <2>2, <4>1, <4>2
      <4> HIDE DEF Row, Before
      <4> QED BY <4>1, <4>2, <4>3
    <3> QED BY <3>2 DEF Begins
  <2> QED BY <1>1, <2>1, <2>3
<1>4. Succeeded(r)' <=> Succeeded(r) BY DEF Succeeded
<1> QED BY <1>2, <1>3, <1>4 DEF Scans

\* What a poll brings of a log that is read from its first offsets on.
LEMMA PolledFromTheStart ==
    ASSUME NEW log, IsSeq(log), \A b \in DOMAIN log : IsSeq(log[b]),
           NEW seen \in Polled(log, [b \in DOMAIN log |-> 0])
    PROVE  \E n \in Nat :
             /\ DOMAIN seen = 1..n /\ seen = [i \in 1..n |-> seen[i]]
             /\ \A i \in 1..n :
                   /\ seen[i][1] \in DOMAIN log
                   /\ seen[i][2] \in Nat /\ seen[i][2] \in DOMAIN log[seen[i][1]]
                   /\ {seen[j][2] : j \in {k \in 1..(i - 1) : seen[k][1] = seen[i][1]}}
                        = 1..(seen[i][2] - 1)
<1> DEFINE from == [b \in DOMAIN log |-> 0]
           places(upto) == UNION {{b} \X ((from[b] + 1)..upto[b]) : b \in DOMAIN log}
<1>1. PICK upto \in [DOMAIN log -> 0..MaxRows] :
         /\ \A b \in DOMAIN log : upto[b] \in from[b]..Len(log[b])
         /\ seen \in SetToSeqs(places(upto))
         /\ \A i, j \in DOMAIN seen : i < j /\ seen[i][1] = seen[j][1] => seen[i][2] < seen[j][2]
      BY DEF Polled
<1> DEFINE P == {p \in (DOMAIN log) \X (1..MaxRows) : p[2] <= upto[p[1]]}
<1>2. MaxRows \in Nat BY BoundsAssumption
<1>3. ASSUME NEW b \in DOMAIN log, NEW k \in 1..MaxRows, k <= upto[b] PROVE <<b, k>> \in P
       BY <1>3
<1>4. ASSUME NEW p \in P
       PROVE  /\ p[1] \in DOMAIN log /\ p[2] \in 1..MaxRows /\ p[2] <= upto[p[1]]
              /\ p = <<p[1], p[2]>>
       OBVIOUS
<1>5. places(upto) = P
  <2>1. \A b \in DOMAIN log : from[b] = 0 /\ upto[b] \in 0..MaxRows BY <1>1
  <2> HIDE DEF P
  <2>2. ASSUME NEW b \in DOMAIN log, NEW k \in (from[b] + 1)..upto[b]
        PROVE  <<b, k>> \in P
    <3>1. k \in 1..MaxRows /\ k <= upto[b] BY <1>2, <2>1
    <3> QED BY <1>3, <3>1
  <2>3. ASSUME NEW p \in P PROVE p \in places(upto)
    <3>1. /\ p[1] \in DOMAIN log /\ p[2] \in (from[p[1]] + 1)..upto[p[1]]
          /\ p = <<p[1], p[2]>>
          BY <1>2, <1>4, <2>1
    <3> HIDE DEF from
    <3>2. p \in {p[1]} \X ((from[p[1]] + 1)..upto[p[1]]) BY <3>1
    <3> QED BY <3>1, <3>2
  <2> HIDE DEF from
  <2> QED BY <2>2, <2>3
<1>6. DOMAIN log = 1..Len(log) /\ Len(log) \in Nat BY SeqOfAnything
<1>7. IsFiniteSet(P)
  <2>1. IsFiniteSet(1..Len(log)) /\ IsFiniteSet(1..MaxRows) BY <1>2, <1>6, FS_Interval
  <2>2. IsFiniteSet((1..Len(log)) \X (1..MaxRows)) BY <2>1, FS_Product
  <2>3. P \subseteq (DOMAIN log) \X (1..MaxRows) OBVIOUS
  <2> HIDE DEF P
  <2>4. P \subseteq (1..Len(log)) \X (1..MaxRows) BY <1>6, <2>3
  <2> QED BY <2>2, <2>4, FS_Subset
<1> DEFINE n == Cardinality(P)
<1>8. n \in Nat BY <1>7, FS_CardinalityType
<1>9. seen \in [1..n -> P] /\ \A i, j \in 1..n : seen[i] = seen[j] => i = j
  <2>1. seen \in SetToSeqs(P) BY <1>1, <1>5
  <2> HIDE DEF P
  <2> QED BY <2>1 DEF SetToSeqs, IsInjective
<1>10. \A p \in P : \E i \in 1..n : seen[i] = p
  <2> HIDE DEF P
  <2>1. seen \in Injection(1..n, P) BY <1>9 DEF Injection, IsInjective
  <2>2. Cardinality(1..n) = n BY <1>8, FS_Interval
  <2>3. seen \in Surjection(1..n, P) BY <1>7, <2>1, <2>2, FS_Injection
  <2> QED BY <2>3 DEF Surjection
<1>11. \A p \in P : /\ p[1] \in DOMAIN log /\ p[2] \in 1..upto[p[1]] /\ p = <<p[1], p[2]>>
                   /\ p[2] \in DOMAIN log[p[1]]
  <2> SUFFICES ASSUME NEW p \in P
               PROVE  /\ p[1] \in DOMAIN log /\ p[2] \in 1..upto[p[1]] /\ p = <<p[1], p[2]>>
                      /\ p[2] \in DOMAIN log[p[1]]
      OBVIOUS
  <2>1. p[1] \in DOMAIN log /\ p[2] \in 1..MaxRows /\ p[2] <= upto[p[1]] /\ p = <<p[1], p[2]>>
        BY <1>4
  <2>2. DOMAIN log[p[1]] = 1..Len(log[p[1]]) /\ Len(log[p[1]]) \in Nat BY <2>1, SeqOfAnything
  <2>3. upto[p[1]] \in 0..Len(log[p[1]]) BY <1>1, <2>1
  <2> HIDE DEF P
  <2> QED BY <1>2, <2>1, <2>2, <2>3
<1>12. \A b \in DOMAIN log, k \in Nat : k \in 1..upto[b] => <<b, k>> \in P
  <2> SUFFICES ASSUME NEW b \in DOMAIN log, NEW k \in Nat, k \in 1..upto[b] PROVE <<b, k>> \in P
      OBVIOUS
  <2>1. upto[b] \in 0..MaxRows BY <1>1
  <2>2. k \in 1..MaxRows /\ k <= upto[b] BY <1>2, <2>1
  <2> QED BY <1>3, <2>2
<1> HIDE DEF P, n
<1>13. ASSUME NEW i \in 1..n
       PROVE  {seen[j][2] : j \in {k \in 1..(i - 1) : seen[k][1] = seen[i][1]}}
                 = 1..(seen[i][2] - 1)
  <2> DEFINE b == seen[i][1]
             m == seen[i][2]
  <2>1. seen[i] \in P /\ b \in DOMAIN log /\ m \in 1..upto[b] /\ upto[b] \in Nat
    <3>1. seen[i] \in P BY <1>9
    <3>2. b \in DOMAIN log /\ m \in 1..upto[b] BY <1>11, <3>1
    <3>3. upto[b] \in 0..MaxRows BY <1>1, <3>2
    <3> QED BY <1>2, <3>1, <3>2, <3>3
  <2>2. ASSUME NEW j \in 1..(i - 1), seen[j][1] = b PROVE seen[j][2] \in 1..(m - 1)
    <3>1. j \in 1..n /\ j < i BY <1>8
    <3>2. seen[j] \in P /\ DOMAIN seen = 1..n BY <1>9, <3>1
    <3>3. seen[j][2] \in 1..upto[b] BY <1>11, <2>2, <3>2
    <3>4. seen[j][2] < m BY <1>1, <2>2, <3>1, <3>2
    <3> QED BY <2>1, <3>3, <3>4
  <2>3. ASSUME NEW k \in 1..(m - 1)
        PROVE  \E j \in 1..(i - 1) : seen[j][1] = b /\ seen[j][2] = k
    <3>1. k \in Nat /\ k \in 1..upto[b] /\ k < m BY <2>1
    <3>2. <<b, k>> \in P BY <1>12, <2>1, <3>1
    <3>3. PICK j \in 1..n : seen[j] = <<b, k>> BY <1>10, <3>2
    <3>4. seen[j][1] = b /\ seen[j][2] = k /\ DOMAIN seen = 1..n BY <1>9, <3>3
    <3>5. ~(i < j) BY <1>1, <2>1, <3>1, <3>4
    <3>6. i # j BY <2>1, <3>1, <3>4
    <3>7. j \in 1..(i - 1) BY <1>8, <3>5, <3>6
    <3> QED BY <3>4, <3>7
  <2> QED BY <2>2, <2>3
<1>14. DOMAIN seen = 1..n /\ seen = [i \in 1..n |-> seen[i]] BY <1>9
<1>15. ASSUME NEW i \in 1..n
       PROVE  /\ seen[i][1] \in DOMAIN log
              /\ seen[i][2] \in Nat /\ seen[i][2] \in DOMAIN log[seen[i][1]]
  <2>1. seen[i] \in P BY <1>9
  <2>2. seen[i][2] \in 1..upto[seen[i][1]] BY <1>11, <2>1
  <2>3. seen[i][2] \in Nat BY <2>2
  <2> QED BY <1>11, <2>1, <2>3
<1> QED BY <1>8, <1>13, <1>14, <1>15

(***************************************************************************)
(* Logs.                                                                   *)
(***************************************************************************)

LEMMA TheLogsStay == ASSUME UNCHANGED tables PROVE LogsGrow
BY DEF LogsGrow

LEMMA WithoutKeepsLogs ==
    ASSUME Catalogue, NEW ids, tables' = Without(ids)
    PROVE  LogsGrow
<1> SUFFICES ASSUME NEW id \in DOMAIN tables
             PROVE  /\ id \in DOMAIN tables'
                    /\ \A f \in {"pk", "columns", "log"} : tables'[id][f] = tables[id][f]
    BY DEF LogsGrow
<1>1. DOMAIN tables[id] = {"db", "name", "columns", "pk", "by", "live", "log"}
      BY DEF Catalogue, IsTable
<1> QED BY <1>1 DEF Without

LEMMA AppendKeepsLogs ==
    ASSUME Catalogue, NEW t, tables' = Append(tables, t)
    PROVE  LogsGrow
<1>1. IsSeq(tables) /\ DOMAIN tables = 1..Len(tables) /\ Len(tables) \in Nat
      BY SeqOfAnything DEF Catalogue
<1>2. IsSeq(tables') /\ Len(tables') = Len(tables) + 1
      /\ \A id \in DOMAIN tables : tables'[id] = tables[id]
      BY <1>1, AppendIsSeq
<1>3. DOMAIN tables' = 1..(Len(tables) + 1) BY <1>2, SeqOfAnything
<1> QED BY <1>1, <1>2, <1>3 DEF LogsGrow

LEMMA WriteKeepsLogs ==
    ASSUME IInv, NEW r \in Slots, Write(r)
    PROVE  LogsGrow
<1> DEFINE h == handler[r]
           t == tables[h.table]
<1>1. CASE UNCHANGED tables BY <1>1, TheLogsStay
<1>2. CASE ~UNCHANGED tables
  <2>1. PICK log \in LogsAfter(t, h.carry, h.req.delete) :
           tables' = [tables EXCEPT ![h.table].log = log]
        BY <1>2 DEF Write, Unchanging, catalogue
  <2>2. /\ call[r] = "sent" /\ h.req.op = "produce" BY DEF Write, Sent
  <2>3. h.table \in DOMAIN tables BY <2>2 DEF IInv, Undisturbed, Writes
  <2>4. IsTable(t) /\ UniqueKeys(t) BY <2>3 DEF IInv, Catalogue
  <2>5. IsLog(t, t.log) /\ DOMAIN t = {"db", "name", "columns", "pk", "by", "live", "log"}
        BY <2>4, TableHasLog DEF IsTable
  <2>6. ASSUME t.pk = <<>>
        PROVE  /\ DOMAIN log = DOMAIN t.log
               /\ \A b \in DOMAIN t.log : \A i \in DOMAIN t.log[b] :
                     i \in DOMAIN log[b] /\ log[b][i] = t.log[b][i]
    <3>1. PICK c \in DOMAIN t.log : log = [t.log EXCEPT ![c] = Append(@, h.carry)]
          BY <2>1, <2>6 DEF LogsAfter
    <3>2. IsSeq(t.log[c]) /\ DOMAIN t.log[c] = 1..Len(t.log[c]) /\ Len(t.log[c]) \in Nat
          BY <2>5, SeqOfAnything DEF IsLog
    <3> DEFINE new == Append(t.log[c], h.carry)
    <3>3. /\ IsSeq(new) /\ Len(new) = Len(t.log[c]) + 1
          /\ \A i \in DOMAIN t.log[c] : new[i] = t.log[c][i]
          BY <3>2, AppendIsSeq
    <3>4. log = [t.log EXCEPT ![c] = new] BY <3>1
    <3> HIDE DEF new
    <3>5. DOMAIN new = 1..(Len(t.log[c]) + 1) BY <3>3, SeqOfAnything
    <3>6. \A i \in DOMAIN t.log[c] : i \in DOMAIN new BY <3>2, <3>5
    <3>7. /\ DOMAIN log = DOMAIN t.log /\ log[c] = new
          /\ \A b \in DOMAIN t.log \ {c} : log[b] = t.log[b]
          BY <3>4
    <3> QED BY <3>3, <3>6, <3>7
  <2>7. /\ DOMAIN tables' = DOMAIN tables
        /\ \A id \in DOMAIN tables \ {h.table} : tables'[id] = tables[id]
        /\ tables'[h.table].pk = t.pk /\ tables'[h.table].columns = t.columns
        /\ tables'[h.table].log = log
    <3>1. tables' = [tables EXCEPT ![h.table] = [t EXCEPT !.log = log]] BY <2>1
    <3>2. tables'[h.table] = [t EXCEPT !.log = log] BY <2>3, <3>1
    <3> QED BY <2>5, <3>1, <3>2
  <2>8. ASSUME NEW id \in DOMAIN tables, tables[id].pk = <<>>
        PROVE  /\ id \in DOMAIN tables' /\ tables'[id].pk = <<>>
               /\ tables'[id].columns = tables[id].columns
               /\ DOMAIN tables'[id].log = DOMAIN tables[id].log
               /\ \A b \in DOMAIN tables[id].log : \A i \in DOMAIN tables[id].log[b] :
                     /\ i \in DOMAIN tables'[id].log[b]
                     /\ tables'[id].log[b][i] = tables[id].log[b][i]
    <3>1. CASE id = h.table BY <2>6, <2>7, <2>8, <3>1
    <3>2. CASE id # h.table BY <2>7, <2>8, <3>2
    <3> QED BY <3>1, <3>2
  <2> QED BY <2>8 DEF LogsGrow
<1> QED BY <1>1, <1>2

(***************************************************************************)
(* Steps of one slot.                                                      *)
(***************************************************************************)

\* The end of a request, as far as its answer goes.
LEMMA EndsAs ==
    ASSUME IInv, NEW r \in Slots, NEW new, Ends(r, new), "req" \notin DOMAIN new
    PROVE  /\ \A s \in Slots \ {r} : handler'[s] = handler[s] /\ call'[s] = call[s]
           /\ handler'[r].req = handler[r].req
           /\ call'[r] = IF call[r] = "sent" THEN "sent" ELSE "none"
           /\ "pc" \in DOMAIN new => handler'[r].pc = new["pc"]
           /\ handler[r].pc \in Running =>
                 handler'[r].answer = IF "answer" \in DOMAIN new THEN new["answer"] ELSE NoAnswer
           /\ call[r] = "sent" /\ "table" \notin DOMAIN new =>
                 handler'[r].table = handler[r].table
<1> DEFINE h == handler[r]
           kept == IF call[r] = "sent" THEN h ELSE [Idle EXCEPT !.req = h.req]
<1>1. DOMAIN handler = Slots /\ call \in [Slots -> Calls] /\ IsHandler(h)
      /\ (h.pc \in Running => h.answer = NoAnswer)
      BY DEF IInv, Undisturbed, Typed, Running
<1>2. DOMAIN kept = Fields /\ kept.req = h.req /\ (h.pc \in Running => kept.answer = NoAnswer)
      /\ (call[r] = "sent" => kept = h)
      BY <1>1 DEF IsHandler, Fields, Idle
<1>3. handler' = [handler EXCEPT ![r] = With(kept, new)] BY DEF Ends
<1>4. call' = [call EXCEPT ![r] = IF call[r] = "sent" THEN "sent" ELSE "none"]
      BY <1>1 DEF Ends
<1> HIDE DEF kept
<1>5. handler'[r] = [f \in Fields |-> IF f \in DOMAIN new THEN new[f] ELSE kept[f]]
      BY <1>1, <1>2, <1>3 DEF With
<1>6. \A s \in Slots \ {r} : handler'[s] = handler[s] /\ call'[s] = call[s]
      BY <1>1, <1>3, <1>4
<1>7. call'[r] = IF call[r] = "sent" THEN "sent" ELSE "none" BY <1>1, <1>4
<1> QED BY <1>2, <1>5, <1>6, <1>7 DEF Fields

\* One that is not answered, or not with a success, is no scan that has succeeded.
LEMMA EndsUnsuccessfully ==
    ASSUME IInv, NEW r \in Slots, handler[r].pc \in Running,
           \/ Ends(r, [pc |-> "gone"])
           \/ \E answer : /\ answer.status = 500
                          /\ Ends(r, [pc |-> "done", answer |-> answer])
    PROVE  Scans(r)' /\ \A s \in Slots \ {r} : handler'[s] = handler[s]
<1>1. NoAnswer.status = 0 BY DEF NoAnswer
<1>2. CASE Ends(r, [pc |-> "gone"])
  <2> DEFINE new == [pc |-> "gone"]
  <2>1. DOMAIN new = {"pc"} /\ new["pc"] = "gone" /\ Ends(r, new) BY <1>2
  <2> HIDE DEF new
  <2>2. /\ handler'[r].pc = "gone" /\ handler'[r].answer = NoAnswer
        /\ \A s \in Slots \ {r} : handler'[s] = handler[s]
        BY <2>1, EndsAs
  <2> QED BY <1>1, <2>2 DEF Scans, Succeeded
<1>3. CASE \E answer : answer.status = 500 /\ Ends(r, [pc |-> "done", answer |-> answer])
  <2>1. PICK answer : answer.status = 500 /\ Ends(r, [pc |-> "done", answer |-> answer]) BY <1>3
  <2> DEFINE new == [pc |-> "done", answer |-> answer]
  <2>2. /\ DOMAIN new = {"pc", "answer"} /\ new["pc"] = "done" /\ new["answer"] = answer
        /\ Ends(r, new)
        BY <2>1
  <2> HIDE DEF new
  <2>3. /\ handler'[r].pc = "done" /\ handler'[r].answer = answer
        /\ \A s \in Slots \ {r} : handler'[s] = handler[s]
        BY <2>2, EndsAs
  <2> QED BY <2>1, <2>3 DEF Scans, Succeeded
<1> QED BY <1>2, <1>3

\* The steps of the other handlers of a slot leave its request what it is.
LEMMA OtherHandlers ==
    ASSUME IInv, NEW r \in Slots,
           \/ TableInfo(r) \/ StartLookup(r) \/ Lookup(r) \/ Convert(r) \/ OpenWriter(r)
           \/ Answer(r)
    PROVE  /\ handler[r].req.op # "scan" /\ handler'[r].req = handler[r].req
           /\ \A s \in Slots \ {r} : handler'[s] = handler[s]
<1> DEFINE h == handler[r]
<1>1. h.req.op # "scan"
  <2>1. CASE Answer(r)
    <3>1. h.pc = "call" /\ Follows(r) BY <2>1 DEF Answer, IInv, Undisturbed
    <3> QED BY <3>1 DEF Follows, Served
  <2>2. CASE ~Answer(r)
        BY <2>2 DEF TableInfo, StartLookup, Lookup, Convert, OpenWriter, At, Reads
  <2> QED BY <2>1, <2>2
<1>2. \E new : (Goes(r, new) \/ Ends(r, new)) /\ "req" \notin DOMAIN new
  <2>1. \A answer : "req" \notin DOMAIN [pc |-> "done", answer |-> answer] OBVIOUS
  <2>2. CASE TableInfo(r) \/ Answer(r) BY <2>1, <2>2 DEF TableInfo, Answer, Reply, Fail
  <2>3. CASE StartLookup(r)
    <3>1. \/ \E e : Fail(r, e)
          \/ \E id, key : Goes(r, [pc |-> "read", table |-> id, carry |-> key])
          BY <2>3 DEF StartLookup
    <3>2. \A id, key : "req" \notin DOMAIN [pc |-> "read", table |-> id, carry |-> key] OBVIOUS
    <3> QED BY <2>1, <3>1, <3>2 DEF Reply, Fail
  <2>4. CASE Lookup(r)
    <3>1. PICK pc, done, out, answer :
             Goes(r, [pc |-> pc, done |-> done, out |-> out, answer |-> answer])
          BY <2>4 DEF Lookup
    <3>2. "req" \notin DOMAIN [pc |-> pc, done |-> done, out |-> out, answer |-> answer] OBVIOUS
    <3> QED BY <3>1, <3>2
  <2>5. CASE Convert(r)
    <3>1. \/ Fail(r, "BadRequest")
          \/ \E id, row : Goes(r, [pc |-> "open", table |-> id, carry |-> row])
          BY <2>5 DEF Convert
    <3>2. \A id, row : "req" \notin DOMAIN [pc |-> "open", table |-> id, carry |-> row] OBVIOUS
    <3> QED BY <2>1, <3>1, <3>2 DEF Reply, Fail
  <2>6. CASE OpenWriter(r)
        BY <2>1, <2>6 DEF OpenWriter, Reply, Fail
  <2> QED BY <2>2, <2>3, <2>4, <2>5, <2>6
<1>3. PICK new : (Goes(r, new) \/ Ends(r, new)) /\ "req" \notin DOMAIN new BY <1>2
<1>4. handler'[r].req = h.req /\ \A s \in Slots \ {r} : handler'[s] = handler[s]
      BY <1>3, Went, EndsAs DEF Fields
<1> QED BY <1>1, <1>4

LEMMA ScanRequest ==
    ASSUME NEW q \in AnyRequest, q.op = "scan"
    PROVE  q \in ScanParams
BY DEF AnyRequest, DatabaseRequests, CreateTableRequests, TableRequests,
   LookupRequests, ScanParams, ListOffsetsRequests, ProduceRequests

LEMMA StartScanScans ==
    ASSUME IInv, NEW r \in Slots, StartScan(r)
    PROVE  Scans(r)' /\ \A s \in Slots \ {r} : handler'[s] = handler[s]
<1> DEFINE h == handler[r]
           g == handler'[r]
<1>1. /\ h.pc = "table" /\ tables' = tables /\ h.pc \in Running /\ h.req.op = "scan"
      BY DEF StartScan, At, catalogue, Running
<1>2. PICK id \in Found(r) :
         \/ Fail(r, "FlussError")
         \/ /\ tables[id].pk = <<>>
            /\ \A seq \in h.req.projection : \A j \in ToSet(seq) : ~(j >= Len(tables[id].columns))
            /\ Goes(r, [pc |-> "poll", table |-> id, carry |-> Subscribe(tables[id])])
      BY DEF StartScan
<1>3. CASE Fail(r, "FlussError")
  <2> DEFINE new == [pc |-> "done", answer |-> IntoResponse("FlussError")]
  <2>1. Ends(r, new) /\ DOMAIN new = {"pc", "answer"}
        /\ new["pc"] = "done" /\ new["answer"].status = 500
        BY <1>3 DEF Fail, Reply, IntoResponse, StatusCode
  <2> HIDE DEF new
  <2>2. g.pc = "done" /\ g.answer.status = 500 /\ \A s \in Slots \ {r} : handler'[s] = handler[s]
        BY <1>1, <2>1, EndsAs
  <2> QED BY <2>2 DEF Scans, Succeeded
<1>4. CASE /\ tables[id].pk = <<>>
           /\ \A seq \in h.req.projection : \A j \in ToSet(seq) : ~(j >= Len(tables[id].columns))
           /\ Goes(r, [pc |-> "poll", table |-> id, carry |-> Subscribe(tables[id])])
  <2> DEFINE new == [pc |-> "poll", table |-> id, carry |-> Subscribe(tables[id])]
  <2>1. /\ DOMAIN new = {"pc", "table", "carry"} /\ new["table"] = id
        /\ new["carry"] = [b \in DOMAIN tables[id].log |-> 0] /\ Goes(r, new)
        BY <1>4 DEF Subscribe
  <2> HIDE DEF new
  <2>2. /\ g.table = id /\ g.carry = [b \in DOMAIN tables[id].log |-> 0] /\ g.answer = h.answer
        /\ \A s \in Slots \ {r} : handler'[s] = handler[s]
        BY <2>1, Went DEF Fields
  <2>3. h.answer = NoAnswer BY <1>1 DEF IInv, Undisturbed, Typed
  <2>4. ~Succeeded(r)' BY <2>2, <2>3 DEF Succeeded, NoAnswer
  <2>5. id \in DOMAIN tables BY DEF Found, LiveAt
  <2>6. Projected(tables[id], h.req.projection) \subseteq DOMAIN tables[id].columns
    <3> DEFINE columns == tables[id].columns
               projection == h.req.projection
    <3>1. DOMAIN columns = 1..Len(columns) /\ Len(columns) \in Nat
      <4>1. columns \in Seq([name : Names, type : Types]) BY <2>5 DEF IInv, Catalogue, IsTable
      <4> QED BY <4>1, LenProperties
    <3>2. \A seq \in projection : ToSet(seq) \subseteq Nat
      <4>1. h.req \in Requests[r] BY <1>1 DEF IInv, Undisturbed, Typed
      <4>2. h.req \in ScanParams BY <1>1, <4>1, RequestOf, ScanRequest
      <4>3. \A seq \in projection : seq \in Seq(Nat) BY <4>2 DEF ScanParams
      <4> QED BY <4>3, SeqIsSeq
    <3>3. \A seq \in projection : \A j \in ToSet(seq) : ~(j >= Len(columns)) BY <1>4
    <3> HIDE DEF columns, projection
    <3>4. \A seq \in projection : \A j \in ToSet(seq) : j + 1 \in 1..Len(columns)
          BY <3>1, <3>2, <3>3
    <3>5. Projected(tables[id], projection) \subseteq DOMAIN columns
          BY <3>1, <3>4 DEF Projected, columns
    <3> QED BY <3>5 DEF columns, projection
  <2>7. h.req = g.req BY <2>1, Went DEF Fields
  <2> QED BY <1>1, <1>4, <2>2, <2>4, <2>5, <2>6, <2>7 DEF Scans
<1> QED BY <1>2, <1>3, <1>4

LEMMA ScanScans ==
    ASSUME IInv, NEW r \in Slots, Scans(r), Scan(r)
    PROVE  Scans(r)' /\ \A s \in Slots \ {r} : handler'[s] = handler[s]
<1> DEFINE h == handler[r]
           g == handler'[r]
           t == tables[h.table]
           cols == Projected(t, h.req.projection)
           rows(seen) == [i \in DOMAIN seen |->
                            [table |-> h.table, bucket |-> seen[i][1],
                             row |-> Shown(t, t.log[seen[i][1]][seen[i][2]], cols)]]
           cut(seen) == Min({Len(rows(seen))} \cup h.req.limit)
<1>1. /\ h.pc = "poll" /\ h.req.op = "scan" /\ tables' = tables
      BY DEF Scan, At, catalogue
<1>2. /\ h.table \in DOMAIN tables /\ t.pk = <<>> /\ h.carry = [b \in DOMAIN t.log |-> 0]
      /\ cols \subseteq DOMAIN t.columns
      BY <1>1 DEF Scans
<1>3. PICK seen \in Polled(t.log, h.carry) :
         Goes(r, [pc |-> "done", answer |-> Success(200),
                  out |-> SubSeq(rows(seen), 1, cut(seen))])
      BY DEF Scan
<1>4. IsTable(t) /\ IsLog(t, t.log)
  <2>1. IsTable(t) /\ UniqueKeys(t) BY <1>2 DEF IInv, Catalogue
  <2> QED BY <2>1, TableHasLog
<1>5. PICK n \in Nat :
         /\ DOMAIN seen = 1..n /\ seen = [i \in 1..n |-> seen[i]]
         /\ \A i \in 1..n :
               /\ seen[i][1] \in DOMAIN t.log
               /\ seen[i][2] \in Nat /\ seen[i][2] \in DOMAIN t.log[seen[i][1]]
               /\ {seen[j][2] : j \in {k \in 1..(i - 1) : seen[k][1] = seen[i][1]}}
                    = 1..(seen[i][2] - 1)
  <2> DEFINE log == t.log
  <2>1. /\ IsSeq(log) /\ \A b \in DOMAIN log : IsSeq(log[b])
        /\ seen \in Polled(log, [b \in DOMAIN log |-> 0])
        BY <1>2, <1>3, <1>4 DEF IsLog
  <2> HIDE DEF log
  <2>2. \E n \in Nat :
           /\ DOMAIN seen = 1..n /\ seen = [i \in 1..n |-> seen[i]]
           /\ \A i \in 1..n :
                 /\ seen[i][1] \in DOMAIN log
                 /\ seen[i][2] \in Nat /\ seen[i][2] \in DOMAIN log[seen[i][1]]
                 /\ {seen[j][2] : j \in {k \in 1..(i - 1) : seen[k][1] = seen[i][1]}}
                      = 1..(seen[i][2] - 1)
        BY ONLY <2>1, PolledFromTheStart
  <2> QED BY <2>2 DEF log
<1> DEFINE all == rows(seen)
           m == cut(seen)
           out == SubSeq(all, 1, m)
<1>6. DOMAIN all = 1..n /\ IsSeq(all) /\ Len(all) = n
  <2>1. all = [i \in 1..n |-> all[i]] BY <1>5
  <2> HIDE DEF all
  <2>2. DOMAIN all = 1..n BY <2>1
  <2> QED BY <2>1, <2>2, FunctionIsSeq
<1>7. /\ m \in 0..n /\ \A k \in h.req.limit : m <= k
  <2>1. h.req \in Requests[r] /\ h.req \in AnyRequest
    <3>1. h.req \in Requests[r] BY <1>1 DEF IInv, Undisturbed, Typed
    <3> QED BY <3>1, RequestOf
  <2>2. h.req \in ScanParams
        BY <1>1, <2>1, ScanRequest
  <2>3. h.req.limit \subseteq Nat /\ "limit" \in DOMAIN h.req BY <2>2 DEF ScanParams
  <2>4. \A a, b \in h.req.limit : a = b BY <2>1, <2>3, RequestsAssumption
  <2> DEFINE S == {n} \cup h.req.limit
  <2>5. \E x \in S : \A y \in S : x <= y
    <3>1. CASE h.req.limit = {} BY <3>1
    <3>2. CASE h.req.limit # {}
      <4>1. PICK k \in h.req.limit : h.req.limit = {k} BY <2>4, <3>2
      <4>2. k \in Nat BY <2>3
      <4> QED BY <4>1, <4>2
    <3> QED BY <3>1, <3>2
  <2>6. m = Min(S) BY <1>6
  <2> HIDE DEF S, m
  <2>7. m \in S /\ \A y \in S : m <= y BY <2>5, <2>6 DEF Min
  <2> QED BY <2>3, <2>7 DEF S
<1>8. /\ Len(out) = m /\ DOMAIN out = 1..m
      /\ \A i \in 1..m : out[i] = all[i]
  <2> HIDE DEF all, m
  <2>1. \A i \in 1..m : all[i] \in ToSet(all) BY <1>6, <1>7 DEF ToSet
  <2>2. /\ out \in Seq(ToSet(all)) /\ Len(out) = IF 1 <= m THEN m - 1 + 1 ELSE 0
        /\ \A i \in 1..(m - 1 + 1) : out[i] = all[1 + i - 1]
        BY <1>7, <2>1, SubSeqProperties
  <2> HIDE DEF out
  <2>3. Len(out) = m BY <1>7, <2>2
  <2>4. DOMAIN out = 1..m BY <2>2, <2>3, LenProperties
  <2>5. ASSUME NEW i \in 1..m PROVE out[i] = all[i]
    <3>1. i \in 1..(m - 1 + 1) /\ 1 + i - 1 = i BY <1>7
    <3> QED BY <2>2, <3>1
  <2> QED BY <2>3, <2>4, <2>5
<1>9. \A i \in 1..m : /\ i \in 1..n /\ out[i].bucket = seen[i][1]
                      /\ out[i].row = Shown(t, t.log[seen[i][1]][seen[i][2]], cols)
  <2>1. \A i \in 1..n : /\ all[i].bucket = seen[i][1]
                        /\ all[i].row = Shown(t, t.log[seen[i][1]][seen[i][2]], cols)
        BY <1>5
  <2> HIDE DEF all, m, out
  <2> QED BY <1>7, <1>8, <2>1
<1> HIDE DEF out, all, m
<1>10. Begins(t, out)
  <2> DEFINE place == [i \in DOMAIN out |-> seen[i][2]]
  <2>1. place \in [DOMAIN out -> Nat] /\ \A i \in 1..m : place[i] = seen[i][2]
        BY <1>5, <1>8, <1>9
  <2> HIDE DEF place
  <2>2. ASSUME NEW i \in DOMAIN out
        PROVE  /\ out[i].bucket \in DOMAIN t.log /\ place[i] \in DOMAIN t.log[out[i].bucket]
               /\ \A name \in DOMAIN out[i].row :
                     out[i].row[name]
                        = DatumToJson(t.log[out[i].bucket][place[i]][Column(t, name)])
               /\ {place[j] : j \in {k \in 1..(i - 1) : out[k].bucket = out[i].bucket}}
                    = 1..(place[i] - 1)
    <3>1. i \in 1..m /\ i \in 1..n /\ out[i].bucket = seen[i][1] /\ place[i] = seen[i][2]
          BY <1>8, <1>9, <2>1
    <3>2. seen[i][1] \in DOMAIN t.log /\ seen[i][2] \in DOMAIN t.log[seen[i][1]]
          BY <1>5, <3>1
    <3> DEFINE row == t.log[seen[i][1]][seen[i][2]]
    <3>3. \A name \in DOMAIN out[i].row : out[i].row[name] = DatumToJson(row[Column(t, name)])
      <4>1. Fits(t, row) BY <1>4, <3>2 DEF IsLog
      <4>2. DOMAIN row = 1..Len(t.columns) BY <4>1, SeqOfAnything DEF Fits, IsRow, RowOf
      <4>3. DOMAIN t.columns = 1..Len(t.columns)
        <5>1. t.columns \in Seq([name : Names, type : Types]) BY <1>4 DEF IsTable
        <5> QED BY <5>1, LenProperties
      <4>4. out[i].row = Shown(t, row, cols) BY <1>9, <3>1
      <4> HIDE DEF row, cols
      <4>5. \A name \in {t.columns[j].name : j \in cols} : Column(t, name) \in DOMAIN row
            BY <1>2, <1>4, <4>2, <4>3, ColumnOfName
      <4> QED BY <4>4, <4>5 DEF Shown, ToJson
    <3>4. {place[j] : j \in {k \in 1..(i - 1) : out[k].bucket = out[i].bucket}}
            = 1..(place[i] - 1)
      <4>1. \A k \in 1..(i - 1) : k \in 1..m BY <1>7, <3>1
      <4>2. \A k \in 1..(i - 1) : out[k].bucket = seen[k][1] /\ place[k] = seen[k][2]
            BY <1>9, <2>1, <4>1
      <4>3. {seen[j][2] : j \in {k \in 1..(i - 1) : seen[k][1] = seen[i][1]}}
              = 1..(seen[i][2] - 1)
            BY <1>5, <3>1
      <4> QED BY <3>1, <4>2, <4>3
    <3> QED BY <3>1, <3>2, <3>3, <3>4
  <2> QED BY <2>1, <2>2 DEF Begins
<1> DEFINE new == [pc |-> "done", answer |-> Success(200), out |-> out]
<1>11. /\ DOMAIN new = {"pc", "answer", "out"} /\ new["pc"] = "done" /\ new["out"] = out
       /\ Goes(r, new)
       BY <1>3 DEF out, m, all
<1> HIDE DEF new
<1>12. /\ g.pc = "done" /\ g.out = out /\ g.req = h.req /\ g.table = h.table
       /\ \A s \in Slots \ {r} : handler'[s] = handler[s]
       BY <1>11, Went DEF Fields
<1>13. \A k \in h.req.limit : Len(out) <= k BY <1>7, <1>8
<1> QED BY <1>1, <1>2, <1>10, <1>12, <1>13 DEF Scans

\* A step of one slot leaves the requests of the others alone.
LEMMA ScansStep ==
    ASSUME IInv, \A s \in Slots : Scans(s), Next
    PROVE  \A s \in Slots : Scans(s)'
<1>1. ASSUME NEW r \in Slots,
             \A s \in Slots \ {r} : handler'[s] = handler[s], LogsGrow, Scans(r)'
      PROVE  \A s \in Slots : Scans(s)'
      BY <1>1, ScansKept
<1>2. Catalogue BY DEF IInv
<1>3. ASSUME NEW r \in Slots, NEW q \in Requests[r], Receive(r, q)
      PROVE  \A s \in Slots : Scans(s)'
  <2>1. tables' = tables /\ handler[r].pc = "new" BY <1>3 DEF Receive, catalogue
  <2>2. \E pc, answer :
           /\ \/ Goes(r, [req |-> q, pc |-> pc, answer |-> answer])
              \/ Goes(r, [req |-> q, pc |-> pc]) /\ answer = NoAnswer
           /\ pc # "poll"
           /\ q.op = "scan" => answer.status \notin {200, 201, 204}
    <3>1. NoAnswer.status = 0 /\ (q.op = "scan" => q.op \notin Reads) BY DEF NoAnswer, Reads
    <3>2. q.op = "scan" => Objection(q) = {} BY DEF Objection
    <3>3. \/ \E e \in Objection(q) :
                Goes(r, [req |-> q, pc |-> "done", answer |-> IntoResponse(e)])
          \/ q.op \in Reads /\ Goes(r, [req |-> q, pc |-> "done", answer |-> Success(200)])
          \/ Goes(r, [req |-> q, pc |-> "table"])
          \/ Goes(r, [req |-> q, pc |-> "call"])
          BY <1>3 DEF Receive
    <3>4. CASE \E e \in Objection(q) :
                  Goes(r, [req |-> q, pc |-> "done", answer |-> IntoResponse(e)])
          BY <3>2, <3>4
    <3>5. CASE q.op \in Reads /\ Goes(r, [req |-> q, pc |-> "done", answer |-> Success(200)])
          BY <3>1, <3>5
    <3>6. CASE \E pc \in {"table", "call"} : Goes(r, [req |-> q, pc |-> pc])
      <4>1. PICK pc \in {"table", "call"} : Goes(r, [req |-> q, pc |-> pc]) BY <3>6
      <4>2. pc # "poll" /\ NoAnswer.status \notin {200, 201, 204} BY <3>1
      <4> QED BY <4>1, <4>2
    <3> QED BY <3>3, <3>4, <3>5, <3>6
  <2>3. PICK pc, answer :
           /\ \/ Goes(r, [req |-> q, pc |-> pc, answer |-> answer])
              \/ Goes(r, [req |-> q, pc |-> pc]) /\ answer = NoAnswer
           /\ pc # "poll"
           /\ q.op = "scan" => answer.status \notin {200, 201, 204}
        BY <2>2
  <2>4. handler[r].answer = NoAnswer BY <2>1 DEF IInv, Undisturbed, Typed
  <2>5. /\ handler'[r].req = q /\ handler'[r].pc = pc /\ handler'[r].answer = answer
        /\ \A s \in Slots \ {r} : handler'[s] = handler[s]
    <3> DEFINE one == [req |-> q, pc |-> pc, answer |-> answer]
               two == [req |-> q, pc |-> pc]
    <3>1. /\ DOMAIN one = {"req", "pc", "answer"} /\ DOMAIN two = {"req", "pc"}
          /\ one["req"] = q /\ one["pc"] = pc /\ one["answer"] = answer
          /\ two["req"] = q /\ two["pc"] = pc
          OBVIOUS
    <3>2. Goes(r, one) \/ (Goes(r, two) /\ answer = NoAnswer) BY <2>3
    <3> HIDE DEF one, two
    <3>3. CASE Goes(r, one) BY <3>1, <3>3, Went DEF Fields
    <3>4. CASE Goes(r, two) /\ answer = NoAnswer BY <2>4, <3>1, <3>4, Went DEF Fields
    <3> QED BY <3>2, <3>3, <3>4
  <2>6. Scans(r)' BY <2>3, <2>5 DEF Scans, Succeeded
  <2> QED BY <1>1, <2>1, <2>5, <2>6, TheLogsStay
<1>4. ASSUME NEW r \in Slots, Handle(r) PROVE \A s \in Slots : Scans(s)'
  <2>1. LogsGrow
        BY <1>4, TheLogsStay DEF Handle, TableInfo, StartLookup, Lookup, StartScan, Scan, Convert,
           OpenWriter, Answer, CallFails, catalogue
  <2>2. CASE StartScan(r) BY <1>1, <2>1, <2>2, StartScanScans
  <2>3. CASE Scan(r) BY <1>1, <2>1, <2>3, ScanScans
  <2>4. CASE CallFails(r)
    <3>1. Ends(r, [pc |-> "done", answer |-> IntoResponse("FlussError")])
          /\ handler[r].pc \in Running
          BY <2>4 DEF CallFails, Fail, Reply
    <3>2. IntoResponse("FlussError").status = 500 BY DEF IntoResponse, StatusCode
    <3> QED BY <1>1, <2>1, <3>1, <3>2, EndsUnsuccessfully
  <2>5. CASE \/ TableInfo(r) \/ StartLookup(r) \/ Lookup(r) \/ Convert(r) \/ OpenWriter(r)
             \/ Answer(r)
    <3>1. Scans(r)' BY <2>5, OtherHandlers DEF Scans
    <3> QED BY <1>1, <2>1, <2>5, <3>1, OtherHandlers
  <2> QED BY <1>4, <2>2, <2>3, <2>4, <2>5 DEF Handle
<1>5. ASSUME NEW r \in Slots, Execute(r) PROVE \A s \in Slots : Scans(s)'
  <2>1. LogsGrow
    <3>1. CASE Write(r) BY <3>1, WriteKeepsLogs
    <3>2. CASE CreateTable(r)
          BY <1>2, <3>2, TheLogsStay, AppendKeepsLogs DEF CreateTable, Unchanging, catalogue
    <3>3. CASE DropTable(r) \/ DropDatabase(r)
          BY <1>2, <3>3, TheLogsStay, WithoutKeepsLogs
          DEF DropTable, DropDatabase, Unchanging, catalogue
    <3>4. CASE \/ CreateDatabase(r) \/ ListDatabases(r) \/ ListTables(r) \/ ListOffsets(r)
               \/ ListPartitions(r)
          BY <3>4, TheLogsStay DEF CreateDatabase, ListDatabases, ListTables, ListOffsets,
             ListPartitions, Unchanging, catalogue
    <3> QED BY <1>5, <3>1, <3>2, <3>3, <3>4 DEF Execute
  <2>2. handler' = handler
        BY <1>5 DEF Execute, CreateDatabase, DropDatabase, CreateTable, DropTable, ListDatabases,
           ListTables, ListOffsets, ListPartitions, Write, Unchanging, Returns
  <2> QED BY <2>1, <2>2, ScansKept
<1>6. ASSUME NEW r \in Slots, ClientLeaves(r) PROVE \A s \in Slots : Scans(s)'
  <2>1. LogsGrow BY <1>6, TheLogsStay DEF ClientLeaves, catalogue
  <2>2. Ends(r, [pc |-> "gone"]) /\ handler[r].pc \in Running BY <1>6 DEF ClientLeaves
  <2> QED BY <1>1, <2>1, <2>2, EndsUnsuccessfully
<1> QED BY <1>3, <1>4, <1>5, <1>6 DEF Next

\* scan: what a request gets of each bucket begins at its first row and leaves none out,
\* though rows are written while it reads; and it gets no more than its limit.
THEOREM ScansArePrefixes == Spec => []ScanIsPrefix
<1> DEFINE SInv == \A r \in Slots : Scans(r)
<1>1. Init => SInv
  <2> SUFFICES ASSUME Init, NEW r \in Slots PROVE Scans(r) OBVIOUS
  <2>1. handler[r].req.op = "none" BY DEF Init, Idle
  <2> QED BY <2>1 DEF Scans
<1>2. IInv /\ SInv /\ [Next]_vars => SInv'
  <2> SUFFICES ASSUME IInv, SInv, [Next]_vars PROVE SInv' OBVIOUS
  <2>1. CASE Next BY <2>1, ScansStep
  <2>2. CASE UNCHANGED vars BY <2>2, TheLogsStay, ScansKept DEF vars
  <2> QED BY <2>1, <2>2
<1>3. IInv /\ SInv => ScanIsPrefix
  <2> SUFFICES ASSUME IInv, SInv, NEW r \in Slots,
                      handler[r].req.op = "scan", Succeeded(r)
               PROVE  LET h == handler[r]
                          t == tables[h.table]
                      IN  /\ \A n \in h.req.limit : Len(h.out) <= n
                          /\ \E place \in [DOMAIN h.out ->
                                             UNION {DOMAIN bucket : bucket \in ToSet(t.log)}] :
                                \A i \in DOMAIN h.out : LET b == h.out[i].bucket IN
                                   /\ place[i] \in DOMAIN t.log[b]
                                   /\ \A name \in DOMAIN h.out[i].row :
                                         h.out[i].row[name]
                                            = DatumToJson(t.log[b][place[i]][Column(t, name)])
                                   /\ {place[j] : j \in {k \in 1..(i - 1) : h.out[k].bucket = b}}
                                        = 1..(place[i] - 1)
      BY DEF ScanIsPrefix
  <2> DEFINE h == handler[r]
             t == tables[h.table]
  <2>1. Begins(t, h.out) /\ \A n \in h.req.limit : Len(h.out) <= n BY DEF Scans
  <2>2. PICK place \in [DOMAIN h.out -> Nat] : \A i \in DOMAIN h.out :
           LET b == h.out[i].bucket IN
           /\ b \in DOMAIN t.log /\ place[i] \in DOMAIN t.log[b]
           /\ \A name \in DOMAIN h.out[i].row :
                 h.out[i].row[name] = DatumToJson(t.log[b][place[i]][Column(t, name)])
           /\ {place[j] : j \in {k \in 1..(i - 1) : h.out[k].bucket = b}} = 1..(place[i] - 1)
        BY <2>1 DEF Begins
  <2>3. place \in [DOMAIN h.out -> UNION {DOMAIN bucket : bucket \in ToSet(t.log)}]
    <3>1. \A i \in DOMAIN h.out : place[i] \in UNION {DOMAIN bucket : bucket \in ToSet(t.log)}
          BY <2>2 DEF ToSet
    <3> QED BY <3>1
  <2> QED BY <2>1, <2>2, <2>3
<1> QED BY <1>1, <1>2, <1>3, Invariance, PTL DEF Spec
=============================================================================
