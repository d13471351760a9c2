---------------------------- MODULE DatumsProofs ----------------------------
(***************************************************************************)
(* Proofs about the conversions of Datums, for integer types of any width. *)
(***************************************************************************)
EXTENDS Datums, TLAPS

(***************************************************************************)
(* Integers                                                                *)
(***************************************************************************)

\* Narrowing leaves alone what is in range, and gives a number of the type in
\* any case.
LEMMA NarrowInRange ==
    ASSUME NEW t \in Whole, NEW n \in Int
    PROVE  Narrow(n, t) \in Int /\ InRange(Narrow(n, t), t)
<1>1. Half[t] \in Nat \ {0} BY HalfAssumption
<1> DEFINE m == 2 * Half[t]
<1>2. m \in Nat \ {0} BY <1>1
<1>3. (n + Half[t]) % m \in 0..(m - 1) BY <1>1, <1>2
<1> QED BY <1>1, <1>3 DEF Narrow, InRange

LEMMA NarrowKeeps ==
    ASSUME NEW t \in Whole, NEW n \in Int, InRange(n, t)
    PROVE  Narrow(n, t) = n
<1>1. Half[t] \in Nat \ {0} BY HalfAssumption
<1> DEFINE m == 2 * Half[t]
           k == n + Half[t]
<1>2. m \in Nat \ {0} /\ k \in 0..(m - 1) BY <1>1 DEF InRange
<1>3. k % m = k
  <2> HIDE DEF m, k
  <2> QED BY <1>2
<1> QED BY <1>1, <1>3 DEF Narrow

\* What is in the range of a type is in that of the widest.
LEMMA InRangeOfBigInt ==
    ASSUME NEW t \in Whole, NEW n \in Int, InRange(n, t)
    PROVE  InRange(n, "bigint")
BY HalfAssumption DEF InRange, Whole

(***************************************************************************)
(* Conversions                                                             *)
(***************************************************************************)

LEMMA KindsDiffer ==
    /\ \A t \in Whole :
          t \notin Real \cup {"null", "boolean", "string", "bytes", "number", "fraction"}
    /\ \A t \in Real : t \notin {"null", "boolean", "string", "bytes", "number", "fraction"}
BY DEF Whole, Real

\* What a number becomes as a real is in the range of its type.
LEMMA ToRealInRange ==
    ASSUME NEW t \in Real, NEW s
    PROVE  DOMAIN ToReal(t, s) \cap Beyond[t] = {}
<1>1. DOMAIN Infinity = {"infinite"} BY DEF Infinity
<1>2. "infinite" \notin Beyond[t] BY DEF Beyond, Real
<1> QED BY <1>1, <1>2 DEF ToReal

\* A JSON value is converted to a datum of the column's type, and to one at most.
LEMMA JsonToDatumHolds ==
    ASSUME NEW v, IsJson(v), NEW t \in Types, NEW d \in JsonToDatum(v, t)
    PROVE  IsDatum(d) /\ Holds(t, d)
<1> USE DEF Types, JsonToDatum, IsDatum, Holds
<1>1. CASE v.kind = "null" BY <1>1
<1>2. CASE v.kind = "boolean" BY <1>2, KindsDiffer DEF IsJson, Null, Bool
<1>3. CASE v.kind = "number"
  <2>1. v.number \in Int BY <1>3, KindsDiffer DEF IsJson, Null
  <2>2. CASE t \in Whole
    <3>1. d = Integer(t, Narrow(v.number, t)) BY <1>3, <2>2, KindsDiffer
    <3>2. Narrow(v.number, t) \in Int /\ InRange(Narrow(v.number, t), t)
          BY <2>1, <2>2, NarrowInRange
    <3> QED BY <2>2, <3>1, <3>2 DEF Integer
  <2>3. CASE t \in Real
    <3>1. d = Float(t, Digits(v.number)) BY <1>3, <2>3, KindsDiffer
    <3>2. DOMAIN Digits(v.number) = {"number"} BY DEF Digits
    <3>3. "number" \notin Beyond[t] BY <2>3 DEF Beyond, Real
    <3> QED BY <2>3, <3>1, <3>2, <3>3 DEF Float
  <2> QED BY <1>3, <2>2, <2>3
<1>4. CASE v.kind = "fraction"
  <2>1. t \in Real /\ d = Float(t, ToReal(t, v.fraction)) BY <1>4, KindsDiffer
  <2> QED BY <2>1, ToRealInRange DEF Float
<1>5. CASE v.kind = "string"
  <2>1. IsText(v.text) /\ v = String(v.text) BY <1>5, KindsDiffer DEF IsJson, Null
  <2>2. CASE t = "string"
    <3>1. d = v BY <1>5, <2>2 DEF Whole, Real
    <3> QED BY <2>1, <2>2, <3>1 DEF String
  <2>3. CASE t = "bytes"
    <3>1. d = Blob(v.text) BY <1>5, <2>3 DEF Whole, Real
    <3> QED BY <2>3, <3>1 DEF Blob
  <2>4. CASE t = "boolean"
    <3>1. PICK f \in DOMAIN v.text : d = Bool(v.text[f]) BY <1>5, <2>4 DEF Whole, Real
    <3> QED BY <2>4, <3>1 DEF Bool
  <2>5. CASE t \in Real
    <3>1. d = Float(t, ToReal(t, v.text)) BY <1>5, <2>5, KindsDiffer
    <3> QED BY <2>5, <3>1, ToRealInRange DEF Float
  <2>6. CASE t \in Whole
    <3>1. /\ "number" \in DOMAIN v.text /\ InRange(v.text["number"], t)
          /\ d = Integer(t, v.text["number"])
          BY <1>5, <2>6, KindsDiffer DEF Parsed
    <3>2. v.text["number"] \in Int BY <2>1, <3>1 DEF IsText
    <3> QED BY <2>6, <3>1, <3>2 DEF Integer
  <2> QED BY <2>2, <2>3, <2>4, <2>5, <2>6
<1> QED BY <1>1, <1>2, <1>3, <1>4, <1>5 DEF IsJson, Null

\* What a datum is shown as is converted back to that datum: not so for bytes,
\* which are shown in hexadecimal, and what is not finite, which is shown as 0.
LEMMA ShownReadsBack ==
    ASSUME NEW t \in Types, NEW d, IsDatum(d), Holds(t, d),
           t # "bytes", d \notin {Float(f, x) : f \in Real, x \in NotFinite}
    PROVE  JsonToDatum(DatumToJson(d), t) = {d}
<1> USE DEF Types, Holds
<1>1. CASE d = Null
  <2>1. DatumToJson(d) = Null BY <1>1 DEF DatumToJson, Null, Whole, Real
  <2> QED BY <1>1, <2>1 DEF JsonToDatum, Null
<1>2. CASE d # Null /\ t \in {"boolean", "string"}
  <2>1. d.kind = t BY <1>2
  <2>2. DatumToJson(d) = d BY <1>2, <2>1 DEF DatumToJson, Whole, Real
  <2> QED BY <1>2, <2>1, <2>2 DEF JsonToDatum, Whole, Real
<1>3. CASE d # Null /\ t \in Whole
  <2>1. d.kind = t /\ d = Integer(t, d.int) /\ d.int \in Int /\ InRange(d.int, t)
        BY <1>3, KindsDiffer DEF IsDatum
  <2>2. DatumToJson(d) = Number(d.int) BY <1>3, <2>1, KindsDiffer DEF DatumToJson
  <2>3. Narrow(d.int, t) = d.int /\ InRange(d.int, "bigint")
        BY <1>3, <2>1, NarrowKeeps, InRangeOfBigInt
  <2>4. JsonToDatum(Number(d.int), t) = {Integer(t, Narrow(d.int, t))}
        BY <1>3, <2>3, KindsDiffer DEF JsonToDatum, Number
  <2> QED BY <2>1, <2>2, <2>3, <2>4
<1>4. CASE d # Null /\ t \in Real
  <2>1. d.kind = t /\ d = Float(t, d.real) /\ DOMAIN d.real \cap Beyond[t] = {}
        BY <1>4, KindsDiffer DEF IsDatum
  <2>2. d.real \notin NotFinite BY <1>4, <2>1
  <2>3. DatumToJson(d) = Fraction(d.real) BY <1>4, <2>1, <2>2, KindsDiffer DEF DatumToJson
  <2>4. JsonToDatum(Fraction(d.real), t) = {Float(t, d.real)}
        BY <1>4, <2>1, KindsDiffer DEF JsonToDatum, Fraction, ToReal
  <2> QED BY <2>1, <2>3, <2>4
<1> QED BY <1>1, <1>2, <1>3, <1>4

\* A datum of a type for lookups is parsed from the text that it is shown as.
LEMMA WrittenReadsBack ==
    ASSUME NEW t \in LookupTypes, NEW d, d # Null, IsDatum(d), Holds(t, d)
    PROVE  JsonToDatum(String(Written(DatumToJson(d))), t) = {d}
<1>0. d.kind = t BY DEF Holds
<1>1. CASE t = "string"
  <2>1. d = String(d.text) /\ DatumToJson(d) = d BY <1>0, <1>1 DEF IsDatum, DatumToJson, Whole, Real
  <2>2. Written(d) = d.text BY <1>0, <1>1 DEF Written
  <2> QED BY <1>0, <1>1, <2>1, <2>2 DEF JsonToDatum, Whole, Real
<1>2. CASE t = "boolean"
  <2>1. d = Bool(d.bool) /\ DatumToJson(d) = d BY <1>0, <1>2 DEF IsDatum, DatumToJson, Whole, Real
  <2>2. Written(d) = Truth(d.bool) BY <1>0, <1>2 DEF Written
  <2>3. JsonToDatum(String(Truth(d.bool)), t) = {Bool(d.bool)}
        BY <1>2 DEF JsonToDatum, String, Truth, Whole, Real
  <2> QED BY <2>1, <2>2, <2>3
<1>3. CASE t \in {"int", "bigint"}
  <2>1. t \in Whole BY <1>3 DEF Whole
  <2>2. d = Integer(t, d.int) /\ d.int \in Int /\ InRange(d.int, t)
        BY <1>0, <2>1, KindsDiffer DEF IsDatum
  <2>3. DatumToJson(d) = Number(d.int) BY <1>0, <2>1, KindsDiffer DEF DatumToJson
  <2>4. Written(Number(d.int)) = Digits(d.int) BY DEF Written, Number
  <2>5. JsonToDatum(String(Digits(d.int)), t) = Parsed(t, Digits(d.int))
        BY <2>1, KindsDiffer DEF JsonToDatum, String
  <2>6. Parsed(t, Digits(d.int)) = {Integer(t, d.int)} BY <1>3, <2>2 DEF Parsed, Digits
  <2> QED BY <2>2, <2>3, <2>4, <2>5, <2>6
<1> QED BY <1>1, <1>2, <1>3 DEF LookupTypes

\* And it is shown as the text that it is parsed from.
LEMMA TextIsKept ==
    ASSUME NEW t \in LookupTypes, NEW s, IsText(s), NEW d \in JsonToDatum(String(s), t)
    PROVE  Written(DatumToJson(d)) = s
<1>1. CASE t = "string"
  <2>1. d = String(s) BY <1>1 DEF JsonToDatum, String, Whole, Real
  <2>2. DatumToJson(d) = d BY <2>1 DEF DatumToJson, String, Whole, Real
  <2> QED BY <2>1, <2>2 DEF Written, String
<1>2. CASE t = "boolean"
  <2>1. "bool" \in DOMAIN s /\ d = Bool(s["bool"]) BY <1>2 DEF JsonToDatum, String, Whole, Real
  <2>2. DatumToJson(d) = d BY <2>1 DEF DatumToJson, Bool, Whole, Real
  <2>3. Written(d) = Truth(s["bool"]) BY <2>1 DEF Written, Bool
  <2> QED BY <2>1, <2>2, <2>3 DEF IsText
<1>3. CASE t \in {"int", "bigint"}
  <2>1. t \in Whole BY <1>3 DEF Whole
  <2>2. JsonToDatum(String(s), t) = Parsed(t, s) BY <2>1, KindsDiffer DEF JsonToDatum, String
  <2>3. "number" \in DOMAIN s /\ d = Integer(t, s["number"]) BY <2>2 DEF Parsed
  <2>4. DatumToJson(d) = Number(s["number"]) BY <2>1, <2>3, KindsDiffer DEF DatumToJson, Integer
  <2>5. Written(Number(s["number"])) = Digits(s["number"]) BY DEF Written, Number
  <2> QED BY <2>3, <2>4, <2>5 DEF IsText
<1> QED BY <1>1, <1>2, <1>3 DEF LookupTypes

(***************************************************************************)
(* Rows                                                                    *)
(***************************************************************************)

\* A produced row has a datum of its type for every column of the table.
LEMMA ToRowHolds ==
    ASSUME NEW values, \A j \in DOMAIN values : IsJson(values[j]),
           NEW columns, \A j \in DOMAIN columns : columns[j].type \in Types,
           NEW row \in ToRow(values, columns)
    PROVE  /\ row = [j \in DOMAIN columns |-> row[j]]
           /\ \A j \in DOMAIN columns : IsDatum(row[j]) /\ Holds(columns[j].type, row[j])
<1> DEFINE ds == [j \in DOMAIN columns |->
                    IF j \in DOMAIN values THEN JsonToDatum(values[j], columns[j].type) ELSE {Null}]
<1>1. /\ \A j \in DOMAIN columns : ds[j] # {}
      /\ row = [j \in DOMAIN columns |-> CHOOSE d \in ds[j] : TRUE]
      BY DEF ToRow
<1>2. ASSUME NEW j \in DOMAIN columns PROVE IsDatum(row[j]) /\ Holds(columns[j].type, row[j])
  <2>1. row[j] \in ds[j] BY <1>1
  <2>2. CASE j \in DOMAIN values BY <2>1, <2>2, JsonToDatumHolds
  <2>3. CASE j \notin DOMAIN values BY <2>1, <2>3 DEF IsDatum, Holds
  <2> QED BY <2>2, <2>3
<1> HIDE DEF ds
<1> QED BY <1>1, <1>2
=============================================================================
