------------------------------- MODULE Datums -------------------------------
(***************************************************************************)
(* Values on their way from JSON to Fluss and back: parse_data_type,       *)
(* json_to_datum and record_batch_to_json, with the rows made of them.     *)
(*                                                                         *)
(* Integer types keep their two's complement, with widths small enough to  *)
(* go beyond.  Text is what it can be parsed as: a number, a truth value,  *)
(* "NaN" or "inf", the hexadecimal digits of bytes, or none of these.  Of  *)
(* reals the range is kept, and the rounding and the sign of infinity are  *)
(* left out.  CHAR and BINARY, which no request can declare, convert like  *)
(* STRING and BYTES.                                                       *)
(***************************************************************************)
EXTENDS Integers, Sequences

CONSTANT Half   \* of each integer type: it ranges from -Half to Half - 1

Whole == {"tinyint", "smallint", "int", "bigint"}
Real  == {"float", "double"}
Types == Whole \cup Real \cup {"boolean", "string", "bytes"}

ASSUME HalfAssumption ==
    /\ Half \in [Whole -> Nat \ {0}]
    /\ \A t \in Whole : Half[t] <= Half["bigint"]

\* parse_data_type: the types that a request may name, in any case.
TypeNames ==
    [boolean |-> {"boolean", "bool"},       tinyint |-> {"tinyint", "i8"},
     smallint |-> {"smallint", "i16"},      int |-> {"int", "integer", "i32"},
     bigint |-> {"bigint", "long", "i64"},  float |-> {"float", "f32"},
     double |-> {"double", "f64"},          string |-> {"string", "varchar"},
     bytes |-> {"bytes", "binary", "blob"}]

ParseDataType(name) == {t \in Types : name \in TypeNames[t]}

-----------------------------------------------------------------------------
(***************************************************************************)
(* Values                                                                  *)
(***************************************************************************)

InRange(n, t) == -Half[t] <= n /\ n < Half[t]

\* Mutated: the number is narrowed to an unsigned one.
NarrowUnsigned(n, t) == n % (2 * Half[t])

\* Rust's `as`: the number of type t that is equal to n modulo its range.
Narrow(n, t) == ((n + Half[t]) % (2 * Half[t])) - Half[t]

\* JSON values.  A fraction is a number that is no i64, given as its text.
Null        == [kind |-> "null"]
Bool(b)     == [kind |-> "boolean", bool |-> b]
Number(n)   == [kind |-> "number", number |-> n]
Fraction(s) == [kind |-> "fraction", fraction |-> s]
String(s)   == [kind |-> "string", text |-> s]

\* Text.
Digits(n) == [number |-> n]
Point(p)  == [point |-> p]
Truth(b)  == [bool |-> b]
Word(w)   == [word |-> w]
NaN       == [nan |-> TRUE]
Infinity  == [infinite |-> TRUE]
Large(p)  == [large |-> p]      \* a number that is too large for FLOAT
Huge(p)   == [huge |-> p]       \* and one that is too large for DOUBLE
Hex(s)    == [hex |-> s]

\* Datums, beside Null, Bool and String: their kind is the type they are of.
Integer(t, n) == [kind |-> t, int |-> n]
Float(t, s)   == [kind |-> t, real |-> s]
Blob(s)       == [kind |-> "bytes", blob |-> s]

\* The texts of numbers, and those of them that are out of range for a type.
RealTexts == {"number", "point", "nan", "infinite", "large", "huge"}
Beyond    == [float |-> {"large", "huge"}, double |-> {"huge"}]

Holds(t, d) == d = Null \/ d.kind = t

IsText(s) ==
    /\ "number" \in DOMAIN s => s.number \in Int /\ s = Digits(s.number)
    /\ "bool" \in DOMAIN s => s = Truth(s.bool)

IsJson(v) ==
    \/ v = Null
    \/ v.kind = "boolean"  /\ v = Bool(v.bool)
    \/ v.kind = "number"   /\ v = Number(v.number) /\ v.number \in Int
    \/ v.kind = "fraction" /\ v = Fraction(v.fraction)
                           /\ DOMAIN v.fraction \cap {"nan", "infinite", "huge"} = {}
    \/ v.kind = "string"   /\ v = String(v.text) /\ IsText(v.text)

IsDatum(d) ==
    \/ d = Null
    \/ d.kind = "boolean" /\ d = Bool(d.bool)
    \/ d.kind \in Whole   /\ d = Integer(d.kind, d.int) /\ d.int \in Int /\ InRange(d.int, d.kind)
    \/ d.kind \in Real    /\ d = Float(d.kind, d.real) /\ DOMAIN d.real \cap Beyond[d.kind] = {}
    \/ d.kind = "string"  /\ d = String(d.text)
    \/ d.kind = "bytes"   /\ d = Blob(d.blob)

\* Mutated: only BIGINT is parsed from text.
ParsedBigInt(t, s) ==
    {Integer(t, s[f]) : f \in {f \in DOMAIN s \cap {"number"} : t = "bigint" /\ InRange(s[f], t)}}

\* The integer that a text is parsed to, for the types that are.  Unlike a JSON
\* number it has to be in range.
Parsed(t, s) ==
    {Integer(t, s[f]) : f \in {f \in DOMAIN s \cap {"number"} :
                                 t \in {"int", "bigint"} /\ InRange(s[f], t)}}

\* The real that a text is parsed to, or that a JSON number is narrowed to: what
\* is out of the type's range becomes infinite.
ToReal(t, s) == IF DOMAIN s \cap Beyond[t] = {} THEN s ELSE Infinity

\* The datum of type t that a JSON value is converted to, if it can be.  A
\* number that is too large for an integer type wraps around.
JsonToDatum(v, t) ==
    CASE v.kind = "null" -> {Null}
      [] v.kind = t /\ t \in {"boolean", "string"} -> {v}
      [] v.kind = "number" /\ t \in Whole ->
            {Integer(t, Narrow(n, t)) : n \in {n \in {v.number} : InRange(n, "bigint")}}
      [] v.kind = "number" /\ t \in Real -> {Float(t, Digits(v.number))}
      [] v.kind = "fraction" /\ t \in Real -> {Float(t, ToReal(t, v.fraction))}
      [] v.kind = "string" /\ t = "bytes" -> {Blob(v.text)}
      [] v.kind = "string" /\ t \in Whole -> Parsed(t, v.text)
      [] v.kind = "string" /\ t = "boolean" ->
            {Bool(v.text[f]) : f \in DOMAIN v.text \cap {"bool"}}
      [] v.kind = "string" /\ t \in Real ->
            {Float(t, ToReal(t, s)) : s \in {s \in {v.text} : DOMAIN s \subseteq RealTexts}}
      [] OTHER -> {}

\* What JSON has no number for.
NotFinite == {NaN, Infinity}

\* arrow_value_to_json.  Reals that are not finite are shown as 0, and bytes in
\* hexadecimal.
DatumToJson(d) ==
    CASE d.kind \in {"null", "boolean", "string"} -> d
      [] d.kind \in Whole -> Number(d.int)
      [] d.kind \in Real  -> IF d.real \in NotFinite THEN Number(0) ELSE Fraction(d.real)
      [] d.kind = "bytes" -> String(Hex(d.blob))

\* The types that a text leads to and that are shown as that text.
LookupTypes == {"int", "bigint", "boolean", "string"}

\* The text with which a client writes a JSON value into a query.
Written(v) ==
    CASE v.kind = "boolean"  -> Truth(v.bool)
      [] v.kind = "number"   -> Digits(v.number)
      [] v.kind = "fraction" -> v.fraction
      [] v.kind = "string"   -> v.text

-----------------------------------------------------------------------------
(***************************************************************************)
(* Rows                                                                    *)
(***************************************************************************)

\* The row of the given columns that the values of a produced row are converted
\* to, if all of them can be: values in excess are ignored, missing ones null.
ToRow(values, columns) ==
    LET ds == [j \in DOMAIN columns |->
                IF j \in DOMAIN values THEN JsonToDatum(values[j], columns[j].type) ELSE {Null}]
    IN  IF \E j \in DOMAIN columns : ds[j] = {} THEN {}
        ELSE {[j \in DOMAIN columns |-> CHOOSE d \in ds[j] : TRUE]}

\* record_batch_to_json, for one row.
ToJson(row) == [j \in DOMAIN row |-> DatumToJson(row[j])]
=============================================================================
