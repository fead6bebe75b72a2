----------------------------- MODULE JsonValues -----------------------------
(***************************************************************************)
(* JSON as the assertion and capture engines see it (serde_json::Value).   *)
(* A value is a record with one field, named after its kind:               *)
(*   [null |-> TRUE], [boolean |-> b], [string |-> s],                     *)
(*   [integer |-> n]   an i64 or a u64,                                    *)
(*   [float |-> h]     an f64, in halves: [float |-> 3] is 1.5,            *)
(*   [array |-> sequence of values],                                       *)
(*   [object |-> sequence of members with different keys].                 *)
(***************************************************************************)
EXTENDS Integers, Sequences

CONSTANTS
  MaxExact,   \* MAX_EXACT_FLOAT_INTEGER: integers up to it are exact floats
  Floats,     \* the floats that exist, in halves
  MaxHeight   \* no value is higher, in a source or in a response

ASSUME NumbersAssumption ==
  /\ MaxExact \in Nat
  /\ Floats \subseteq Int
  /\ \A n \in -MaxExact .. MaxExact : 2 * n \in Floats

ASSUME HeightAssumption == MaxHeight \in Nat

Scalar ==
  [null : {TRUE}] \cup [boolean : BOOLEAN] \cup [string : STRING]
    \cup [integer : Int] \cup [float : Floats]

Members(values) ==
  {m \in Seq([key : STRING, value : values]) :
     \A i, j \in DOMAIN m : m[i].key = m[j].key => i = j}

JsonUpTo[n \in 0 .. MaxHeight] ==
  IF n = 0 THEN Scalar
  ELSE Scalar \cup [array : Seq(JsonUpTo[n - 1])] \cup [object : Members(JsonUpTo[n - 1])]

Json == JsonUpTo[MaxHeight]

KindOf(v) == CHOOSE k \in DOMAIN v : TRUE

IsInteger(v) == KindOf(v) = "integer"
IsNumber(v) == KindOf(v) \in {"integer", "float"}
IsStructured(v) == KindOf(v) \in {"object", "array"}

(***************************************************************************)
(* Equality of numbers.  A conversion to f64 rounds to the nearest float.  *)
(***************************************************************************)
Distance(x, y) == IF x < y THEN y - x ELSE x - y
ToFloat(n) == CHOOSE f \in Floats : \A g \in Floats : Distance(f, 2 * n) <= Distance(g, 2 * n)

AsFloat(v) == IF IsInteger(v) THEN ToFloat(v.integer) ELSE v.float

SafeAsFloat(v) == IsInteger(v) => v.integer \in -MaxExact .. MaxExact

\* Faulty: integers are rounded to floats before the comparison.
NumbersRoundedEqual(expected, actual) ==
  IF IsInteger(expected) /\ IsInteger(actual)
  THEN expected.integer = actual.integer
  ELSE AsFloat(expected) = AsFloat(actual)

NumbersEqual(expected, actual) ==
  IF IsInteger(expected) /\ IsInteger(actual)
  THEN expected.integer = actual.integer
  ELSE SafeAsFloat(expected) /\ SafeAsFloat(actual) /\ AsFloat(expected) = AsFloat(actual)

(***************************************************************************)
(* A path is the sequence of keys and array positions below a root; what   *)
(* is not there is Missing.                                                *)
(***************************************************************************)
Key(k) == [key |-> k]
Index(i) == [index |-> i - 1]
Path == Seq([key : STRING] \cup [index : Nat])

Missing == [missing |-> TRUE]

Segments(v) ==
  CASE KindOf(v) = "object" -> {Key(v.object[i].key) : i \in DOMAIN v.object}
    [] KindOf(v) = "array" -> {Index(i) : i \in DOMAIN v.array}
    [] OTHER -> {}

\* Value::get
Child(v, s) ==
  IF s \notin Segments(v) THEN Missing
  ELSE IF KindOf(v) = "array" THEN v.array[s.index + 1]
  ELSE v.object[CHOOSE i \in DOMAIN v.object : v.object[i].key = s.key].value

\* SharedJsonValue::as_json
At(v, path) ==
  LET at[n \in 0 .. Len(path)] == IF n = 0 THEN v ELSE Child(at[n - 1], path[n])
  IN at[Len(path)]
=============================================================================
