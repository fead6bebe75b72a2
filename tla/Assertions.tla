----------------------------- MODULE Assertions -----------------------------
(***************************************************************************)
(* AssertionEngine::evaluate: a resolved expectation against a response.   *)
(* The report keeps at most `limit' failures; the failure after the last   *)
(* one that fits only marks the report as truncated, and nothing is looked *)
(* at any more.  A check is a function on reports; the recursive methods   *)
(* are functions on the height of what is expected.                        *)
(*                                                                         *)
(* An optional item is a sequence of at most one element.  A text is the   *)
(* set of the fragments that it contains; NotUtf8 marks bytes that are no  *)
(* text.                                                                   *)
(***************************************************************************)
EXTENDS JsonValues

CONSTANTS
  MaxDepth,   \* AssertionConfig::max_json_depth
  NotUtf8

ASSUME DepthAssumption == MaxDepth \in Nat \ {0}

FailureKind ==
  {"StatusMismatch", "HeaderMismatch", "InvalidBody", "MissingField", "UnexpectedField",
   "TypeMismatch", "ValueMismatch"}

Failure == [path : Path, kind : FailureKind]
Report == [failures : Seq(Failure), truncated : BOOLEAN, limit : Int]
EmptyReport(limit) == [failures |-> <<>>, truncated |-> FALSE, limit |-> limit]

\* Faulty: the report is truncated as soon as it is full.
PushEarlyStop(report, failure) ==
  [report EXCEPT !.failures = Append(@, failure),
                 !.truncated = (Len(report.failures) + 1 = report.limit)]

Push(report, failure) ==
  IF Len(report.failures) = report.limit
  THEN [report EXCEPT !.truncated = TRUE]
  ELSE [report EXCEPT !.failures = Append(@, failure)]

Requires(holds, path, kind) ==
  [report \in Report |->
     IF holds THEN report ELSE Push(report, [path |-> path, kind |-> kind])]

Fails(path, kind) == Requires(FALSE, path, kind)

\* Each check in turn, until one of them truncates the report.
InTurn(checks) ==
  [report \in Report |->
     LET after[n \in 0 .. Len(checks)] ==
           IF n = 0 THEN report
           ELSE IF after[n - 1].truncated THEN after[n - 1] ELSE checks[n][after[n - 1]]
     IN after[Len(checks)]]

IsSuccess(report) == report.failures = <<>>

(***************************************************************************)
(* Comparison with an expected value.  Objects are compared partially,     *)
(* arrays by length and position.                                          *)
(***************************************************************************)
Comparison(n) ==
  [expected : JsonUpTo[n], actual : Json, path : Path, depth : Nat, flexible : BOOLEAN]

Compared(expected, actual, path, depth, flexible) ==
  [expected |-> expected, actual |-> actual, path |-> path, depth |-> depth,
   flexible |-> flexible]

Below(c, s) ==
  Compared(Child(c.expected, s), Child(c.actual, s), Append(c.path, s), c.depth + 1, FALSE)

\* An expected integer is not matched by a float, unless `flexible'.
TypeMatches(c) ==
  IF IsNumber(c.expected)
  THEN IsNumber(c.actual) /\ (c.flexible \/ ~ IsInteger(c.expected) \/ IsInteger(c.actual))
  ELSE KindOf(c.expected) = KindOf(c.actual)

Common(c) ==
  1 .. (IF Len(c.expected.array) < Len(c.actual.array)
        THEN Len(c.expected.array) ELSE Len(c.actual.array))

\* The type is looked at first, then the depth, then the content.
CompareUpTo[n \in 0 .. MaxHeight] ==
  [c \in Comparison(n) |->
     IF ~ TypeMatches(c) THEN Fails(c.path, "TypeMismatch")
     ELSE IF IsStructured(c.expected) /\ c.depth > MaxDepth THEN Fails(c.path, "InvalidBody")
     ELSE IF KindOf(c.expected) = "object"
     THEN InTurn([i \in DOMAIN c.expected.object |->
                    LET s == Key(c.expected.object[i].key)
                    IN IF s \in Segments(c.actual) THEN CompareUpTo[n - 1][Below(c, s)]
                       ELSE Fails(Append(c.path, s), "MissingField")])
     ELSE IF KindOf(c.expected) = "array"
     THEN InTurn(<<Requires(Len(c.expected.array) = Len(c.actual.array),
                            c.path, "ValueMismatch")>>
                   \o [i \in Common(c) |-> CompareUpTo[n - 1][Below(c, Index(i))]])
     ELSE IF IsNumber(c.expected)
     THEN Requires(NumbersEqual(c.expected, c.actual), c.path, "ValueMismatch")
     ELSE Requires(c.expected = c.actual, c.path, "ValueMismatch")]

CompareJson(expected, actual, path, depth, flexible) ==
  CompareUpTo[MaxHeight][Compared(expected, actual, path, depth, flexible)]

(***************************************************************************)
(* Object assertions.  A field has a declared type, and may have an        *)
(* expected value, a nested assertion and a capture.                       *)
(***************************************************************************)
Optional(S) == {s \in Seq(S) : Len(s) <= 1}

Types == {"null", "boolean", "string", "integer", "number", "array", "object"}

Assertion(nested) ==
  {a \in [mode : {"partial", "exact"},
          fields : Seq([name : STRING, type : Types, value : Optional(Json),
                        nested : Optional(nested), capture : Optional(STRING)])] :
     \A i, j \in DOMAIN a.fields : a.fields[i].name = a.fields[j].name => i = j}

AssertionUpTo[n \in 0 .. MaxHeight] ==
  Assertion(IF n = 0 THEN {} ELSE AssertionUpTo[n - 1])

\* An assertion about the object `actual'.
Place(n) == [assertion : AssertionUpTo[n], actual : Json, path : Path, depth : Nat]

HasType(actual, type) ==
  IF type = "number" THEN IsNumber(actual) ELSE KindOf(actual) = type

FieldOf(place, i) == place.assertion.fields[i]
FieldKey(place, i) == Key(FieldOf(place, i).name)
FieldValue(place, i) == Child(place.actual, FieldKey(place, i))
FieldPath(place, i) == Append(place.path, FieldKey(place, i))

FieldComparison(place, i) ==
  [j \in DOMAIN FieldOf(place, i).value |->
     CompareJson(FieldOf(place, i).value[j], FieldValue(place, i), FieldPath(place, i),
                 place.depth + 1, FieldOf(place, i).type = "number")]

Nested(place, i) ==
  [assertion |-> FieldOf(place, i).nested[1], actual |-> FieldValue(place, i),
   path |-> FieldPath(place, i), depth |-> place.depth + 1]

DeclaredNames(assertion) == {assertion.fields[i].name : i \in DOMAIN assertion.fields}

\* In an exact object.
UnexpectedFields(place) ==
  IF place.assertion.mode = "partial" THEN <<>>
  ELSE [i \in DOMAIN place.actual.object |->
          Requires(place.actual.object[i].key \in DeclaredNames(place.assertion),
                   Append(place.path, Key(place.actual.object[i].key)), "UnexpectedField")]

AssertObjectUpTo[n \in 0 .. MaxHeight] ==
  [place \in Place(n) |->
     IF place.depth > MaxDepth THEN Fails(place.path, "InvalidBody")
     ELSE InTurn(
       [i \in DOMAIN place.assertion.fields |->
          IF FieldKey(place, i) \notin Segments(place.actual)
          THEN Fails(FieldPath(place, i), "MissingField")
          ELSE IF ~ HasType(FieldValue(place, i), FieldOf(place, i).type)
          THEN Fails(FieldPath(place, i), "TypeMismatch")
          ELSE InTurn(FieldComparison(place, i)
                        \o IF FieldOf(place, i).nested = <<>>
                                \/ KindOf(FieldValue(place, i)) # "object"
                           THEN <<>>
                           ELSE <<AssertObjectUpTo[n - 1][Nested(place, i)]>>)]
       \o UnexpectedFields(place))]

AssertObject(assertion, actual) ==
  AssertObjectUpTo[MaxHeight][[assertion |-> assertion, actual |-> actual,
                               path |-> <<>>, depth |-> 0]]

(***************************************************************************)
(* Status, headers and body, in this order.  The status has no path: its   *)
(* kind tells it from the body.                                            *)
(***************************************************************************)
AssertStatus(expected, actual) ==
  [i \in DOMAIN expected |->
     Requires(expected[i] = actual, <<>>, "StatusMismatch")]

\* `values' is empty when the response does not have the header.
HeaderMatches(assertion, values) ==
  CASE assertion.rule = "exists" -> values # <<>>
    [] assertion.rule = "exact" -> values = <<assertion.text>>
    [] assertion.rule = "contains" ->
         \E i \in DOMAIN values : values[i] # NotUtf8 /\ assertion.text \subseteq values[i]

AssertHeaders(expected, actual) ==
  [i \in DOMAIN expected |->
     Requires(HeaderMatches(expected[i], actual[expected[i].name]),
              <<Key(expected[i].name)>>, "HeaderMismatch")]

TextMatches(assertion, text) ==
  IF assertion.rule = "exact" THEN assertion.text = text ELSE assertion.text \subseteq text

\* A text body that is not UTF-8 counts as binary here.
AssertBody(expected, actual) ==
  IF expected.kind = "empty"
  THEN Requires(actual.kind = "empty", <<>>, "ValueMismatch")
  ELSE IF expected.kind # actual.kind THEN Fails(<<>>, "InvalidBody")
  ELSE IF expected.kind = "text"
  THEN Requires(TextMatches(expected, actual.text), <<>>, "ValueMismatch")
  ELSE IF KindOf(actual.value) # "object" THEN Fails(<<>>, "TypeMismatch")
  ELSE AssertObject(expected.object, actual.value)

Evaluate(expected, actual, limit) ==
  InTurn(AssertStatus(expected.status, actual.status)
           \o AssertHeaders(expected.headers, actual.headers)
           \o [i \in DOMAIN expected.body |-> AssertBody(expected.body[i], actual.body)])
    [EmptyReport(limit)]
=============================================================================
