---------------------------- MODULE CaptureEngine ---------------------------
(***************************************************************************)
(* CaptureEngine::evaluate: the assertions of one test, and, when all of   *)
(* them hold, the walk that stages its captures.  A structured capture     *)
(* shares one copy of its outermost captured ancestor: the staged value is *)
(* that root and the path below it, read back by SharedJsonValue::as_json. *)
(***************************************************************************)
EXTENDS Assertions

CONSTANTS
  Exchanges,  \* pairs of an expectation and a response
  Limits      \* values of AssertionConfig::max_failures

ASSUME LimitsAssumption == Limits \subseteq Nat \ {0}

HeaderTest == [name : STRING, rule : {"exists", "exact", "contains"}, text : SUBSET STRING]
BodyTest ==
  [kind : {"empty"}] \cup [kind : {"text"}, rule : {"exact", "contains"}, text : SUBSET STRING]
    \cup [kind : {"json"}, object : AssertionUpTo[MaxHeight]]
Body ==
  [kind : {"empty", "binary"}] \cup [kind : {"text"}, text : SUBSET STRING]
    \cup [kind : {"json"}, value : Json]

ASSUME ExchangesAssumption ==
  \A x \in Exchanges :
     /\ x.expected.status \in Optional(Nat)
     /\ x.expected.headers \in Seq(HeaderTest)
     /\ x.expected.body \in Optional(BodyTest)
     /\ x.actual.body \in Body

VARIABLES
  exchange,   \* the expectation and the response; never changes
  limit,      \* max_failures; never changes
  phase,      \* "assert", "capture" or "done"
  report,     \* AssertionReport
  staged,     \* PendingCaptures: sequence of [name, root, below, from]
  error       \* the RuntimeError of the walk, or "none"

captureVars == <<exchange, limit, phase, report, staged, error>>

-----------------------------------------------------------------------------
(***************************************************************************)
(* All object assertions in an assertion, with the path that each of them  *)
(* is about.                                                               *)
(***************************************************************************)
Under(k, scopes) == {[path |-> <<Key(k)>> \o s.path, assertion |-> s.assertion] : s \in scopes}

ScopesUpTo[n \in 0 .. MaxHeight] ==
  [a \in AssertionUpTo[n] |->
     {[path |-> <<>>, assertion |-> a]}
       \cup UNION {IF a.fields[i].nested = <<>> THEN {}
                   ELSE Under(a.fields[i].name, ScopesUpTo[n - 1][a.fields[i].nested[1]]) :
                     i \in DOMAIN a.fields}]

Scopes(assertion) == ScopesUpTo[MaxHeight][assertion]

HasCapture(assertion) ==
  \E s \in Scopes(assertion) : \E i \in DOMAIN s.assertion.fields :
     s.assertion.fields[i].capture # <<>>

(***************************************************************************)
(* The walk.  `shared' is the root of the nearest captured ancestor with   *)
(* the depth it was captured at, or <<>>; `from' remembers the whole path  *)
(* of a captured field for the properties.                                 *)
(***************************************************************************)
Reason ==
  {"none", "InvalidCaptureBody", "MissingCaptureField", "InvalidNestedCaptureField",
   "DuplicateVariable"}

Walk == [staged : Seq([name : STRING, root : Json, below : Path, from : Path]), error : Reason]

Site(n) ==
  [assertion : AssertionUpTo[n], actual : Json, path : Path,
   shared : Optional([root : Json, depth : Nat])]

\* Faulty: the depth at which the root was captured is one short.
ShareOneShort(shared, value, path) ==
  IF shared # <<>> THEN shared ELSE <<[root |-> value, depth |-> Len(path) - 1]>>

Share(shared, value, path) ==
  IF shared # <<>> THEN shared ELSE <<[root |-> value, depth |-> Len(path)]>>

\* Faulty: a name captured twice replaces the first capture.
StageReplacing(walk, name, shared, path) ==
  [walk EXCEPT !.staged =
     Append(SelectSeq(@, LAMBDA c : c.name # name),
            [name |-> name, root |-> shared[1].root, from |-> path,
             below |-> SubSeq(path, shared[1].depth + 1, Len(path))])]

Stage(walk, name, shared, path) ==
  IF \E i \in DOMAIN walk.staged : walk.staged[i].name = name
  THEN [walk EXCEPT !.error = "DuplicateVariable"]
  ELSE [walk EXCEPT !.staged =
          Append(@, [name |-> name, root |-> shared[1].root, from |-> path,
                     below |-> SubSeq(path, shared[1].depth + 1, Len(path))])]

SharedBelow(site, i) ==
  IF FieldOf(site, i).capture = <<>> THEN site.shared
  ELSE Share(site.shared, FieldValue(site, i), FieldPath(site, i))

\* The capture of field i, if it has one.
CaptureField(walk, site, i) ==
  IF FieldOf(site, i).capture = <<>> THEN walk
  ELSE Stage(walk, FieldOf(site, i).capture[1], SharedBelow(site, i), FieldPath(site, i))

SiteBelow(site, i) ==
  [assertion |-> FieldOf(site, i).nested[1], actual |-> FieldValue(site, i),
   path |-> FieldPath(site, i), shared |-> SharedBelow(site, i)]

Failed(walk, reason) == [walk EXCEPT !.error = reason]

\* The walk ends at the first error.
UntilError(steps) ==
  [walk \in Walk |->
     LET after[n \in 0 .. Len(steps)] ==
           IF n = 0 THEN walk
           ELSE IF after[n - 1].error # "none" THEN after[n - 1] ELSE steps[n][after[n - 1]]
     IN after[Len(steps)]]

ExtractUpTo[n \in 0 .. MaxHeight] ==
  [site \in Site(n) |->
     UntilError([i \in DOMAIN site.assertion.fields |-> [walk \in Walk |->
       IF FieldKey(site, i) \notin Segments(site.actual)
       THEN Failed(walk, "MissingCaptureField")
       ELSE LET taken == CaptureField(walk, site, i)
            IN IF taken.error # "none" \/ FieldOf(site, i).nested = <<>> THEN taken
               ELSE IF KindOf(FieldValue(site, i)) # "object"
               THEN Failed(taken, "InvalidNestedCaptureField")
               ELSE ExtractUpTo[n - 1][SiteBelow(site, i)][taken]]])]

ExtractObject(assertion, actual) ==
  ExtractUpTo[MaxHeight]
    [[assertion |-> assertion, actual |-> actual, path |-> <<>>, shared |-> <<>>]]
    [[staged |-> <<>>, error |-> "none"]]

-----------------------------------------------------------------------------
CaptureInit ==
  /\ exchange \in Exchanges
  /\ limit \in Limits
  /\ phase = "assert"
  /\ report = EmptyReport(limit)
  /\ staged = <<>>
  /\ error = "none"

Expected == exchange.expected
Actual == exchange.actual

\* The assertion over the JSON body, if there is one.
BodyAssertions == {Expected.body[i].object :
                     i \in {j \in DOMAIN Expected.body : Expected.body[j].kind = "json"}}

EvaluateAssertions ==
  /\ phase = "assert"
  /\ report' = Evaluate(Expected, Actual, limit)
  /\ phase' = IF IsSuccess(report') /\ \E a \in BodyAssertions : HasCapture(a)
              THEN "capture" ELSE "done"
  /\ UNCHANGED <<exchange, limit, staged, error>>

\* A failed walk stages nothing.
Extract ==
  /\ phase = "capture"
  /\ IF Actual.body.kind = "json" /\ KindOf(Actual.body.value) = "object"
     THEN \E a \in BodyAssertions :
            LET walk == ExtractObject(a, Actual.body.value)
            IN /\ error' = walk.error
               /\ staged' = IF walk.error = "none" THEN walk.staged ELSE <<>>
     ELSE /\ error' = "InvalidCaptureBody"
          /\ UNCHANGED staged
  /\ phase' = "done"
  /\ UNCHANGED <<exchange, limit, report>>

CaptureNext == EvaluateAssertions \/ Extract

CaptureSpec == CaptureInit /\ [][CaptureNext]_captureVars

-----------------------------------------------------------------------------
(***************************************************************************)
(* Properties.  The reference below looks at paths and quantifies over     *)
(* them: it knows neither an order, nor a limit, nor a walk.               *)
(***************************************************************************)

\* Numbers are the same point of the line, and if exactly one of them is a
\* float, the integer is one that every f64 represents exactly.
SameNumber(x, y) ==
  LET halves(v) == IF IsInteger(v) THEN 2 * v.integer ELSE v.float
  IN /\ halves(x) = halves(y)
     /\ KindOf(x) # KindOf(y) => Distance(halves(x), 0) <= 2 * MaxExact

NodeMatches(expected, actual, flexible) ==
  CASE IsNumber(expected) -> /\ IsNumber(actual)
                             /\ IsInteger(expected) /\ ~ flexible => IsInteger(actual)
                             /\ SameNumber(expected, actual)
    [] KindOf(expected) = "array" -> KindOf(actual) = "array" /\ Len(expected.array) = Len(actual.array)
    [] KindOf(expected) = "object" -> KindOf(actual) = "object"
    [] OTHER -> expected = actual

PathsUpTo[n \in 0 .. MaxHeight] ==
  [v \in JsonUpTo[n] |->
     {<<>>} \cup UNION {{<<s>> \o p : p \in PathsUpTo[n - 1][Child(v, s)]} : s \in Segments(v)}]

Paths(v) == PathsUpTo[MaxHeight][v]

\* Every node of the expected value has its counterpart, however deep.
ValueMatches(expected, actual, depth, flexible) ==
  \A p \in Paths(expected) :
     /\ NodeMatches(At(expected, p), At(actual, p), flexible /\ p = <<>>)
     /\ IsStructured(At(expected, p)) => depth + Len(p) <= MaxDepth

\* A nested assertion counts only below a value that is an object.
ScopeMatches(scope, object, depth) ==
  /\ depth <= MaxDepth
  /\ \A i \in DOMAIN scope.fields :
       LET field == scope.fields[i]
           value == Child(object, Key(field.name))
       IN /\ value # Missing
          /\ HasType(value, field.type)
          /\ \A j \in DOMAIN field.value :
               ValueMatches(field.value[j], value, depth + 1, field.type = "number")
  /\ scope.mode = "exact" =>
       \A i \in DOMAIN object.object : object.object[i].key \in DeclaredNames(scope)

BodyMatches(assertion, body) ==
  /\ KindOf(body) = "object"
  /\ \A s \in Scopes(assertion) :
       KindOf(At(body, s.path)) = "object"
         => ScopeMatches(s.assertion, At(body, s.path), Len(s.path))

Satisfied ==
  /\ \A i \in DOMAIN Expected.status : Expected.status[i] = Actual.status
  /\ \A i \in DOMAIN Expected.headers :
       HeaderMatches(Expected.headers[i], Actual.headers[Expected.headers[i].name])
  /\ \A i \in DOMAIN Expected.body :
       LET b == Expected.body[i]
       IN CASE b.kind = "empty" -> Actual.body.kind = "empty"
            [] b.kind = "text" -> Actual.body.kind = "text" /\ TextMatches(b, Actual.body.text)
            [] b.kind = "json" -> Actual.body.kind = "json" /\ BodyMatches(b.object, Actual.body.value)

\* A test passes exactly when everything it expects holds: the limit, the
\* early returns and the depth limit never turn a mismatch into a success,
\* and rounding never makes two different numbers equal (numbers_equal).
SuccessMeansSatisfied == phase # "assert" => (IsSuccess(report) <=> Satisfied)

\* What the report keeps are the first failures of the evaluation without a
\* limit, and it is truncated exactly when there are more of them.
NoLimit == -1
Unlimited == Evaluate(Expected, Actual, NoLimit).failures

RetainsFirstFailures ==
  phase # "assert" =>
    /\ Len(report.failures) <= Len(Unlimited)
    /\ \A i \in DOMAIN report.failures : report.failures[i] = Unlimited[i]
    /\ report.truncated <=> Len(Unlimited) > limit
    /\ report.truncated => Len(report.failures) = limit

\* Whatever was captured and shared, reading a staged value back gives the
\* value of the captured field in the response (the expect in as_json holds).
CapturesReadBack ==
  \A i \in DOMAIN staged :
     LET c == staged[i]
     IN /\ At(c.root, c.below) # Missing
        /\ At(c.root, c.below) = At(Actual.body.value, c.from)

(***************************************************************************)
(* What module Execution takes for granted about this engine.              *)
(***************************************************************************)
CaptureFields(assertion) ==
  UNION {{[path |-> Append(s.path, Key(s.assertion.fields[i].name)),
           name |-> s.assertion.fields[i].capture[1]] :
            i \in {j \in DOMAIN s.assertion.fields : s.assertion.fields[j].capture # <<>>}} :
           s \in Scopes(assertion)}

CapturesDistinct(assertion) ==
  \A c, d \in CaptureFields(assertion) : c.name = d.name => c = d

NestedUnderObjects(assertion) ==
  \A s \in Scopes(assertion) : \A i \in DOMAIN s.assertion.fields :
     s.assertion.fields[i].nested # <<>> => s.assertion.fields[i].type = "object"

\* After a success the walk fails for two reasons only, both of which can be
\* seen in the source: a name captured twice, or a nested assertion under a
\* field whose type is not object.  The response has no say in it.
WalkFailsStatically ==
  phase = "done" /\ IsSuccess(report) =>
    \A a \in BodyAssertions :
       (error # "none") <=> /\ HasCapture(a)
                            /\ ~ CapturesDistinct(a) \/ ~ NestedUnderObjects(a)
=============================================================================
