----------------------------- MODULE Resolution -----------------------------
(***************************************************************************)
(* RequestResolver and Interpolator: the request and then the expectation  *)
(* of one test, location by location, up to the first error.  A text is a  *)
(* sequence of fragments and its length in bytes; arrays and objects are   *)
(* alike; `structured' variables carry a tree, the others a length.        *)
(* The recursive methods are functions on the height of their argument.    *)
(***************************************************************************)
EXTENDS Suites, SequencesExt

CONSTANTS
  Specs,     \* the requests and expectations considered
  Stores,    \* the variable stores considered
  MaxBytes,  \* max_interpolated_bytes
  MaxDepth,  \* max_resolution_depth, and max_nesting_depth of the parser
  MaxHeight  \* no value is higher, in a source or in a response

ASSUME LimitsArePositive ==
  MaxBytes \in Nat \ {0} /\ MaxDepth \in Nat \ {0} /\ MaxHeight \in Nat

\* VariableName::new refuses the empty name.
ASSUME NamesAreNotEmpty == "" \notin Names

VARIABLES
  spec,    \* what is resolved
  store,   \* the visible variables
  phase,   \* the location to be resolved next, or "done"
  output,  \* location -> what it resolved to
  error    \* the error returned, "none" so far

resolutionVars == <<spec, store, phase, output, error>>

-----------------------------------------------------------------------------
(***************************************************************************)
(* Texts: literal fragments, placeholders and "${" without an end.  The    *)
(* size of a placeholder is the length of its name.                        *)
(***************************************************************************)
Literal(size) == [kind |-> "literal", name |-> "", size |-> size]
Placeholder(name, size) == [kind |-> "placeholder", name |-> name, size |-> size]
Unterminated == [kind |-> "unterminated", name |-> "", size |-> 0]

Ok(value) == [error |-> "none", value |-> value]
Err(reason) == [error |-> reason, value |-> 0]

Lookup(f) ==
  CASE f.name = "" -> "empty"
    [] f.name # "" /\ f.size > MaxBytes -> "bytes"
    [] f.name # "" /\ f.size <= MaxBytes /\ f.name \notin Names -> "invalid"
    [] f.name \in Names \ DOMAIN store /\ f.size <= MaxBytes -> "undefined"
    [] OTHER -> "none"

\* Faulty: only the fragment is compared with the limit.
PushFragment(length, size) == IF size > MaxBytes THEN Err("bytes") ELSE Ok(length + size)

PushBounded(length, size) ==
  IF length + size > MaxBytes THEN Err("bytes") ELSE Ok(length + size)

InterpolateFragment(sofar, f) ==
  CASE sofar.error # "none" -> sofar
    [] sofar.error = "none" /\ f.kind = "literal" -> PushBounded(sofar.value, f.size)
    [] sofar.error = "none" /\ f.kind = "unterminated" -> Err("unterminated")
    [] OTHER -> IF Lookup(f) # "none" THEN Err(Lookup(f))
                ELSE IF store[f.name].structured THEN Err("unsupported")
                ELSE PushBounded(sofar.value, store[f.name].size)

Interpolate(text) ==
  LET after[n \in 0 .. Len(text)] ==
        IF n = 0 THEN Ok(0) ELSE InterpolateFragment(after[n - 1], text[n])
  IN after[Len(text)]

-----------------------------------------------------------------------------
(***************************************************************************)
(* Values, by height, and the specifications and stores made of them.  A   *)
(* node is a value, the depth that it has, and whether an object or an     *)
(* array may take its place (allow_structured_placeholder).                *)
(***************************************************************************)
Text(text) == [kind |-> "text", text |-> text]
Plain(kind) == [kind |-> kind]
List(items) == [kind |-> "list", items |-> items]
Resolved(size) == [kind |-> "text", size |-> size]

Fragment == [kind : {"literal", "placeholder", "unterminated"}, name : STRING, size : Nat]
TextValue == [kind : {"text"}, text : Seq(Fragment)]

ValueUpTo[n \in 0 .. MaxHeight] ==
  TextValue \cup [kind : {"scalar", "infinite"}]
    \cup IF n = 0 THEN {} ELSE [kind : {"list"}, items : Seq(ValueUpTo[n - 1])]

\* The fields of an object assertion; `nested' holds at most one such object.
FieldsUpTo[n \in 0 .. MaxHeight] ==
  Seq([expected : Seq(ValueUpTo[MaxHeight]),
       nested : IF n = 0 THEN {<<>>} ELSE Seq(FieldsUpTo[n - 1])])

Value == ValueUpTo[MaxHeight]

Spec == [path : Seq(Fragment), headers : Seq(Value), query : Seq(Value),
         body : [kind : {"none", "json"}, value : Value] \cup [kind : {"text"}, value : TextValue]
                  \cup [kind : {"form"}, value : [kind : {"list"}, items : Seq(Value)]],
         expectedHeaders : Seq(Seq(Fragment)),
         expectedBody : [kind : {"empty", "text", "json"}, text : Seq(Fragment),
                         fields : FieldsUpTo[MaxHeight]]]

VariableValue == [structured : BOOLEAN, size : Nat, tree : Value]

ASSUME SpecsAssumption == Specs \subseteq Spec
ASSUME StoresAssumption ==
  \A s \in Stores : DOMAIN s \subseteq Names /\ \A n \in DOMAIN s : s[n] \in VariableValue

Node(n) == [value : ValueUpTo[n], whole : BOOLEAN, depth : Nat]
NodeAt(value, whole, depth) == [value |-> value, whole |-> whole, depth |-> depth]
Item(node, i) == NodeAt(node.value.items[i], node.whole, node.depth + 1)

EnterDepth(depth) == depth <= MaxDepth

\* The results in order, or the first error among them.
Collect(results) ==
  LET failed == {i \in DOMAIN results : results[i].error # "none"}
  IN IF failed = {} THEN Ok(List([i \in DOMAIN results |-> results[i].value]))
     ELSE results[CHOOSE i \in failed : \A j \in failed : i <= j]

\* Faulty: what follows the placeholder is not looked at.
IsExactAtStart(text) == text # <<>> /\ text[1].kind = "placeholder"

\* exact_placeholder
IsExact(text) == Len(text) = 1 /\ text[1].kind = "placeholder"

\* clone_json_bounded and json_to_resolved
CloneUpTo[n \in 0 .. MaxHeight] ==
  [node \in Node(n) |->
     IF ~ EnterDepth(node.depth) THEN Err("nesting")
     ELSE IF node.value.kind # "list" THEN Ok(node.value)
     ELSE Collect([i \in DOMAIN node.value.items |-> CloneUpTo[n - 1][Item(node, i)]])]

CloneBounded(tree, depth) == CloneUpTo[MaxHeight][NodeAt(tree, TRUE, depth)]

\* Faulty: the depth of a substituted value is counted from zero.
SubstituteFresh(name, depth) == CloneBounded(store[name].tree, 0)

Substitute(name, depth) == CloneBounded(store[name].tree, depth)

ResolveText(text, allowStructured, depth) ==
  IF ~ (allowStructured /\ IsExact(text))
  THEN LET length == Interpolate(text)
       IN IF length.error = "none" THEN Ok(Resolved(length.value)) ELSE length
  ELSE IF Lookup(text[1]) # "none" THEN Err(Lookup(text[1]))
  ELSE IF store[text[1].name].structured THEN Substitute(text[1].name, depth)
  ELSE LET length == Interpolate(text)
       IN IF length.error = "none" THEN Ok(Resolved(length.value)) ELSE length

\* resolve_value, and resolve_json_value where structured values are allowed
ResolveUpTo[n \in 0 .. MaxHeight] ==
  [node \in Node(n) |->
     IF ~ EnterDepth(node.depth) THEN Err("nesting")
     ELSE CASE node.value.kind = "text" -> ResolveText(node.value.text, node.whole, node.depth)
            [] node.value.kind = "scalar" -> Ok(node.value)
            [] node.value.kind = "infinite" -> Err("infinite")
            [] node.value.kind = "list" ->
                 Collect([i \in DOMAIN node.value.items |-> ResolveUpTo[n - 1][Item(node, i)]])]

ResolveValue(value, allowStructured, depth) ==
  ResolveUpTo[MaxHeight][NodeAt(value, allowStructured, depth)]

\* Faulty: the assertions below a field are one level deeper than the field.
NestedTooDeep(depth) == depth + 1

\* The assertions below a field start at the depth of the field.
NestedDepth(depth) == depth

\* resolve_object_assertion and resolve_field_assertion: the expected value,
\* then the fields below.
ObjectAssertion(n) == [fields : FieldsUpTo[n], depth : Nat]
AssertionAt(fields, depth) == [fields |-> fields, depth |-> depth]

ResolveObjectUpTo[n \in 0 .. MaxHeight] ==
  [object \in ObjectAssertion(n) |->
     LET depth == object.depth + 1
         Field(f) ==
           IF ~ EnterDepth(depth) THEN Err("nesting")
           ELSE Collect([i \in DOMAIN f.expected |-> ResolveValue(f.expected[i], TRUE, depth)]
                        \o [i \in DOMAIN f.nested |->
                              ResolveObjectUpTo[n - 1][AssertionAt(f.nested[i], NestedDepth(depth))]])
     IN IF ~ EnterDepth(object.depth) THEN Err("nesting")
        ELSE Collect([i \in DOMAIN object.fields |-> Field(object.fields[i])])]

ResolveObject(fields, depth) == ResolveObjectUpTo[MaxHeight][AssertionAt(fields, depth)]

-----------------------------------------------------------------------------
(***************************************************************************)
(* The locations of a request, and then of an expectation, in order.       *)
(***************************************************************************)
Locations == <<"path", "headers", "query", "body", "expected_headers", "expected_body">>
Index(location) == CHOOSE i \in DOMAIN Locations : Locations[i] = location

ResolutionInit ==
  /\ spec \in Specs
  /\ store \in Stores
  /\ phase = "path"
  /\ output = [l \in ToSet(Locations) |-> List(<<>>)]
  /\ error = "none"

\* The `?' after each location.
Settle(result) ==
  /\ error' = result.error
  /\ IF result.error = "none"
     THEN /\ output' = [output EXCEPT ![phase] = result.value]
          /\ phase' = IF Index(phase) = Len(Locations) THEN "done"
                      ELSE Locations[Index(phase) + 1]
     ELSE phase' = "done" /\ UNCHANGED output
  /\ UNCHANGED <<spec, store>>

Texts(texts) == Collect([i \in DOMAIN texts |-> ResolveText(texts[i], FALSE, 0)])
Fields(values) == Collect([i \in DOMAIN values |-> ResolveValue(values[i], FALSE, 0)])

ResolvePath == phase = "path" /\ Settle(ResolveText(spec.path, FALSE, 0))
ResolveHeaders == phase = "headers" /\ Settle(Fields(spec.headers))
ResolveQuery == phase = "query" /\ Settle(Fields(spec.query))

ResolveRequestBody ==
  /\ phase = "body"
  /\ Settle(CASE spec.body.kind = "json" -> ResolveValue(spec.body.value, TRUE, 0)
              [] spec.body.kind = "text" -> ResolveText(spec.body.value.text, FALSE, 0)
              [] spec.body.kind = "form" -> Fields(spec.body.value.items)
              [] OTHER -> Ok(List(<<>>)))

ResolveExpectedHeaders == phase = "expected_headers" /\ Settle(Texts(spec.expectedHeaders))

ResolveBodyAssertion ==
  /\ phase = "expected_body"
  /\ Settle(CASE spec.expectedBody.kind = "json" -> ResolveObject(spec.expectedBody.fields, 0)
              [] spec.expectedBody.kind = "text" ->
                   ResolveText(spec.expectedBody.text, FALSE, 0)
              [] OTHER -> Ok(List(<<>>)))

ResolutionNext ==
  \/ ResolvePath \/ ResolveHeaders \/ ResolveQuery \/ ResolveRequestBody
  \/ ResolveExpectedHeaders \/ ResolveBodyAssertion

ResolutionSpec == ResolutionInit /\ [][ResolutionNext]_resolutionVars

-----------------------------------------------------------------------------
(***************************************************************************)
(* Properties.  They see a specification as the set of its values, each    *)
(* with its depth and whether an object or an array may take its place.    *)
(***************************************************************************)
NodesUpTo[n \in 0 .. MaxHeight] ==
  [node \in Node(n) |->
     {node} \cup IF node.value.kind = "list"
                 THEN UNION {NodesUpTo[n - 1][Item(node, i)] : i \in DOMAIN node.value.items}
                 ELSE {}]

NodesOf(value, whole, depth) == NodesUpTo[MaxHeight][NodeAt(value, whole, depth)]

\* Fields are one level below their object; a field is a node even if nothing
\* is expected of it.
FieldNodesUpTo[n \in 0 .. MaxHeight] ==
  [object \in ObjectAssertion(n) |->
     LET depth == object.depth + 1
     IN UNION {{NodeAt(Plain("scalar"), TRUE, depth)}
                 \cup (UNION {NodesOf(f.expected[i], TRUE, depth) : i \in DOMAIN f.expected})
                 \cup (UNION {FieldNodesUpTo[n - 1][AssertionAt(f.nested[i], depth)] :
                                i \in DOMAIN f.nested}) :
                 f \in ToSet(object.fields)}]

NodesOfObject(fields, depth) == FieldNodesUpTo[MaxHeight][AssertionAt(fields, depth)]

ScalarNodes(values) == UNION {NodesOf(v, FALSE, 0) : v \in values}

RequestNodes ==
  ScalarNodes({Text(spec.path)} \cup ToSet(spec.headers) \cup ToSet(spec.query))
    \cup CASE spec.body.kind = "json" -> NodesOf(spec.body.value, TRUE, 0)
           [] spec.body.kind = "text" -> NodesOf(spec.body.value, FALSE, 0)
           [] spec.body.kind = "form" -> ScalarNodes(ToSet(spec.body.value.items))
           [] OTHER -> {}

ExpectationNodes ==
  ScalarNodes({Text(t) : t \in ToSet(spec.expectedHeaders)})
    \cup CASE spec.expectedBody.kind = "json" -> NodesOfObject(spec.expectedBody.fields, 0)
           [] spec.expectedBody.kind = "text" -> ScalarNodes({Text(spec.expectedBody.text)})
           [] OTHER -> {}

SpecNodes == RequestNodes \cup ExpectationNodes

IsStructured(f) ==
  f.kind = "placeholder" /\ f.name \in DOMAIN store /\ store[f.name].structured

IsWhole(node) == node.whole /\ Len(node.value.text) = 1
Takes(node) == node.value.kind = "text" /\ IsWhole(node) /\ IsStructured(node.value.text[1])

FragmentSize(f) == IF f.kind = "literal" THEN f.size ELSE store[f.name].size
Size(text) ==
  LET total[n \in 0 .. Len(text)] == IF n = 0 THEN 0 ELSE total[n - 1] + FragmentSize(text[n])
  IN total[Len(text)]

Usable(f) ==
  \/ f.kind = "literal"
  \/ f.kind = "placeholder" /\ f.name \in DOMAIN store /\ f.size <= MaxBytes

\* Resolution succeeds exactly if every placeholder has a value of a type its
\* place accepts, no text is longer than max_interpolated_bytes, however it is
\* composed, and nothing is deeper than max_resolution_depth, substituted
\* values included (resolve_request, resolve_expectation, push_bounded).
Fits(node) ==
  /\ node.depth <= MaxDepth
  /\ node.value.kind # "infinite"
  /\ node.value.kind = "text" =>
       /\ \A i \in DOMAIN node.value.text : Usable(node.value.text[i])
       /\ IF Takes(node)
          THEN \A taken \in NodesOf(store[node.value.text[1].name].tree, TRUE, node.depth) :
                  taken.depth <= MaxDepth
          ELSE /\ \A i \in DOMAIN node.value.text : ~ IsStructured(node.value.text[i])
               /\ Size(node.value.text) <= MaxBytes

ResolvesExactly == phase = "done" => (error = "none" <=> \A node \in SpecNodes : Fits(node))

\* Suites and Execution abstract resolution to the set of references of a
\* test: what resolves there resolves here, and an error found here is one
\* that Execution foresees for a suite that check_source could accept.
RefsOf(nodes) ==
  UNION {{[name |-> n.value.text[i].name, whole |-> IsWhole(n)] :
            i \in {j \in DOMAIN n.value.text : n.value.text[j].kind = "placeholder"}} :
           n \in {m \in nodes : m.value.kind = "text"}}

Abstracted == [request |-> RefsOf(RequestNodes), expect |-> RefsOf(ExpectationNodes)]
ErrorClass == IF error \in {"bytes", "nesting"} THEN "limit" ELSE error

AbstractionAgrees ==
  phase = "done" =>
    /\ error = "none" => Resolves(Abstracted, store)
    /\ ErrorClass \in ResolutionErrors => ErrorClass \in PossibleErrors(Abstracted, store)

\* What the parser accepts is not too deep for the resolver: a source nested
\* within max_nesting_depth meets the depth limit only through a structured
\* variable (Parser::enter_nesting and Interpolator::enter_depth count alike).
SourceNesting(node) == node.depth + (IF node.value.kind = "list" THEN 1 ELSE 0)

AcceptedNestingResolves ==
  error = "nesting" => \E n \in SpecNodes : SourceNesting(n) > MaxDepth \/ Takes(n)
=============================================================================
