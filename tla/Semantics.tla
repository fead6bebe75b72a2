------------------------------ MODULE Semantics -----------------------------
(***************************************************************************)
(* validate_and_convert: the walk of the Validator over a syntax tree, the *)
(* conversion of a tree without errors, and, to see what the walk is worth *)
(* to the later stages, the resolution of one test of the result (module   *)
(* Resolution).  A name is <<what it is apart from case, its spelling>>;   *)
(* variables are plain.  Errors are kept as a set of kinds.  The recursive *)
(* methods are functions on the height of their argument.                  *)
(***************************************************************************)
EXTENDS Resolution

CONSTANTS
  Trees,             \* the syntax trees considered
  MaxSemanticDepth   \* max_depth of the ValidationContext

\* DEFAULT_MAX_SEMANTIC_DEPTH and DEFAULT_MAX_RESOLUTION_DEPTH are both 128.
ASSUME SemanticDepthAssumption == MaxSemanticDepth \in Nat /\ MaxSemanticDepth <= MaxDepth

VARIABLES
  ast,          \* the tree; never changes
  todo,         \* the blocks the walk has not reached
  block,        \* the block being walked, 0 before the first
  walked,       \* how many of its tests have been validated
  scope,        \* the variables visible in the block being walked
  withCore,     \* global_with_core
  diagnostics   \* the kinds of the errors found

semanticVars == <<ast, todo, block, walked, scope, withCore, diagnostics>>

-----------------------------------------------------------------------------
(***************************************************************************)
(* The syntax tree, without its spans.  Text is that of module Resolution; *)
(* an expected value, a nested assertion and a capture are sequences of at *)
(* most one element.                                                       *)
(***************************************************************************)
ScalarAst(type) == [kind |-> "scalar", type |-> type]
ArrayValueAst(items) == [kind |-> "array", items |-> items]
ObjectValueAst(entries) == [kind |-> "object", entries |-> entries]
ObjectValueEntryAst(key, value) == [key |-> key, value |-> value]

RequestSectionAst(of, entries) == [of |-> of, entries |-> entries]
RequestAst(method, path, sections) == [method |-> method, path |-> path, sections |-> sections]

FieldAssertionAst(name, type, expected, nested, capture) ==
  [name |-> name, type |-> type, expected |-> expected, nested |-> nested, capture |-> capture]
ObjectAssertionAst(exact, fields) == [exact |-> exact, fields |-> fields]

StatusAssertionAst(status) == [of |-> "status", status |-> status]
ResponseHeadersAst(entries) == [of |-> "headers", entries |-> entries]
ResponseHeaderAssertionAst(name, text) == [key |-> name, text |-> text]
BodyAssertionAst(form, text, assertion) ==
  [of |-> "body", form |-> form, text |-> text, assertion |-> assertion]
ExpectationAst(sections) == [sections |-> sections]

TestAst(name, requests, expectations) ==
  [name |-> name, requests |-> requests, expectations |-> expectations]
BlockAst(kind, name, tests) == [kind |-> kind, name |-> name, tests |-> tests]

\* The trees made of them, by height; the body of a request is an object.
Spelled == STRING \X STRING
AtMostOne(S) == {s \in Seq(S) : Len(s) <= 1}

ValueTreeUpTo[n \in 0 .. MaxHeight] ==
  TextValue \cup [kind : {"scalar"}, type : {"integer", "number", "boolean", "null"}]
    \cup IF n = 0 THEN {}
         ELSE [kind : {"array"}, items : Seq(ValueTreeUpTo[n - 1])]
                \cup [kind : {"object"},
                      entries : Seq([key : Spelled, value : ValueTreeUpTo[n - 1]])]

ValueTree == ValueTreeUpTo[MaxHeight]

AssertionTypes == {"string", "integer", "number", "object", "array", "boolean", "null"}
FieldTree(nested) ==
  [name : Spelled, type : AssertionTypes \cup {"none"}, expected : AtMostOne(ValueTree),
   nested : nested, capture : AtMostOne(STRING)]

AssertionTreeUpTo[n \in 0 .. MaxHeight] ==
  [exact : BOOLEAN,
   fields : Seq(FieldTree(IF n = 0 THEN {<<>>} ELSE AtMostOne(AssertionTreeUpTo[n - 1])))]

RequestSection ==
  {s \in [of : {"headers", "query", "body"}, entries : Seq([key : Spelled, value : ValueTree])] :
     s.of = "body" => ObjectValueAst(s.entries) \in ValueTree}

ExpectationSection ==
  [of : {"status"}, status : Int]
    \cup [of : {"headers"}, entries : Seq([key : Spelled, text : Seq(Fragment)])]
    \cup [of : {"body"}, form : {"empty", "text", "object"}, text : Seq(Fragment),
          assertion : AssertionTreeUpTo[MaxHeight]]

TestTree ==
  [name : Spelled,
   requests : Seq([method : STRING, path : Seq(Fragment), sections : Seq(RequestSection)]),
   expectations : Seq([sections : Seq(ExpectationSection)])]

SuiteTree ==
  Seq({b \in [kind : {"core", "pipeline", "test"}, name : Spelled, tests : Seq(TestTree)] :
         b.kind = "test" => Len(b.tests) = 1})

ASSUME TreesAssumption == Trees \subseteq SuiteTree

-----------------------------------------------------------------------------
(***************************************************************************)
(* Texts, names and values.  An error set is empty if nothing is wrong.    *)
(***************************************************************************)
When(condition, kind) == IF condition THEN {kind} ELSE {}

\* variable_names gives up at the first malformed placeholder.
IsMalformed(f) == f.kind = "unterminated" \/ (f.kind = "placeholder" /\ f.name = "")

TextErrors(text, visible) ==
  IF \E f \in ToSet(text) : IsMalformed(f) THEN {"interpolation"}
  ELSE UNION {When(f.name \notin visible, "variable") :
                f \in {x \in ToSet(text) : x.kind = "placeholder"}}

\* Faulty: header names are compared as they are spelled.
Uncased(name) == name

Lowercase(name) == <<name[1], "lower">>

\* Some insertion into a set of names fails.
Duplicated(names) == \E i, j \in DOMAIN names : i # j /\ names[i] = names[j]

NameErrors(names) ==
  When(\E n \in ToSet(names) : n[1] = "", "empty_name")
    \cup When(Duplicated(names), "duplicate")

HeaderNameErrors(names) == NameErrors([i \in DOMAIN names |-> Lowercase(names[i])])

Keys(entries) == [i \in DOMAIN entries |-> entries[i].key]

\* Faulty: one level more than the limit is walked into.
EnterInclusive(depth) == depth <= MaxSemanticDepth

Enter(depth) == depth < MaxSemanticDepth

\* A site is a part of a tree with the depth that it has.
At(tree, depth) == [tree |-> tree, depth |-> depth]
ValueSite(n) == [tree : ValueTreeUpTo[n], depth : Nat]

Children(value) ==
  CASE value.kind = "array" -> ToSet(value.items)
    [] value.kind = "object" -> {e.value : e \in ToSet(value.entries)}
    [] OTHER -> {}

\* The calls of validate_value: nothing is validated below the limit.
ReachedUpTo[n \in 0 .. MaxHeight] ==
  [site \in ValueSite(n) |->
     {site} \cup IF Enter(site.depth)
                 THEN UNION {ReachedUpTo[n - 1][At(v, site.depth + 1)] : v \in Children(site.tree)}
                 ELSE {}]

ErrorsAt(site, visible) ==
  CASE site.tree.kind = "text" -> TextErrors(site.tree.text, visible)
    [] site.tree.kind \in {"array", "object"} /\ ~ Enter(site.depth) -> {"nesting"}
    [] site.tree.kind = "object" /\ Enter(site.depth) -> NameErrors(Keys(site.tree.entries))
    [] OTHER -> {}

ValueErrors(value, visible, depth) ==
  UNION {ErrorsAt(s, visible) : s \in ReachedUpTo[MaxHeight][At(value, depth)]}

TypeName(value) ==
  CASE value.kind = "text" -> "string"
    [] value.kind = "scalar" -> value.type
    [] OTHER -> value.kind

TypeAccepts(type, value) ==
  TypeName(value) \in IF type = "number" THEN {"integer", "number"} ELSE {type}

-----------------------------------------------------------------------------
(***************************************************************************)
(* Requests and expectations.                                              *)
(***************************************************************************)
\* Faulty: a section that appears a second time is merged into the first.
RepeatedNever(sections) == {}

Kinds(sections) == [i \in DOMAIN sections |-> sections[i].of]
Repeated(sections) == When(Duplicated(Kinds(sections)), "duplicate")

\* All entries of the sections of one kind: their names share one set.
EntriesOf(sections, kind) ==
  FlattenSeq([i \in DOMAIN sections |->
                IF sections[i].of = kind THEN sections[i].entries ELSE <<>>])

RequestErrors(request, visible) ==
  LET headers == EntriesOf(request.sections, "headers")
      query == EntriesOf(request.sections, "query")
      bodies == {s \in ToSet(request.sections) : s.of = "body"}
  IN When(request.path = <<>>, "empty_path") \cup TextErrors(request.path, visible)
       \cup Repeated(request.sections)
       \cup HeaderNameErrors(Keys(headers)) \cup NameErrors(Keys(query))
       \cup (UNION {ValueErrors(e.value, visible, 0) : e \in ToSet(headers) \cup ToSet(query)})
       \cup When(bodies # {} /\ request.method \notin {"POST", "PUT", "PATCH"}, "body_not_allowed")
       \cup (UNION {ValueErrors(ObjectValueAst(b.entries), visible, 0) : b \in bodies})

AssertionSite(n) == [tree : AssertionTreeUpTo[n], depth : Nat]
NestedIn(assertion) == UNION {ToSet(f.nested) : f \in ToSet(assertion.fields)}
FieldNames(assertion) == [i \in DOMAIN assertion.fields |-> assertion.fields[i].name]

\* The calls of validate_assertion.
AssertionsReachedUpTo[n \in 0 .. MaxHeight] ==
  [site \in AssertionSite(n) |->
     {site} \cup IF Enter(site.depth)
                 THEN UNION {AssertionsReachedUpTo[n - 1][At(a, site.depth + 1)] :
                               a \in NestedIn(site.tree)}
                 ELSE {}]

\* What validate_field reports of a field itself.
FieldErrors(f, visible, depth) ==
  When(f.type = "none" /\ f.expected = <<>> /\ f.nested = <<>>, "missing_assertion")
    \cup (UNION {When(f.type # "none" /\ ~ TypeAccepts(f.type, v), "type_mismatch")
                   \cup ValueErrors(v, visible, depth) : v \in ToSet(f.expected)})
    \cup (UNION {When(f.type # "object", "nested_type") \cup When(n.exact, "nested_mode") :
                   n \in ToSet(f.nested)})
    \cup (UNION {When(f.type = "none", "capture_type") \cup When(c \notin Names, "variable") :
                   c \in ToSet(f.capture)})

AssertionErrorsAt(site, visible) ==
  IF ~ Enter(site.depth) THEN {"nesting"}
  ELSE NameErrors(FieldNames(site.tree))
         \cup UNION {FieldErrors(f, visible, site.depth + 1) : f \in ToSet(site.tree.fields)}

AssertionErrors(assertion, visible) ==
  UNION {AssertionErrorsAt(s, visible) : s \in AssertionsReachedUpTo[MaxHeight][At(assertion, 0)]}

\* The captures the walk meets, in its order: nested ones come first.
CapturesUpTo[n \in 0 .. MaxHeight] ==
  [site \in AssertionSite(n) |->
     LET CapturedBy(f) ==
           (IF f.nested = <<>> THEN <<>>
            ELSE CapturesUpTo[n - 1][At(f.nested[1], site.depth + 1)])
             \o (IF ToSet(f.capture) \subseteq Names THEN f.capture ELSE <<>>)
     IN IF ~ Enter(site.depth) THEN <<>>
        ELSE FlattenSeq([i \in DOMAIN site.tree.fields |-> CapturedBy(site.tree.fields[i])])]

IsObjectBody(section) == section.of = "body" /\ section.form = "object"

ExpectationCaptures(expectation) ==
  FlattenSeq([i \in DOMAIN expectation.sections |->
                LET s == expectation.sections[i]
                IN IF IsObjectBody(s) THEN CapturesUpTo[MaxHeight][At(s.assertion, 0)] ELSE <<>>])

TestCaptures(test) ==
  FlattenSeq([i \in DOMAIN test.expectations |-> ExpectationCaptures(test.expectations[i])])

SectionErrors(s, visible) ==
  CASE s.of = "status" -> When(s.status \notin 100 .. 599, "status")
    [] s.of = "body" /\ s.form = "text" -> TextErrors(s.text, visible)
    [] s.of = "body" /\ s.form = "object" -> AssertionErrors(s.assertion, visible)
    [] OTHER -> {}

ExpectationErrors(expectation, visible) ==
  LET headers == EntriesOf(expectation.sections, "headers")
  IN Repeated(expectation.sections) \cup HeaderNameErrors(Keys(headers))
       \cup (UNION {TextErrors(e.text, visible) : e \in ToSet(headers)})
       \cup (UNION {SectionErrors(s, visible) : s \in ToSet(expectation.sections)})

TestErrors(test, visible) ==
  When(test.name[1] = "", "empty_name")
    \cup When(Len(test.requests) # 1 \/ Len(test.expectations) # 1, "count")
    \cup (UNION {RequestErrors(r, visible) : r \in ToSet(test.requests)})
    \cup (UNION {ExpectationErrors(e, visible) : e \in ToSet(test.expectations)})
    \cup When(ToSet(TestCaptures(test)) \cap visible # {} \/ Duplicated(TestCaptures(test)),
              "duplicate_variable")

-----------------------------------------------------------------------------
(***************************************************************************)
(* Conversion.  A domain map keeps one value for a name, the last.         *)
(***************************************************************************)
Insert(map, entry) ==
  LET same == {i \in DOMAIN map : map[i].key = entry.key}
  IN IF same = {} THEN Append(map, entry)
     ELSE [i \in DOMAIN map |-> IF i \in same THEN entry ELSE map[i]]

AsMap(entries) ==
  LET map[n \in 0 .. Len(entries)] == IF n = 0 THEN <<>> ELSE Insert(map[n - 1], entries[n])
  IN map[Len(entries)]

ConvertUpTo[n \in 0 .. MaxHeight] ==
  [value \in ValueTreeUpTo[n] |->
     CASE value.kind = "array" ->
            List([i \in DOMAIN value.items |-> ConvertUpTo[n - 1][value.items[i]]])
       [] value.kind = "object" ->
            List([i \in DOMAIN AsMap(value.entries) |->
                    ConvertUpTo[n - 1][AsMap(value.entries)[i].value]])
       [] value.kind = "scalar" -> Plain("scalar")
       [] OTHER -> value]

ConvertValue(value) == ConvertUpTo[MaxHeight][value]

ConvertValues(entries) ==
  [i \in DOMAIN AsMap(entries) |-> ConvertValue(AsMap(entries)[i].value)]

NamedFields(assertion) ==
  AsMap([i \in DOMAIN assertion.fields |->
           [key |-> assertion.fields[i].name, field |-> assertion.fields[i]]])

ConvertAssertionUpTo[n \in 0 .. MaxHeight] ==
  [assertion \in AssertionTreeUpTo[n] |->
     LET ConvertField(f) ==
           [expected |-> [i \in DOMAIN f.expected |-> ConvertValue(f.expected[i])],
            nested |-> [i \in DOMAIN f.nested |-> ConvertAssertionUpTo[n - 1][f.nested[i]]]]
     IN [i \in DOMAIN NamedFields(assertion) |-> ConvertField(NamedFields(assertion)[i].field)]]

ConvertAssertion(assertion) == ConvertAssertionUpTo[MaxHeight][assertion]

\* A later body replaces an earlier one.
LastBody(sections) ==
  {sections[i] : i \in {k \in DOMAIN sections :
     sections[k].of = "body" /\ \A j \in DOMAIN sections : j > k => sections[j].of # "body"}}

ConvertRequestBody(sections) ==
  IF LastBody(sections) = {} THEN [kind |-> "none", value |-> Plain("scalar")]
  ELSE LET body == CHOOSE b \in LastBody(sections) : TRUE
       IN [kind |-> "json", value |-> ConvertValue(ObjectValueAst(body.entries))]

ConvertBodyAssertion(sections) ==
  LET body == CHOOSE b \in LastBody(sections) : TRUE
      Assertion(kind, text, fields) == [kind |-> kind, text |-> text, fields |-> fields]
  IN CASE LastBody(sections) = {} \/ body.form = "empty" -> Assertion("empty", <<>>, <<>>)
       [] LastBody(sections) # {} /\ body.form = "text" -> Assertion("text", body.text, <<>>)
       [] OTHER -> Assertion("json", <<>>, ConvertAssertion(body.assertion))

\* A header that must merely exist has no text to be resolved.
ConvertTest(test) ==
  LET request == test.requests[1]
      expected == test.expectations[1].sections
      headers == AsMap(EntriesOf(expected, "headers"))
  IN [path |-> request.path,
      headers |-> ConvertValues(EntriesOf(request.sections, "headers")),
      query |-> ConvertValues(EntriesOf(request.sections, "query")),
      body |-> ConvertRequestBody(request.sections),
      expectedHeaders |-> [i \in DOMAIN headers |-> headers[i].text],
      expectedBody |-> ConvertBodyAssertion(expected)]

-----------------------------------------------------------------------------
(***************************************************************************)
(* All sites, whatever their depth: what the converter visits, and what is *)
(* left of a tree for module Suites.                                       *)
(***************************************************************************)
ValueSitesUpTo[n \in 0 .. MaxHeight] ==
  [site \in ValueSite(n) |->
     {site} \cup UNION {ValueSitesUpTo[n - 1][At(v, site.depth + 1)] : v \in Children(site.tree)}]

AssertionSitesUpTo[n \in 0 .. MaxHeight] ==
  [site \in AssertionSite(n) |->
     {site} \cup UNION {AssertionSitesUpTo[n - 1][At(a, site.depth + 1)] :
                          a \in NestedIn(site.tree)}]

SitesOf(value, depth) == ValueSitesUpTo[MaxHeight][At(value, depth)]

RequestSites(request) ==
  UNION {IF s.of = "body" THEN SitesOf(ObjectValueAst(s.entries), 0)
         ELSE UNION {SitesOf(e.value, 0) : e \in ToSet(s.entries)} : s \in ToSet(request.sections)}

AssertionsIn(expectation) ==
  UNION {AssertionSitesUpTo[MaxHeight][At(s.assertion, 0)] :
           s \in {x \in ToSet(expectation.sections) : IsObjectBody(x)}}

FieldsOf(expectation) == UNION {ToSet(a.tree.fields) : a \in AssertionsIn(expectation)}

ValuesBelow(a) == UNION {UNION {SitesOf(v, a.depth + 1) : v \in ToSet(f.expected)} :
                           f \in ToSet(a.tree.fields)}
ExpectedSites(expectation) == UNION {ValuesBelow(a) : a \in AssertionsIn(expectation)}

\* A status is converted to two bytes.
U16 == 0 .. 256 * 256 - 1

\* The `expect' calls of the converter.
ConversionPanics(test) ==
  \/ test.requests = <<>>
  \/ test.expectations = <<>>
  \/ \E s \in ToSet(test.expectations[1].sections) : s.of = "status" /\ s.status \notin U16
  \/ \E f \in FieldsOf(test.expectations[1]) :
       \/ f.type = "none" /\ f.expected = <<>> /\ f.nested = <<>>
       \/ \E c \in ToSet(f.capture) : c \notin Names

TextsAt(sites) == {s.tree.text : s \in {x \in sites : x.tree.kind = "text"}}

RequestTexts(request) == {request.path} \cup TextsAt(RequestSites(request))

ExpectationTexts(expectation) ==
  {e.text : e \in ToSet(EntriesOf(expectation.sections, "headers"))}
    \cup {s.text : s \in {x \in ToSet(expectation.sections) : x.of = "body" /\ x.form = "text"}}
    \cup TextsAt(ExpectedSites(expectation))

NamesIn(texts) ==
  {[name |-> f.name, whole |-> FALSE] :
     f \in {x \in UNION {ToSet(t) : t \in texts} : x.kind = "placeholder"}}

AbstractTest(test) ==
  [request |-> NamesIn(UNION {RequestTexts(r) : r \in ToSet(test.requests)}),
   expect |-> NamesIn(UNION {ExpectationTexts(e) : e \in ToSet(test.expectations)}),
   captures |-> [i \in DOMAIN TestCaptures(test) |->
                   [name |-> TestCaptures(test)[i], structured |-> FALSE]],
   malformed |-> \E e \in ToSet(test.expectations) : \E f \in FieldsOf(e) :
                    f.nested # <<>> /\ f.type # "object"]

Abstract(tree) ==
  [b \in DOMAIN tree |->
     [kind |-> tree[b].kind,
      tests |-> [i \in DOMAIN tree[b].tests |-> AbstractTest(tree[b].tests[i])]]]

-----------------------------------------------------------------------------
(***************************************************************************)
(* The walk: the first core, then the other blocks in source order.        *)
(***************************************************************************)
FirstCore == {b \in Cores(ast) : \A c \in Cores(ast) : b <= c}

SemanticsInit ==
  /\ ast \in Trees
  /\ todo = {}
  /\ block = 0
  /\ walked = 0
  /\ scope = Predefined
  /\ withCore = Predefined
  /\ diagnostics = {}
  /\ spec = [path |-> <<>>]
  /\ store = <<>>
  /\ phase = "blocks"
  /\ output = [l \in ToSet(Locations) |-> List(<<>>)]
  /\ error = "none"

FindCores ==
  /\ phase = "blocks"
  /\ diagnostics' = When(Cardinality(Cores(ast)) > 1, "duplicate")
  /\ todo' = DOMAIN ast
  /\ phase' = "tests"
  /\ UNCHANGED <<ast, block, walked, scope, withCore, spec, store, output, error>>

BlockIsWalked == walked = IF block = 0 THEN 0 ELSE Len(ast[block].tests)

IsNext(b) == b \in FirstCore \/ (todo \cap FirstCore = {} /\ \A c \in todo : b <= c)

BlockErrors(b) ==
  When(b.kind = "pipeline" /\ b.name[1] = "", "empty_name")
    \cup When(b.kind = "pipeline" /\ b.tests = <<>>, "empty_pipeline")

\* Faulty: the scope of the block before is kept.
VisibleFromBefore(b) == IF ast[b].kind = "core" THEN Predefined ELSE scope

\* A block starts with a clone of global_with_core, a second core of global.
VisibleTo(b) == IF ast[b].kind = "core" THEN Predefined ELSE withCore

EnterBlock ==
  /\ phase = "tests"
  /\ BlockIsWalked
  /\ \E b \in todo :
       /\ IsNext(b)
       /\ block' = b
       /\ todo' = todo \ {b}
       /\ scope' = VisibleTo(b)
       /\ diagnostics' = diagnostics \cup BlockErrors(ast[b])
  /\ walked' = 0
  /\ UNCHANGED <<ast, withCore, spec, store, phase, output, error>>

ValidateTest ==
  /\ phase = "tests"
  /\ ~ BlockIsWalked
  /\ walked' = walked + 1
  /\ LET test == ast[block].tests[walked']
     IN /\ diagnostics' = diagnostics \cup TestErrors(test, scope)
        /\ scope' = scope \cup ToSet(TestCaptures(test))
        /\ withCore' = IF block \in FirstCore THEN scope' ELSE withCore
  /\ UNCHANGED <<ast, todo, block, spec, store, phase, output, error>>

WalkIsOver == phase = "tests" /\ BlockIsWalked /\ todo = {}

Refuse ==
  /\ WalkIsOver
  /\ diagnostics # {}
  /\ phase' = "refused"
  /\ UNCHANGED <<semanticVars, spec, store, output, error>>

Convert ==
  /\ WalkIsOver
  /\ diagnostics = {}
  /\ phase' = IF \E p \in Positions(ast) : ConversionPanics(TestAt(ast, p))
              THEN "panic" ELSE "converted"
  /\ UNCHANGED <<semanticVars, spec, store, output, error>>

\* Some test of the suite comes to be run, with a store that has the names
\* which module Execution gives it.
RunTest ==
  /\ phase = "converted"
  /\ \E p \in Positions(ast) :
       /\ spec' = ConvertTest(TestAt(ast, p))
       /\ store' \in {s \in Stores : DOMAIN s = ScopeAt(Abstract(ast), p)}
  /\ phase' = "path"
  /\ UNCHANGED <<semanticVars, output, error>>

SemanticsNext ==
  \/ FindCores \/ EnterBlock \/ ValidateTest \/ Refuse \/ Convert \/ RunTest
  \/ ResolutionNext /\ UNCHANGED semanticVars

SemanticsSpec == SemanticsInit /\ [][SemanticsNext]_<<semanticVars, resolutionVars>>

-----------------------------------------------------------------------------
(***************************************************************************)
(* Properties.                                                             *)
(***************************************************************************)
AreNames(names) == IsInjective(names) /\ \A n \in ToSet(names) : n[1] # ""
AreHeaders(entries) == AreNames([i \in DOMAIN entries |-> <<entries[i].key[1], "any">>])
Singly(sections) == IsInjective(Kinds(sections))

WellFormed(text) == \A f \in ToSet(text) : ~ IsMalformed(f)

\* An array or an object is within the limit, and has names of its own.
SiteIsSound(site) ==
  /\ site.tree.kind \in {"array", "object"} => site.depth < MaxSemanticDepth
  /\ site.tree.kind = "object" => AreNames(Keys(site.tree.entries))

FieldIsSound(f) ==
  /\ f.type # "none" \/ (f.capture = <<>> /\ f.expected \o f.nested # <<>>)
  /\ f.type # "none" => \A v \in ToSet(f.expected) : TypeAccepts(f.type, v)
  /\ \A n \in ToSet(f.nested) : ~ n.exact
  /\ ToSet(f.capture) \subseteq Names

RequestIsSound(r) ==
  /\ r.path # <<>> /\ \A t \in RequestTexts(r) : WellFormed(t)
  /\ \A s \in RequestSites(r) : SiteIsSound(s)
  /\ Singly(r.sections)
  /\ AreHeaders(EntriesOf(r.sections, "headers"))
  /\ AreNames(Keys(EntriesOf(r.sections, "query")))
  /\ \A s \in ToSet(r.sections) : s.of = "body" => r.method \in {"POST", "PUT", "PATCH"}

ExpectationIsSound(e) ==
  /\ Singly(e.sections) /\ \A t \in ExpectationTexts(e) : WellFormed(t)
  /\ \A s \in ExpectedSites(e) : SiteIsSound(s)
  /\ AreHeaders(EntriesOf(e.sections, "headers"))
  /\ \A s \in ToSet(e.sections) : s.of = "status" => s.status \in 100 .. 599
  /\ \A a \in AssertionsIn(e) : a.depth < MaxSemanticDepth /\ AreNames(FieldNames(a.tree))
  /\ \A f \in FieldsOf(e) : FieldIsSound(f)

TestIsSound(test) ==
  /\ test.name[1] # "" /\ Len(test.requests) = 1 /\ Len(test.expectations) = 1
  /\ \A r \in ToSet(test.requests) : RequestIsSound(r)
  /\ \A e \in ToSet(test.expectations) : ExpectationIsSound(e)

\* The walk, which goes on after an error and carries scopes from test to
\* test, finds no error exactly if every test is sound by itself and the
\* suite is one that module Suites accepts: Accepts, on which the properties
\* of Execution rest, is what validate_and_convert decides.  (An empty file
\* is refused by the parser.)
IsSoundSuite ==
  /\ ast # <<>> => Accepts(Abstract(ast))
  /\ \A b \in DOMAIN ast : ast[b].kind = "pipeline" => ast[b].name[1] # ""
  /\ \A p \in Positions(ast) : TestIsSound(TestAt(ast, p))

AcceptedExactly ==
  /\ phase = "converted" => IsSoundSuite
  /\ phase = "refused" => ~ IsSoundSuite

\* What was accepted can be executed: no `expect' of the converter fails, and
\* the resolver never meets a malformed or undefined placeholder, nor a depth
\* it refuses, unless a structured variable brings it in; only the types and
\* the sizes of values are left to run time.
AcceptedMeansExecutable ==
  /\ phase # "panic"
  /\ phase = "done" => \/ error \in {"none", "bytes", "unsupported"}
                       \/ error = "nesting" /\ \E node \in SpecNodes : Takes(node)
=============================================================================
