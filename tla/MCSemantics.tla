----------------------------- MODULE MCSemantics ----------------------------
(***************************************************************************)
(* Syntax trees for module Semantics: single tests with everything that    *)
(* can be wrong in a request or an expectation, with values from one level *)
(* within the depth limit to one level beyond it, and suites of up to      *)
(* three blocks whose tests capture and read a variable.                   *)
(***************************************************************************)
EXTENDS Semantics

\* Short names of the nodes.
Scalar(type) == ScalarAst(type)
Array(items) == ArrayValueAst(items)
Object(entries) == ObjectValueAst(entries)
Entry(key, value) == ObjectValueEntryAst(key, value)
Section(of, entries) == RequestSectionAst(of, entries)
Request(method, path, sections) == RequestAst(method, path, sections)
Field(name, type, expected, nested, capture) ==
  FieldAssertionAst(name, type, expected, nested, capture)
Assertion(exact, fields) == ObjectAssertionAst(exact, fields)
Status(n) == StatusAssertionAst(n)
Body(form, text, assertion) == BodyAssertionAst(form, text, assertion)

MCNames == {"host", "v"}
MCPredefined == {"host"}

Name(id) == <<id, "lower">>
Loud(id) == <<id, "upper">>
MCKeys == {Name("k"), Loud("k"), Name("j"), Name("")}

Lit == <<Literal(1)>>
MCTexts == {<<>>, Lit, <<Placeholder("host", 1)>>, <<Placeholder("v", 1), Literal(1)>>,
            <<Placeholder("9", 1)>>, <<Literal(1), Placeholder("", 0), Placeholder("v", 1)>>,
            <<Unterminated>>}

Leaves == {Scalar("integer"), Text(Lit), Text(<<Placeholder("host", 1)>>),
           Text(<<Placeholder("v", 1)>>)}
Shallow == {Array(<<>>), Array(<<Text(Lit), Text(<<Unterminated>>)>>), Object(<<>>)}
             \cup {Object(<<Entry(Name("k"), Text(Lit)), Entry(n, Scalar("null"))>>) : n \in MCKeys}
Deep == {Array(<<v>>) : v \in Shallow} \cup {Object(<<Entry(Name("k"), v)>>) : v \in Shallow}
Deeper == {Array(<<Array(<<Object(<<Entry(Name("k"), x)>>)>>)>>) : x \in Leaves}
MCValues == Leaves \cup Shallow \cup Deep \cup Deeper

Headers == {Section("headers", <<Entry(Name("k"), v), Entry(n, Text(Lit))>>) :
              v \in MCValues, n \in MCKeys}
Query == {Section("query", <<Entry(n, v)>>) : v \in MCValues, n \in MCKeys}
BodySections == {Section("body", <<Entry(n, v)>>) : v \in MCValues, n \in {Name("k"), Name("")}}

MCRequests ==
  {Request("GET", t, <<>>) : t \in MCTexts}
    \cup {Request(m, Lit, <<s>>) : m \in {"GET", "PUT"}, s \in Headers \cup Query \cup BodySections}
    \cup {Request("POST", Lit, <<Section(a, <<Entry(Name("k"), Text(Lit))>>),
                                 Section(b, <<Entry(n, Scalar("integer"))>>)>>) :
            a, b \in {"headers", "query", "body"}, n \in MCKeys}

Simple(name) == Field(name, "integer", <<>>, <<>>, <<>>)

MCFields ==
  {Field(Name("k"), type, expected, <<>>, capture) :
     type \in {"none", "number", "array"}, expected \in {<<>>} \cup {<<v>> : v \in MCValues},
     capture \in {<<>>, <<"v">>, <<"host">>, <<"9">>}}
  \cup {Field(Name("k"), type, <<>>, <<Assertion(exact, <<inner>>)>>, capture) :
          type \in {"none", "object", "string"}, exact \in BOOLEAN, capture \in {<<>>, <<"v">>},
          inner \in {Simple(Name("k")), Field(Name("k"), "none", <<>>, <<>>, <<"v">>),
                     Field(Name("k"), "array", <<Array(<<Text(Lit)>>)>>, <<>>, <<"v">>),
                     Field(Name("k"), "object", <<>>, <<Assertion(FALSE, <<Simple(Name(""))>>)>>, <<>>),
                     Field(Name("k"), "object", <<>>, <<Assertion(FALSE, <<Simple(Name("k"))>>)>>, <<"v">>)}}

Nothing == Assertion(FALSE, <<>>)
Exists(keys) ==
  ResponseHeadersAst([i \in DOMAIN keys |-> ResponseHeaderAssertionAst(keys[i], Lit)])
JsonBody(fields) == Body("object", <<>>, Assertion(TRUE, fields))

MCExpectations ==
  {<<Status(n)>> : n \in {-1, 99, 100, 599, 600, 65536}}
    \cup {<<Exists(<<Name("k"), n>>)>> : n \in MCKeys}
    \cup {<<Status(200), Body("text", t, Nothing)>> : t \in MCTexts}
    \cup {<<s, t>> : s, t \in {Status(200), Exists(<<Name("k")>>), Body("empty", <<>>, Nothing)}}
    \cup {<<JsonBody(<<f>>)>> : f \in MCFields}
    \cup {<<JsonBody(<<Field(Name("k"), "array", <<>>, <<>>, <<"v">>),
                       Field(n, "array", <<>>, <<>>, c)>>)>> : n \in MCKeys, c \in {<<>>, <<"v">>}}

TestOf(name, requests, expectations) ==
  TestAst(name, requests,
          [i \in DOMAIN expectations |-> ExpectationAst(expectations[i])])
Get == Request("GET", Lit, <<>>)
BlockOf(kind, tests) == BlockAst(kind, Name("b"), tests)
Alone(test) == <<BlockOf("test", <<test>>)>>

SingleTests ==
  {TestOf(Name("t"), <<r>>, <<<<>>>>) : r \in MCRequests}
    \cup {TestOf(Name("t"), <<Get>>, <<e>>) : e \in MCExpectations}
    \cup {TestOf(n, r, e) : n \in {Name("t"), Name("")},
                          r \in {<<>>, <<Get>>, <<Get, Request("GET", <<Unterminated>>, <<>>)>>},
                          e \in {<<>>, <<<<>>>>, <<<<>>, <<Status(600)>>>>}}

Capturing == <<JsonBody(<<Field(Name("k"), "array", <<>>, <<>>, <<"v">>)>>)>>
Captures == TestOf(Name("t"), <<Get>>, <<Capturing>>)
Reads == TestOf(Name("t"), <<Request("GET", <<Placeholder("v", 1)>>, <<>>)>>, <<<<>>>>)
ReadsAndCaptures == TestOf(Name("t"), <<Request("GET", <<Placeholder("v", 1)>>, <<>>)>>, <<Capturing>>)

Blocks ==
  {BlockOf("core", ts) : ts \in {<<>>, <<Captures>>, <<Reads>>}}
    \cup {BlockOf("pipeline", ts) :
            ts \in {<<>>, <<Captures, Reads>>, <<Reads, Captures>>, <<Captures, ReadsAndCaptures>>}}
    \cup {BlockOf("test", <<t>>) : t \in {Captures, Reads, ReadsAndCaptures}}

MCTrees ==
  {<<>>} \cup {Alone(t) : t \in SingleTests}
    \cup {<<BlockAst("pipeline", Name(""), <<Reads>>)>>}
    \cup {<<b>> : b \in Blocks} \cup {<<b, c>> : b, c \in Blocks}
    \cup {<<b, c, d>> : b, c, d \in Blocks}

Stored(structured, size, tree) == [structured |-> structured, size |-> size, tree |-> tree]
MCStores ==
  UNION {{[n \in names |-> Stored(FALSE, 2, Plain("scalar"))],
          [n \in names |-> Stored(TRUE, 0, List(<<List(<<Plain("scalar")>>)>>))]} :
         names \in {{"host"}, {"host", "v"}}}
=============================================================================
