------------------------------- MODULE Suites -------------------------------
(***************************************************************************)
(* A Rettp suite as the engine and the semantic validator see it, and the  *)
(* static scope rules of the validator.                                    *)
(*                                                                         *)
(* A suite is a sequence of blocks; a block is a core, a pipeline or a     *)
(* standalone test.  Of a test only what decides its fate is kept: which   *)
(* variables its request and its expectation read, what it captures in     *)
(* declaration order, and whether a nested assertion sits under a field    *)
(* whose type is not object.  Everything else (method, URL, literals,      *)
(* assertion values) is abstracted by the nondeterministic answer of the   *)
(* server in module Execution.                                             *)
(***************************************************************************)
EXTENDS Naturals, Sequences

CONSTANTS
  Names,        \* variable names
  Predefined    \* names supplied by the environment, the env file and --var

ASSUME PredefinedAssumption == Predefined \subseteq Names

(***************************************************************************)
(* The shape of a suite.                                                   *)
(*                                                                         *)
(* `whole' marks a placeholder that is an entire JSON string, such as      *)
(* "${id}", in a request body or an expected JSON value: only there may an *)
(* object or an array be substituted.  `structured' says that the captured *)
(* field is declared as an object or an array.                             *)
(***************************************************************************)
Ref == [name : Names, whole : BOOLEAN]
Capture == [name : Names, structured : BOOLEAN]

Test == [request   : SUBSET Ref,
         expect    : SUBSET Ref,
         captures  : Seq(Capture),
         malformed : BOOLEAN]

Block == {b \in [kind : {"core", "pipeline", "test"}, tests : Seq(Test)] :
            b.kind = "test" => Len(b.tests) = 1}

Suite == Seq(Block)

(***************************************************************************)
(* Positions <<block, test>> of the tests of a suite.                      *)
(***************************************************************************)
Positions(s) == UNION {{b} \X (1 .. Len(s[b].tests)) : b \in DOMAIN s}

TestAt(s, p) == s[p[1]].tests[p[2]]
KindAt(s, p) == s[p[1]].kind

Cores(s) == {b \in DOMAIN s : s[b].kind = "core"}
CoreTests(s) == {p \in Positions(s) : KindAt(s, p) = "core"}

\* Tests of the same block that run before p.
Earlier(s, p) == {q \in Positions(s) : q[1] = p[1] /\ q[2] < p[2]}

CaptureNames(test) == {test.captures[i].name : i \in DOMAIN test.captures}

(***************************************************************************)
(* The variables the validator considers defined when it reaches test p:   *)
(* the predefined ones, those captured by earlier tests of the block and,  *)
(* for a block that is not a core, everything the core captures.  The core *)
(* is walked first whatever its place in the file.                         *)
(***************************************************************************)
Captured(s, ps) == UNION {CaptureNames(TestAt(s, p)) : p \in ps}

ScopeOfCore(s, p) == Predefined \cup Captured(s, Earlier(s, p))

\* Faulty: captures of every block above are still in scope.
ScopeWithSiblings(s, p) ==
  Predefined \cup Captured(s, {q \in Positions(s) : q[1] < p[1]}
                                \cup CoreTests(s) \cup Earlier(s, p))

ScopeAt(s, p) ==
  IF KindAt(s, p) = "core"
  THEN ScopeOfCore(s, p)
  ELSE Predefined \cup Captured(s, CoreTests(s) \cup Earlier(s, p))

(***************************************************************************)
(* What the validator demands of one test: every placeholder names a       *)
(* visible variable, a capture is neither visible already nor declared     *)
(* twice by the test, and nested assertions sit under object fields.       *)
(***************************************************************************)
ReadsAreDefined(s, p) ==
  \A r \in TestAt(s, p).request \cup TestAt(s, p).expect : r.name \in ScopeAt(s, p)

CapturesAreDistinct(test) ==
  \A i, j \in DOMAIN test.captures :
     test.captures[i].name = test.captures[j].name => i = j

CapturesAreFresh(s, p) ==
  /\ CaptureNames(TestAt(s, p)) \cap ScopeAt(s, p) = {}
  /\ CapturesAreDistinct(TestAt(s, p))

AcceptsTest(s, p) ==
  /\ ReadsAreDefined(s, p)
  /\ CapturesAreFresh(s, p)
  /\ ~ TestAt(s, p).malformed

\* Shape rules of the suite and block parsers, repeated by the validator.
WellShaped(s) ==
  /\ s # <<>>
  /\ \A b, c \in Cores(s) : b = c
  /\ \A b \in DOMAIN s : s[b].kind = "pipeline" => s[b].tests # <<>>

\* check_source reports no diagnostic.
Accepts(s) == WellShaped(s) /\ \A p \in Positions(s) : AcceptsTest(s, p)

(***************************************************************************)
(* Resolution of a request and then of an expectation.  The first error in *)
(* declaration order is reported; that order is abstracted, so any error   *)
(* of the part may be the first.  A size or nesting limit depends on the   *)
(* values themselves and can be hit by any test.  A store maps the visible *)
(* names to their values, of which `structured' is known.  Module          *)
(* Resolution has what is abstracted here.                                 *)
(***************************************************************************)
ResolutionErrors == {"undefined", "unsupported", "limit"}

ReferenceErrors(refs, store) ==
  {e \in {"undefined", "unsupported"} :
     \E r \in refs : IF r.name \in DOMAIN store
                     THEN e = "unsupported" /\ store[r.name].structured /\ ~ r.whole
                     ELSE e = "undefined"}

PossibleErrors(test, store) ==
  LET inRequest == ReferenceErrors(test.request, store)
  IN {"limit"} \cup (IF inRequest # {} THEN inRequest
                                       ELSE ReferenceErrors(test.expect, store))

Resolves(test, store) == ReferenceErrors(test.request \cup test.expect, store) = {}
=============================================================================
