---------------------------- MODULE SyntaxProofs ----------------------------
(***************************************************************************)
(* The lexer and the parser for every text and every limit.  The lexer     *)
(* loses no text.  Error recovery of the parser discards tokens only after *)
(* an error, and never the keyword of a block; nesting levels are given    *)
(* back on every path; recursion is bounded; and what is parsed without an *)
(* error is a suite.                                                       *)
(*                                                                         *)
(* The parser's follow from what the pending tasks may be.  The first      *)
(* invariant says of every task on the stack, not only of the top one,     *)
(* what kind of record it is; that each synchronization stops at the       *)
(* keywords of blocks; and that there is nothing to synchronize or to skip *)
(* before the first error.  The second counts the levels that the tasks    *)
(* hold, and the room they may take.  The third reads the stack as a path: *)
(* each task leads from the outline it begins in to that of the next task. *)
(***************************************************************************)
EXTENDS ParserRecovery, Lexer, SequenceTheorems, TLAPS

Names == {"method", "options", "request", "requestHeaders", "expect", "statusValue",
          "responseHeaders", "headerTest", "bodyAssertion", "objectAssertion", "fields",
          "fieldType", "assertionType", "captureName", "objectValue", "object", "array",
          "arraySeparator", "comma", "exit"}

Stops == {S \in SUBSET Tokens : SuiteBoundary \subseteq S}

PlainTasks ==
  [task : Names]
  \cup [task : {"suite"}, hasCore : BOOLEAN, hasBlocks : BOOLEAN]
  \cup [task : {"core", "pipeline", "test"}, seen : SUBSET Tokens]
  \cup [task : {"consume"}, token : Tokens]
  \cup [task : {"value"}, stops : Stops]
  \cup [task : {"comparison", "capture"}, type : Types \cup {"none"}, compared : BOOLEAN]

RecoveryTasks ==
  [task : {"sync"}, stops : Stops] \cup [task : {"skip"}, open : Nat]

TasksAfter(error) == IF error THEN PlainTasks \cup RecoveryTasks ELSE PlainTasks

ParserInv ==
  /\ stack \in Seq(TasksAfter(failed))
  /\ look \in Tokens
  /\ failed \in BOOLEAN
  /\ depth \in 0 .. MaxNesting

(***************************************************************************)
(* Tasks.                                                                  *)
(***************************************************************************)

\* Each constructor builds a task of its kind.
LEMMA PlainConstructors ==
  /\ \A n \in Names : Task(n) \in PlainTasks
  /\ \A c, b \in BOOLEAN : Suite(c, b) \in PlainTasks
  /\ \A n \in {"core", "pipeline", "test"}, S \in SUBSET Tokens : Items(n, S) \in PlainTasks
  /\ \A t \in Tokens : Consume(t) \in PlainTasks
  /\ \A S \in Stops : Value(S) \in PlainTasks
  /\ \A n \in {"comparison", "capture"}, t \in Types \cup {"none"}, c \in BOOLEAN :
       FieldEnd(n, t, c) \in PlainTasks
  BY DEF PlainTasks, Task, Suite, Items, Consume, Value, FieldEnd

\* The tasks that the parser pushes for a recovery are well formed.
LEMMA RecoveryConstructors ==
  /\ \A S \in Stops : Sync(S) \in RecoveryTasks
  /\ \A n \in Nat : Skip(n) \in RecoveryTasks
  BY DEF RecoveryTasks, Sync, Skip

\* The stops used by the parser.
LEMMA StopsAreStops ==
  /\ ObjectEntryStops \in Stops
  /\ ArrayItemStops \in Stops
  /\ ExpectationEntryStops \in Stops
  /\ Tokens \in Stops
  BY DEF Stops, ObjectEntryStops, ArrayItemStops, ExpectationEntryStops, Tokens, SuiteBoundary,
         OuterBlockBoundary, TestBoundary, ContainerBoundary, RequestSections, RecoveryBoundary

\* Sequences of a few tasks.
LEMMA Tuples ==
  ASSUME NEW S
  PROVE  /\ <<>> \in Seq(S)
         /\ \A a \in S : <<a>> \in Seq(S)
         /\ \A a, b \in S : <<a, b>> \in Seq(S)
         /\ \A a, b, c \in S : <<a, b, c>> \in Seq(S)
         /\ \A a, b, c, d \in S : <<a, b, c, d>> \in Seq(S)
         /\ \A a, b, c, d, e \in S : <<a, b, c, d, e>> \in Seq(S)
  OBVIOUS

\* What is allowed at any time is allowed after every step.
LEMMA PlainIsAllowed ==
  PlainTasks \subseteq TasksAfter(failed')
  BY DEF TasksAfter

\* A step that replaces the top by tasks allowed after it keeps the stack well formed.
LEMMA ReplaceTop ==
  ASSUME ParserInv, stack # <<>>, failed' \in BOOLEAN, failed => failed',
         NEW tasks \in Seq(TasksAfter(failed')), stack' = tasks \o Tail(stack)
  PROVE  stack' \in Seq(TasksAfter(failed'))
  <1>1. stack \in Seq(TasksAfter(failed'))
    <2>1. TasksAfter(failed) \subseteq TasksAfter(failed')
      BY DEF TasksAfter, ParserInv
    <2> QED
      BY <2>1, SeqMonotonic DEF ParserInv
  <1>2. Tail(stack) \in Seq(TasksAfter(failed'))
    BY <1>1, HeadTailProperties
  <1> QED
    BY <1>2, ConcatProperties

\* The task on top is one of the pending ones.
LEMMA TopIsTask ==
  ASSUME ParserInv, stack # <<>>
  PROVE  Top \in TasksAfter(failed)
  <1>1. stack \in Seq(TasksAfter(failed))
    BY DEF ParserInv
  <1>2. 1 \in 1 .. Len(stack)
    BY <1>1, EmptySeq
  <1> QED
    BY <1>1, <1>2, ElementOfSeq DEF Top

(***************************************************************************)
(* Tokens.                                                                 *)
(***************************************************************************)

\* What a step does with the token; only a discarding one needs a reason.
LookOK ==
  /\ look' \in Tokens
  /\ failed' \in BOOLEAN
  /\ failed => failed'
  /\ taken' = "discarded" => failed' /\ look \notin SuiteBoundary

\* A step that looks without taking is in order.
LEMMA KeepIsOK ==
  ASSUME ParserInv, NEW fails \in BOOLEAN, Keep(fails)
  PROVE  LookOK /\ failed' = (failed \/ fails)
  BY DEF ParserInv, Keep, LookOK

\* A step that uses the current token is in order.
LEMMA UseIsOK ==
  ASSUME ParserInv, NEW fails \in BOOLEAN, Bump("used", fails)
  PROVE  LookOK /\ failed' = (failed \/ fails)
  BY DEF ParserInv, Bump, LookOK

\* A step that discards a token after an error is in order.
LEMMA DiscardIsOK ==
  ASSUME ParserInv, NEW fails \in BOOLEAN, Bump("discarded", fails),
         failed \/ fails, look \notin SuiteBoundary
  PROVE  LookOK /\ failed'
  BY DEF ParserInv, Bump, LookOK

\* So is one that discards a terminal, or stops in front of a boundary.
LEMMA DiscardTerminalIsOK ==
  ASSUME ParserInv, DiscardTerminal
  PROVE  LookOK /\ failed'
  <1>1. CASE look \in RecoveryBoundary
    BY <1>1, KeepIsOK DEF DiscardTerminal
  <1>2. CASE look \notin RecoveryBoundary
    <2>1. look \notin SuiteBoundary
      BY <1>2 DEF RecoveryBoundary, ContainerBoundary, TestBoundary
    <2> QED
      BY <1>2, <2>1, DiscardIsOK DEF DiscardTerminal
  <1> QED
    BY <1>1, <1>2

(***************************************************************************)
(* Steps.  Outside of a skipped container every step is in order.          *)
(***************************************************************************)
InOrder ==
  /\ LookOK
  /\ depth' \in 0 .. MaxNesting
  /\ stack' \in Seq(TasksAfter(failed'))

\* Replacing the top by tasks that are allowed after the step.
LEMMA InOrderBy ==
  ASSUME ParserInv, stack # <<>>, LookOK,
         depth' \in 0 .. MaxNesting,
         NEW tasks \in Seq(TasksAfter(failed')), Then(tasks)
  PROVE  InOrder
  BY ReplaceTop DEF InOrder, LookOK, Then

\* Beginning a recovery keeps the order.
LEMMA RecoverInOrder ==
  ASSUME ParserInv, stack # <<>>, Top \in PlainTasks, UNCHANGED depth,
         NEW known \in Stops, Recover(known)
  PROVE  InOrder
  <1>1. LookOK /\ failed'
    BY DiscardIsOK DEF Recover, Stops
  <1>2. <<Sync(known), Top>> \in Seq(TasksAfter(failed'))
    BY <1>1, RecoveryConstructors DEF TasksAfter
  <1> QED
    BY <1>1, <1>2, InOrderBy DEF Recover, ParserInv

\* Returning from a function keeps the order.
LEMMA LeaveInOrder ==
  ASSUME ParserInv, stack # <<>>, UNCHANGED depth,
         NEW ends, NEW fails \in BOOLEAN, Leave(ends, fails)
  PROVE  InOrder
  <1>1. LookOK
    BY KeepIsOK DEF Leave
  <1>2. <<Consume("}")>> \in Seq(TasksAfter(failed'))
    <2>1. "}" \in Tokens
      BY DEF Tokens, RecoveryBoundary
    <2> QED
      BY <2>1, PlainConstructors, PlainIsAllowed, Tuples
  <1> QED
    BY <1>1, <1>2, InOrderBy DEF Leave, ParserInv

\* Leaving a nesting level keeps the order.
LEMMA CloseInOrder ==
  ASSUME ParserInv, stack # <<>>, UNCHANGED depth,
         NEW bracket \in Tokens, NEW ends, Close(bracket, ends)
  PROVE  InOrder
  <1>1. LookOK
    BY KeepIsOK DEF Close
  <1>2. <<Consume(bracket), Task("exit")>> \in Seq(TasksAfter(failed'))
    <2>1. Consume(bracket) \in PlainTasks /\ Task("exit") \in PlainTasks
      BY PlainConstructors DEF Names
    <2> QED
      BY <2>1, PlainIsAllowed, Tuples
  <1> QED
    BY <1>1, <1>2, InOrderBy DEF Close, ParserInv

\* Entering a nesting level keeps the order.
LEMMA OpenInOrder ==
  ASSUME ParserInv, stack # <<>>,
         NEW bracket, NEW name \in Names, Open(bracket, name)
  PROVE  InOrder
  <1>1. CASE depth >= MaxNesting
    <2>1. LookOK /\ failed' /\ Then(<<Skip(1)>>) /\ depth' = depth
      BY <1>1, UseIsOK DEF Open
    <2>2. <<Skip(1)>> \in Seq(TasksAfter(failed'))
      BY <2>1, RecoveryConstructors DEF TasksAfter
    <2> QED
      BY <2>1, <2>2, InOrderBy DEF ParserInv
  <1>2. CASE ~ (depth >= MaxNesting)
    <2>1. LookOK /\ Then(<<Task(name)>>) /\ depth' = depth + 1
      BY <1>2, UseIsOK DEF Open, Use
    <2>2. <<Task(name)>> \in Seq(TasksAfter(failed'))
      BY PlainConstructors, PlainIsAllowed, Tuples
    <2>3. depth' \in 0 .. MaxNesting
      BY <1>2, <2>1, LimitsAssumption DEF ParserInv
    <2> QED
      BY <2>1, <2>2, <2>3, InOrderBy
  <1> QED
    BY <1>1, <1>2

\* What the record on top holds, by the name of the task.
LEMMA TopFields ==
  ASSUME ParserInv, stack # <<>>
  PROVE  /\ Top.task \notin {"sync", "skip"} => Top \in PlainTasks
         /\ Top.task = "sync" => failed /\ Top.stops \in Stops /\ Top \in RecoveryTasks
         /\ Top.task = "skip" => failed /\ Top.open \in Nat
         /\ Top.task = "value" => Top.stops \in Stops
         /\ Top.task = "suite" => Top.hasCore \in BOOLEAN /\ Top.hasBlocks \in BOOLEAN
         /\ Top.task \in {"core", "pipeline", "test"} => Top.seen \in SUBSET Tokens
         /\ Top.task \in {"comparison", "capture"} =>
              Top.type \in Types \cup {"none"} /\ Top.compared \in BOOLEAN
  BY TopIsTask DEF TasksAfter, PlainTasks, RecoveryTasks, Names, ParserInv

\* A step that leaves plain tasks only.
LEMMA PlainStep ==
  ASSUME ParserInv, stack # <<>>, LookOK, UNCHANGED depth,
         NEW tasks \in Seq(PlainTasks), Then(tasks)
  PROVE  InOrder
  <1>1. tasks \in Seq(TasksAfter(failed'))
    BY PlainIsAllowed, SeqMonotonic
  <1> QED
    BY <1>1, InOrderBy DEF ParserInv

\* A step after an error may leave any task.
LEMMA RecoveryStep ==
  ASSUME ParserInv, stack # <<>>, LookOK, UNCHANGED depth, failed',
         NEW tasks \in Seq(PlainTasks \cup RecoveryTasks), Then(tasks)
  PROVE  InOrder
  BY InOrderBy DEF ParserInv, TasksAfter

(***************************************************************************)
(* The steps of the parser, one lemma for each function.                   *)
(***************************************************************************)
LEMMA ConsumeInOrder ==
  ASSUME ParserInv, ParseConsume
  PROVE  InOrder
  <1>1. LookOK
    BY KeepIsOK, UseIsOK DEF ParseConsume, Use
  <1> QED
    BY <1>1, PlainStep, Tuples DEF ParseConsume, Doing

\* The separator of a list keeps the order.
LEMMA CommaInOrder ==
  ASSUME ParserInv, ParseComma
  PROVE  InOrder
  <1>1. LookOK
    BY KeepIsOK, UseIsOK DEF ParseComma, Use
  <1> QED
    BY <1>1, PlainStep, Tuples DEF ParseComma, Doing

\* A synchronization stops at the keywords of blocks.
LEMMA SynchronizeInOrder ==
  ASSUME ParserInv, Synchronize
  PROVE  InOrder
  <1>1. stack # <<>> /\ failed /\ Top.stops \in Stops /\ depth' \in 0 .. MaxNesting
    BY TopFields DEF Synchronize, Doing, ParserInv
  <1>2. CASE look \in Top.stops \cup {"eof"}
    <2>1. LookOK
      BY <1>2, KeepIsOK DEF Synchronize
    <2> QED
      BY <1>1, <1>2, <2>1, PlainStep, Tuples DEF Synchronize
  <1>3. CASE look \notin Top.stops \cup {"eof"}
    <2>1. look \notin SuiteBoundary
      BY <1>1, <1>3 DEF Stops
    <2>2. LookOK /\ failed' /\ stack' = stack
      BY <1>1, <1>3, <2>1, DiscardIsOK DEF Synchronize
    <2> QED
      BY <1>1, <2>2 DEF InOrder, ParserInv, TasksAfter
  <1> QED
    BY <1>2, <1>3

\* The end of a nested container keeps the order.
LEMMA ExitInOrder ==
  ASSUME ParserInv, ExitNesting
  PROVE  InOrder
  <1>1. LookOK
    BY KeepIsOK DEF ExitNesting
  <1>2. depth' \in 0 .. MaxNesting
    BY LimitsAssumption DEF ExitNesting, ParserInv
  <1>3. <<>> \in Seq(TasksAfter(failed'))
    BY Tuples
  <1> QED
    BY <1>1, <1>2, <1>3, InOrderBy DEF ExitNesting, Doing

\* The tasks that a keyword starts.
LEMMA StartIsPlain ==
  ASSUME NEW keyword \in TestBoundary
  PROVE  /\ Start(keyword) \in Seq(PlainTasks)
         /\ \A task \in PlainTasks : Append(Start(keyword), task) \in Seq(PlainTasks)
  <1>1. {"core", "pipeline", "test", "request", "expect", "{", "string"} \subseteq Tokens
    BY DEF Tokens, RecoveryBoundary, ContainerBoundary, TestBoundary, SuiteBoundary,
           OuterBlockBoundary, Scalars
  <1>2. /\ \A n \in {"core", "pipeline", "test"} : Items(n, {}) \in PlainTasks
        /\ \A t \in {"core", "pipeline", "test", "request", "expect", "{", "string"} :
             Consume(t) \in PlainTasks
        /\ \A n \in {"method", "options", "expect"} : Task(n) \in PlainTasks
    BY <1>1, PlainConstructors DEF Names
  <1>3. Start(keyword) \in Seq(PlainTasks)
    <2>1. CASE keyword = "core"
      BY <1>2, <2>1, Tuples DEF Start
    <2>2. CASE keyword = "pipeline"
      BY <1>2, <2>2, Tuples DEF Start
    <2>3. CASE keyword = "test"
      BY <1>2, <2>3, Tuples DEF Start
    <2>4. CASE keyword = "request"
      BY <1>2, <2>4, Tuples DEF Start
    <2>5. CASE keyword = "expect"
      BY <1>2, <2>5, Tuples DEF Start
    <2> QED
      BY <2>1, <2>2, <2>3, <2>4, <2>5 DEF TestBoundary, SuiteBoundary, OuterBlockBoundary
  <1> QED
    BY <1>3, AppendProperties

\* An item of a loop over blocks, tests, requests and expectations.
LEMMA ItemInOrder ==
  ASSUME ParserInv, stack # <<>>, UNCHANGED depth, look \in TestBoundary,
         NEW fails \in BOOLEAN, Keep(fails),
         NEW next \in PlainTasks, Then(Append(Start(look), next))
  PROVE  InOrder
  BY KeepIsOK, StartIsPlain, PlainStep

\* parse_suite keeps the order.
LEMMA SuiteInOrder ==
  ASSUME ParserInv, ParseSuite
  PROVE  InOrder
  <1>1. /\ stack # <<>> /\ UNCHANGED depth /\ Top \in PlainTasks
        /\ Top.hasCore \in BOOLEAN /\ Top.hasBlocks \in BOOLEAN
    BY TopFields DEF ParseSuite, Doing
  <1>2. CASE look = "eof"
    <2>1. Keep(~ Top.hasBlocks /\ ~ failed) /\ Then(<<>>)
      BY <1>2 DEF ParseSuite, Recover, SuiteBoundary, OuterBlockBoundary
    <2>2. LookOK
      BY <1>1, <2>1, KeepIsOK DEF ParserInv
    <2> QED
      BY <1>1, <2>1, <2>2, PlainStep, Tuples
  <1>3. CASE look \in SuiteBoundary
    <2>1. /\ Keep(look = "core" /\ Top.hasCore)
          /\ Then(Append(Start(look), Suite(Top.hasCore \/ look = "core", TRUE)))
      BY <1>3 DEF ParseSuite, Recover, SuiteBoundary, OuterBlockBoundary
    <2>2. Suite(Top.hasCore \/ look = "core", TRUE) \in PlainTasks
      BY <1>1, PlainConstructors
    <2> QED
      BY <1>1, <1>3, <2>1, <2>2, ItemInOrder DEF TestBoundary
  <1>4. CASE Recover(SuiteBoundary)
    <2>1. SuiteBoundary \in Stops
      BY DEF Stops, Tokens, RecoveryBoundary, ContainerBoundary, TestBoundary
    <2> QED
      BY <1>1, <1>4, <2>1, RecoverInOrder
  <1> QED
    BY <1>2, <1>3, <1>4 DEF ParseSuite

\* The blocks of a suite keep the order.
LEMMA BlockInOrder ==
  ASSUME ParserInv, NEW kind \in {"core", "pipeline"}, NEW fails \in BOOLEAN,
         ParseBlock(kind, fails)
  PROVE  InOrder
  <1> DEFINE ends == {"}"} \cup OuterBlockBoundary
  <1>1. stack # <<>> /\ UNCHANGED depth /\ Top \in PlainTasks
    BY TopFields DEF ParseBlock, Doing
  <1>2. CASE look = "test" /\ Keep(FALSE) /\ Then(Append(Start("test"), Items(kind, {"test"})))
    <2>1. Items(kind, {"test"}) \in PlainTasks /\ look \in TestBoundary
      BY <1>2, PlainConstructors
         DEF Tokens, RecoveryBoundary, ContainerBoundary, TestBoundary, SuiteBoundary
    <2> QED
      BY <1>1, <1>2, <2>1, ItemInOrder
  <1>3. CASE Recover(ends \cup {"test"})
    <2>1. ends \cup {"test"} \in Stops
      BY DEF Stops, Tokens, RecoveryBoundary, ContainerBoundary, TestBoundary, SuiteBoundary
    <2> QED
      BY <1>1, <1>3, <2>1, RecoverInOrder
  <1>4. CASE Leave(ends, fails)
    BY <1>1, <1>4, LeaveInOrder
  <1> QED
    BY <1>2, <1>3, <1>4 DEF ParseBlock

\* parse_test keeps the order.
LEMMA TestInOrder ==
  ASSUME ParserInv, ParseTest
  PROVE  InOrder
  <1> DEFINE ends == {"}"} \cup SuiteBoundary
  <1>1. stack # <<>> /\ UNCHANGED depth /\ Top \in PlainTasks /\ Top.seen \in SUBSET Tokens
    BY TopFields DEF ParseTest, Doing
  <1>2. CASE /\ look \in {"request", "expect"}
             /\ Keep(look = "request" /\ "expect" \in Top.seen)
             /\ Then(Append(Start(look), Items("test", Top.seen \cup {look})))
    <2>1. Items("test", Top.seen \cup {look}) \in PlainTasks /\ look \in TestBoundary
      BY <1>1, <1>2, PlainConstructors
         DEF Tokens, RecoveryBoundary, ContainerBoundary, TestBoundary
    <2> QED
      BY <1>1, <1>2, <2>1, ItemInOrder
  <1>3. CASE Recover(ends \cup {"request", "expect"})
    <2>1. ends \cup {"request", "expect"} \in Stops
      BY DEF Stops, Tokens, RecoveryBoundary, ContainerBoundary, TestBoundary
    <2> QED
      BY <1>1, <1>3, <2>1, RecoverInOrder
  <1>4. CASE Leave(ends, Top.seen # {"request", "expect"})
    BY <1>1, <1>4, LeaveInOrder
  <1> QED
    BY <1>2, <1>3, <1>4 DEF ParseTest

\* The tokens and the names that the sections of the proof speak of.
LEMMA ConsumesArePlain ==
  \A token \in {"}", "{", "=", "string", "tstring", "headers", "query", "body", "status"} :
     token \in Tokens /\ Consume(token) \in PlainTasks
  BY PlainConstructors
     DEF Tokens, RecoveryBoundary, ContainerBoundary, RequestSections, Scalars, ObjectKeys, Types

\* The simplest steps: each replaces the top by a few plain tasks.
LEMMA MethodInOrder ==
  ASSUME ParserInv, ParseHttpMethod
  PROVE  InOrder
  <1>1. LookOK
    BY KeepIsOK, UseIsOK, DiscardTerminalIsOK DEF ParseHttpMethod, Use
  <1> QED
    BY <1>1, PlainStep, Tuples DEF ParseHttpMethod, Doing

\* The options of a request keep the order.
LEMMA OptionsInOrder ==
  ASSUME ParserInv, ParseRequestOptions
  PROVE  InOrder
  <1>1. LookOK
    BY KeepIsOK, UseIsOK DEF ParseRequestOptions, Use
  <1>2. Task("request") \in PlainTasks
    BY PlainConstructors DEF Names
  <1> QED
    BY <1>1, <1>2, PlainStep, Tuples DEF ParseRequestOptions, Doing

\* A status keeps the order.
LEMMA StatusValueInOrder ==
  ASSUME ParserInv, ParseStatusValue
  PROVE  InOrder
  <1>1. LookOK
    BY UseIsOK, DiscardTerminalIsOK DEF ParseStatusValue, Use
  <1> QED
    BY <1>1, PlainStep, Tuples DEF ParseStatusValue, Doing

\* The name of a capture keeps the order.
LEMMA CaptureNameInOrder ==
  ASSUME ParserInv, ParseCaptureName
  PROVE  InOrder
  <1>1. LookOK
    BY UseIsOK, DiscardTerminalIsOK DEF ParseCaptureName, Use
  <1> QED
    BY <1>1, PlainStep, Tuples DEF ParseCaptureName, Doing

\* A capture keeps the order.
LEMMA CaptureInOrder ==
  ASSUME ParserInv, ParseCapture
  PROVE  InOrder
  <1>1. stack # <<>> /\ UNCHANGED depth /\ Top.compared \in BOOLEAN
    BY TopFields DEF ParseCapture, Doing
  <1>2. LookOK
    BY <1>1, KeepIsOK, UseIsOK DEF ParseCapture
  <1>3. Task("captureName") \in PlainTasks
    BY PlainConstructors DEF Names
  <1> QED
    BY <1>1, <1>2, <1>3, PlainStep, Tuples DEF ParseCapture

\* A body assertion keeps the order.
LEMMA BodyAssertionInOrder ==
  ASSUME ParserInv, ParseBodyAssertion
  PROVE  InOrder
  <1>1. LookOK
    BY KeepIsOK, UseIsOK DEF ParseBodyAssertion, Use
  <1>2. Task("comma") \in PlainTasks /\ Task("objectAssertion") \in PlainTasks
    BY PlainConstructors DEF Names
  <1> QED
    BY <1>1, <1>2, ConsumesArePlain, PlainStep, Tuples DEF ParseBodyAssertion, Doing

\* The type of a field keeps the order.
LEMMA FieldTypeInOrder ==
  ASSUME ParserInv, ParseFieldType
  PROVE  InOrder
  <1>1. LookOK
    BY KeepIsOK, UseIsOK DEF ParseFieldType, Use
  <1>2. Task("assertionType") \in PlainTasks /\ FieldEnd("comparison", "none", FALSE) \in PlainTasks
    BY PlainConstructors DEF Names
  <1> QED
    BY <1>1, <1>2, PlainStep, Tuples DEF ParseFieldType, Doing

\* The type of an assertion keeps the order.
LEMMA AssertionTypeInOrder ==
  ASSUME ParserInv, ParseAssertionType
  PROVE  InOrder
  <1>1. LookOK
    BY UseIsOK, DiscardTerminalIsOK DEF ParseAssertionType, Use
  <1>2. \A type \in Types \cup {"none"} : FieldEnd("comparison", type, FALSE) \in PlainTasks
    BY PlainConstructors
  <1> QED
    BY <1>1, <1>2, PlainStep, Tuples DEF ParseAssertionType, Doing

\* A comparison keeps the order.
LEMMA ComparisonInOrder ==
  ASSUME ParserInv, ParseComparison
  PROVE  InOrder
  <1>1. stack # <<>> /\ UNCHANGED depth /\ Top.type \in Types \cup {"none"}
    BY TopFields DEF ParseComparison, Doing
  <1>2. LookOK
    BY KeepIsOK, UseIsOK DEF ParseComparison, Use
  <1>3. /\ Value(Tokens) \in PlainTasks /\ Task("objectAssertion") \in PlainTasks
        /\ \A c \in BOOLEAN : FieldEnd("capture", Top.type, c) \in PlainTasks
    BY <1>1, PlainConstructors, StopsAreStops DEF Names
  <1> QED
    BY <1>1, <1>2, <1>3, PlainStep, Tuples DEF ParseComparison

\* The assertion of a header keeps the order.
LEMMA HeaderTestInOrder ==
  ASSUME ParserInv, ParseHeaderTest
  PROVE  InOrder
  <1>1. stack # <<>> /\ UNCHANGED depth /\ LookOK
    BY KeepIsOK, UseIsOK DEF ParseHeaderTest, Use, Doing
  <1>2. Consume("tstring") \in PlainTasks /\ Consume("string") \in PlainTasks
    BY PlainConstructors DEF Tokens, Scalars, ObjectKeys, Types
  <1>3. CASE look = ":" /\ Then(<<Consume("tstring")>>)
    BY <1>1, <1>2, <1>3, PlainStep, Tuples
  <1>4. CASE Then(<<Consume("string")>>)
    BY <1>1, <1>2, <1>4, PlainStep, Tuples
  <1>5. CASE Keep(TRUE) /\ Then(<<Sync(ExpectationEntryStops)>>)
    <2>1. failed' /\ Sync(ExpectationEntryStops) \in RecoveryTasks
      BY <1>5, KeepIsOK, RecoveryConstructors, StopsAreStops
    <2> QED
      BY <1>1, <1>5, <2>1, RecoveryStep, Tuples
  <1> QED
    BY <1>3, <1>4, <1>5 DEF ParseHeaderTest

\* What follows an array element keeps the order.
LEMMA ArraySeparatorInOrder ==
  ASSUME ParserInv, ParseArraySeparator
  PROVE  InOrder
  <1>1. stack # <<>> /\ UNCHANGED depth /\ LookOK
    BY KeepIsOK, UseIsOK DEF ParseArraySeparator, Use, Doing
  <1>2. CASE Then(<<>>)
    BY <1>1, <1>2, PlainStep, Tuples
  <1>3. CASE Keep(TRUE) /\ Then(<<Sync(ArrayItemStops), Task("comma")>>)
    <2>1. failed' /\ Sync(ArrayItemStops) \in RecoveryTasks /\ Task("comma") \in PlainTasks
      BY <1>3, KeepIsOK, RecoveryConstructors, PlainConstructors, StopsAreStops DEF Names
    <2> QED
      BY <1>1, <1>3, <2>1, RecoveryStep, Tuples
  <1> QED
    BY <1>2, <1>3 DEF ParseArraySeparator

(***************************************************************************)
(* Loops over sections and entries.                                        *)
(***************************************************************************)

\* After an error, an entry is given up: what comes next is synchronized.
LEMMA EntryGivenUp ==
  ASSUME ParserInv, stack # <<>>, UNCHANGED depth, DiscardTerminal, Top \in PlainTasks,
         NEW stops \in Stops, Then(<<Sync(stops), Task("comma"), Top>>)
  PROVE  InOrder
  <1>1. LookOK /\ failed'
    BY DiscardTerminalIsOK
  <1>2. Sync(stops) \in RecoveryTasks /\ Task("comma") \in PlainTasks
    BY RecoveryConstructors, PlainConstructors DEF Names
  <1> QED
    BY <1>1, <1>2, RecoveryStep, Tuples

\* The sections of a request keep the order.
LEMMA RequestSectionsInOrder ==
  ASSUME ParserInv, ParseRequestSections
  PROVE  InOrder
  <1> DEFINE ends == {"}"} \cup TestBoundary
  <1>1. stack # <<>> /\ UNCHANGED depth /\ Top \in PlainTasks
    BY TopFields DEF ParseRequestSections, Doing
  <1>2. Task("requestHeaders") \in PlainTasks /\ Task("objectValue") \in PlainTasks
    BY PlainConstructors DEF Names
  <1>3. CASE /\ Keep(FALSE)
             /\ Then(<<Consume("headers"), Consume("{"), Task("requestHeaders"), Top>>)
    BY <1>1, <1>2, <1>3, KeepIsOK, ConsumesArePlain, PlainStep, Tuples
  <1>4. CASE look \in {"query", "body"} /\ Keep(FALSE) /\ Then(<<Consume(look), Task("objectValue"), Top>>)
    BY <1>1, <1>2, <1>4, KeepIsOK, ConsumesArePlain, PlainStep, Tuples
  <1>5. CASE Recover(ends \cup RequestSections)
    <2>1. ends \cup RequestSections \in Stops
      BY DEF Stops, Tokens, RecoveryBoundary, ContainerBoundary, TestBoundary
    <2> QED
      BY <1>1, <1>5, <2>1, RecoverInOrder
  <1>6. CASE Leave(ends, FALSE)
    BY <1>1, <1>6, LeaveInOrder
  <1> QED
    BY <1>3, <1>4, <1>5, <1>6 DEF ParseRequestSections

\* The headers of a request keep the order.
LEMMA RequestHeadersInOrder ==
  ASSUME ParserInv, ParseRequestHeaders
  PROVE  InOrder
  <1> DEFINE ends == {"}"} \cup ContainerBoundary
  <1>1. stack # <<>> /\ UNCHANGED depth /\ Top \in PlainTasks
    BY TopFields DEF ParseRequestHeaders, Doing
  <1>2. CASE /\ Keep(FALSE)
             /\ Then(<<Consume("string"), Consume("="), Value(ObjectEntryStops), Task("comma"), Top>>)
    <2>1. Value(ObjectEntryStops) \in PlainTasks /\ Task("comma") \in PlainTasks
      BY PlainConstructors, StopsAreStops DEF Names
    <2>2. Consume("string") \in PlainTasks /\ Consume("=") \in PlainTasks
      BY ConsumesArePlain
    <2> QED
      BY <1>1, <1>2, <2>1, <2>2, KeepIsOK, PlainStep, Tuples
  <1>3. CASE Leave(ends, FALSE)
    BY <1>1, <1>3, LeaveInOrder
  <1> QED
    BY <1>2, <1>3 DEF ParseRequestHeaders

\* The sections of an expectation keep the order.
LEMMA ExpectationInOrder ==
  ASSUME ParserInv, ParseExpectation
  PROVE  InOrder
  <1> DEFINE ends == {"}"} \cup TestBoundary
  <1>1. stack # <<>> /\ UNCHANGED depth /\ Top \in PlainTasks
    BY TopFields DEF ParseExpectation, Doing
  <1>2. \A n \in {"statusValue", "comma", "responseHeaders", "bodyAssertion"} : Task(n) \in PlainTasks
    BY PlainConstructors DEF Names
  <1>3. CASE /\ Keep(FALSE)
             /\ Then(<<Consume("status"), Consume("="), Task("statusValue"), Task("comma"), Top>>)
    <2>1. Consume("status") \in PlainTasks /\ Consume("=") \in PlainTasks
      BY ConsumesArePlain
    <2> QED
      BY <1>1, <1>2, <1>3, <2>1, KeepIsOK, PlainStep, Tuples
  <1>4. CASE Keep(FALSE) /\ Then(<<Consume("headers"), Consume("{"), Task("responseHeaders"), Top>>)
    BY <1>1, <1>2, <1>4, KeepIsOK, ConsumesArePlain, PlainStep, Tuples
  <1>5. CASE Keep(FALSE) /\ Then(<<Consume("body"), Task("bodyAssertion"), Top>>)
    BY <1>1, <1>2, <1>5, KeepIsOK, ConsumesArePlain, PlainStep, Tuples
  <1>6. CASE Recover(ends \cup ExpectationSections)
    <2>1. ends \cup ExpectationSections \in Stops
      BY DEF Stops, Tokens, RecoveryBoundary, ContainerBoundary, TestBoundary,
             ExpectationSections, RequestSections
    <2> QED
      BY <1>1, <1>6, <2>1, RecoverInOrder
  <1>7. CASE Leave(ends, FALSE)
    BY <1>1, <1>7, LeaveInOrder
  <1> QED
    BY <1>3, <1>4, <1>5, <1>6, <1>7 DEF ParseExpectation

\* The headers of an expectation keep the order.
LEMMA ResponseHeadersInOrder ==
  ASSUME ParserInv, ParseResponseHeaders
  PROVE  InOrder
  <1> DEFINE ends == {"}"} \cup ExpectationSections \cup TestBoundary
  <1>1. stack # <<>> /\ UNCHANGED depth /\ Top \in PlainTasks
    BY TopFields DEF ParseResponseHeaders, Doing
  <1>2. Task("headerTest") \in PlainTasks /\ Task("comma") \in PlainTasks
    BY PlainConstructors DEF Names
  <1>3. CASE Keep(FALSE) /\ Then(<<Consume("string"), Task("headerTest"), Task("comma"), Top>>)
    BY <1>1, <1>2, <1>3, KeepIsOK, ConsumesArePlain, PlainStep, Tuples
  <1>4. CASE Leave(ends, FALSE)
    BY <1>1, <1>4, LeaveInOrder
  <1> QED
    BY <1>3, <1>4 DEF ParseResponseHeaders

\* parse_value keeps the order.
LEMMA ValueInOrder ==
  ASSUME ParserInv, ParseValue
  PROVE  InOrder
  <1>1. stack # <<>> /\ Top.stops \in Stops
    BY TopFields DEF ParseValue, Doing
  <1>2. CASE Use /\ Then(<<>>) /\ UNCHANGED depth
    BY <1>1, <1>2, UseIsOK, PlainStep, Tuples DEF Use
  <1>3. CASE Open("[", "array")
    BY <1>1, <1>3, OpenInOrder DEF Names
  <1>4. CASE Open("{", "object")
    BY <1>1, <1>4, OpenInOrder DEF Names
  <1>5. CASE Keep(TRUE) /\ Then(<<Sync(Top.stops)>>) /\ UNCHANGED depth
    <2>1. LookOK /\ failed' /\ Sync(Top.stops) \in RecoveryTasks
      BY <1>1, <1>5, KeepIsOK, RecoveryConstructors
    <2> QED
      BY <1>1, <1>5, <2>1, RecoveryStep, Tuples
  <1> QED
    BY <1>2, <1>3, <1>4, <1>5 DEF ParseValue

\* Braces that may be missing.
LEMMA BracesInOrder ==
  ASSUME ParserInv, stack # <<>>, NEW name \in Names, OpenBraces(name)
  PROVE  InOrder
  <1>1. CASE Open("{", name)
    BY <1>1, OpenInOrder
  <1>2. CASE Keep(TRUE) /\ Then(<<>>) /\ UNCHANGED depth
    BY <1>2, KeepIsOK, PlainStep, Tuples
  <1> QED
    BY <1>1, <1>2 DEF OpenBraces

\* The entries of an object keep the order.
LEMMA ObjectEntriesInOrder ==
  ASSUME ParserInv, ParseObjectEntries
  PROVE  InOrder
  <1>1. stack # <<>> /\ UNCHANGED depth /\ Top \in PlainTasks
    BY TopFields DEF ParseObjectEntries, Doing
  <1>2. CASE Close("}", ContainerBoundary)
    BY <1>1, <1>2, ConsumesArePlain, CloseInOrder
  <1>3. CASE Use /\ Then(<<Consume("="), Value(ObjectEntryStops), Task("comma"), Top>>)
    <2>1. Value(ObjectEntryStops) \in PlainTasks /\ Task("comma") \in PlainTasks
      BY PlainConstructors, StopsAreStops DEF Names
    <2> QED
      BY <1>1, <1>3, <2>1, UseIsOK, ConsumesArePlain, PlainStep, Tuples DEF Use
  <1>4. CASE DiscardTerminal /\ Then(<<Sync(ObjectEntryStops), Task("comma"), Top>>)
    BY <1>1, <1>4, StopsAreStops, EntryGivenUp
  <1> QED
    BY <1>2, <1>3, <1>4 DEF ParseObjectEntries

\* The elements of an array keep the order.
LEMMA ArrayInOrder ==
  ASSUME ParserInv, ParseArray
  PROVE  InOrder
  <1>1. stack # <<>> /\ UNCHANGED depth /\ Top \in PlainTasks
    BY TopFields DEF ParseArray, Doing
  <1>2. CASE Close("]", ContainerBoundary)
    <2>1. "]" \in Tokens
      BY DEF Tokens, RecoveryBoundary
    <2> QED
      BY <1>1, <1>2, <2>1, CloseInOrder
  <1>3. CASE Keep(FALSE) /\ Then(<<Value(ArrayItemStops), Task("arraySeparator"), Top>>)
    <2>1. Value(ArrayItemStops) \in PlainTasks /\ Task("arraySeparator") \in PlainTasks
      BY PlainConstructors, StopsAreStops DEF Names
    <2> QED
      BY <1>1, <1>3, <2>1, KeepIsOK, PlainStep, Tuples
  <1>4. CASE DiscardTerminal /\ Then(<<Sync(ArrayItemStops), Task("comma"), Top>>)
    BY <1>1, <1>4, StopsAreStops, EntryGivenUp
  <1> QED
    BY <1>2, <1>3, <1>4 DEF ParseArray

\* The fields of an object assertion keep the order.
LEMMA FieldsInOrder ==
  ASSUME ParserInv, ParseFields
  PROVE  InOrder
  <1>1. stack # <<>> /\ UNCHANGED depth /\ Top \in PlainTasks
    BY TopFields DEF ParseFields, Doing
  <1>2. CASE Close("}", ContainerBoundary)
    BY <1>1, <1>2, ConsumesArePlain, CloseInOrder
  <1>3. CASE Use /\ Then(<<Task("fieldType"), Task("comma"), Top>>)
    <2>1. Task("fieldType") \in PlainTasks /\ Task("comma") \in PlainTasks
      BY PlainConstructors DEF Names
    <2> QED
      BY <1>1, <1>3, <2>1, UseIsOK, PlainStep, Tuples DEF Use
  <1>4. CASE DiscardTerminal /\ Then(<<Sync(ExpectationEntryStops), Task("comma"), Top>>)
    BY <1>1, <1>4, StopsAreStops, EntryGivenUp
  <1> QED
    BY <1>2, <1>3, <1>4 DEF ParseFields

(***************************************************************************)
(* A skipped container: it discards what it meets, after an error.         *)
(***************************************************************************)
LEMMA SkipKeepsInv ==
  ASSUME ParserInv, SkipBalancedContainer
  PROVE  ParserInv' /\ (taken' = "discarded" => failed')
  <1>1. stack # <<>> /\ failed /\ Top.open \in Nat /\ UNCHANGED depth
    BY TopFields DEF SkipBalancedContainer, Doing
  <1>2. CASE look = "eof" \/ Top.open = 0
    <2>1. LookOK
      BY <1>2, KeepIsOK DEF SkipBalancedContainer
    <2>2. InOrder
      BY <1>1, <1>2, <2>1, PlainStep, Tuples DEF SkipBalancedContainer
    <2> QED
      BY <2>2 DEF InOrder, LookOK, ParserInv
  <1>3. CASE ~ (look = "eof" \/ Top.open = 0)
    <2> DEFINE open == CASE look \in {"{", "["} -> Top.open + 1
                         [] look \in {"}", "]"} -> Top.open - 1
                         [] OTHER -> Top.open
    <2>1. Bump("discarded", FALSE) /\ Then(<<Skip(open)>>)
      BY <1>3 DEF SkipBalancedContainer
    <2>2. open \in Nat
      <3>1. Top.open + 1 \in Nat /\ Top.open - 1 \in Nat
        BY <1>1, <1>3
      <3>2. CASE look \in {"{", "["}
        BY <3>1, <3>2
      <3>3. CASE look \in {"}", "]"}
        BY <3>1, <3>3
      <3>4. CASE look \notin {"{", "[", "}", "]"}
        BY <1>1, <3>4
      <3> QED
        BY <3>2, <3>3, <3>4
    <2>3. Skip(open) \in RecoveryTasks
      BY <2>2, RecoveryConstructors
    <2>4. look' \in Tokens /\ failed' \in BOOLEAN /\ failed'
      BY <1>1, <2>1 DEF Bump, ParserInv
    <2>5. <<Skip(open)>> \in Seq(TasksAfter(failed'))
      BY <2>3, <2>4, Tuples DEF TasksAfter
    <2>6. stack' \in Seq(TasksAfter(failed'))
      BY <1>1, <2>1, <2>4, <2>5, ReplaceTop DEF Then
    <2> QED
      BY <1>1, <2>4, <2>6 DEF ParserInv
  <1> QED
    BY <1>2, <1>3

(***************************************************************************)
(* The theorems.                                                           *)
(***************************************************************************)
LEMMA InvHoldsAtFirst ==
  ParserInit => ParserInv
  <1> SUFFICES ASSUME ParserInit PROVE ParserInv
    OBVIOUS
  <1>1. Suite(FALSE, FALSE) \in PlainTasks
    BY PlainConstructors
  <1>2. stack \in Seq(TasksAfter(failed))
    BY <1>1, Tuples DEF ParserInit, TasksAfter
  <1>3. depth \in 0 .. MaxNesting
    BY LimitsAssumption DEF ParserInit
  <1>4. look \in Tokens /\ failed \in BOOLEAN
    BY DEF ParserInit
  <1> QED
    BY <1>2, <1>3, <1>4 DEF ParserInv

\* Every step but one is in order.
LEMMA StepsInOrder ==
  ASSUME ParserInv, ParserNext
  PROVE  InOrder \/ SkipBalancedContainer
  <1>1. CASE ParseSuite \/ ParseCoreBlock \/ ParsePipelineBlock \/ ParseTest
    <2>1. CASE ParsePipelineBlock
      BY <2>1, BlockInOrder DEF ParsePipelineBlock
    <2>2. CASE ParseCoreBlock
      BY <2>2, BlockInOrder DEF ParseCoreBlock
    <2> QED
      BY <1>1, <2>1, <2>2, SuiteInOrder, TestInOrder
  <1>2. CASE \/ ParseHttpMethod \/ ParseRequestOptions
             \/ ParseRequestSections \/ ParseRequestHeaders
    BY <1>2, MethodInOrder, OptionsInOrder, RequestSectionsInOrder, RequestHeadersInOrder
  <1>3. CASE \/ ParseExpectation \/ ParseStatusValue \/ ParseResponseHeaders
             \/ ParseHeaderTest \/ ParseBodyAssertion
    BY <1>3, ExpectationInOrder, StatusValueInOrder, ResponseHeadersInOrder,
       HeaderTestInOrder, BodyAssertionInOrder
  <1>4. CASE ParseObjectAssertion \/ ParseObjectValue
    BY <1>4, BracesInOrder DEF ParseObjectAssertion, ParseObjectValue, Doing, Names
  <1>5. CASE \/ ParseFields \/ ParseFieldType \/ ParseAssertionType
             \/ ParseComparison \/ ParseCapture \/ ParseCaptureName
    BY <1>5, FieldsInOrder, FieldTypeInOrder, AssertionTypeInOrder, ComparisonInOrder,
       CaptureInOrder, CaptureNameInOrder
  <1>6. CASE ParseValue \/ ParseObjectEntries \/ ParseArray \/ ParseArraySeparator
    BY <1>6, ValueInOrder, ObjectEntriesInOrder, ArrayInOrder, ArraySeparatorInOrder
  <1>7. CASE ParseConsume \/ ParseComma \/ Synchronize \/ ExitNesting
    BY <1>7, ConsumeInOrder, CommaInOrder, SynchronizeInOrder, ExitInOrder
  <1> QED
    BY <1>1, <1>2, <1>3, <1>4, <1>5, <1>6, <1>7 DEF ParserNext

\* Every step of the parser keeps the invariant.
LEMMA InvIsInductive ==
  ParserInv /\ [ParserNext]_parserVars => ParserInv'
  <1> SUFFICES ASSUME ParserInv, [ParserNext]_parserVars PROVE ParserInv'
    OBVIOUS
  <1>1. CASE InOrder
    BY <1>1 DEF InOrder, LookOK, ParserInv
  <1>2. CASE SkipBalancedContainer
    BY <1>2, SkipKeepsInv
  <1>3. CASE UNCHANGED parserVars
    BY <1>3 DEF parserVars, ParserInv, TasksAfter
  <1> QED
    BY <1>1, <1>2, <1>3, StepsInOrder

\* Under every nesting limit the pending tasks are well formed, and the nesting
\* depth respects the limit (enter_nesting, exit_nesting).
THEOREM ParserInvariance == ParserSpec => []ParserInv
  BY InvHoldsAtFirst, InvIsInductive, PTL DEF ParserSpec

\* Recovery never swallows the keyword of a block (synchronize_suite and the
\* other synchronizations, discard_unexpected_terminal), whatever the limit.
THEOREM BlocksSurviveRecovery == ParserSpec => KeywordsOpenBlocks
  <1>1. ASSUME ParserInv, [ParserNext]_parserVars
        PROVE  [taken' = "discarded" /\ look \in SuiteBoundary => Doing("skip")]_parserVars
    <2>1. CASE InOrder
      BY <2>1 DEF InOrder, LookOK
    <2>2. CASE SkipBalancedContainer
      BY <2>2 DEF SkipBalancedContainer
    <2> QED
      BY <1>1, <2>1, <2>2, StepsInOrder
  <1> QED
    BY <1>1, ParserInvariance, PTL DEF ParserSpec, KeywordsOpenBlocks

\* No token is discarded without an error, whatever the limit: the AST of a
\* text without errors stands for the whole text.
THEOREM DiscardsAreReported == ParserSpec => NothingSkippedSilently
  <1>1. ASSUME ParserInv, [ParserNext]_parserVars
        PROVE  [taken' = "discarded" => failed']_parserVars
    <2>1. CASE InOrder
      BY <2>1 DEF InOrder, LookOK
    <2>2. CASE SkipBalancedContainer
      BY <1>1, <2>2, SkipKeepsInv
    <2> QED
      BY <1>1, <2>1, <2>2, StepsInOrder
  <1> QED
    BY <1>1, ParserInvariance, PTL DEF ParserSpec, NothingSkippedSilently

(***************************************************************************)
(* Nesting levels.  A level is held by one pending task from the step that *)
(* enters it to the one that gives it back.                                *)
(***************************************************************************)
Holders == {"array", "object", "fields", "exit"}
Weight(name) == IF name \in Holders THEN 1 ELSE 0

\* The most tasks that come of one before a level is entered, itself included.
Room(name) ==
  CASE name = "suite" -> 9
    [] name \in {"core", "pipeline"} -> 8
    [] name = "test" -> 7
    [] name \in {"request", "options"} -> 6
    [] name \in {"requestHeaders", "expect"} -> 5
    [] name \in {"responseHeaders", "array", "object", "fields"} -> 4
    [] name \in {"fieldType", "assertionType", "comparison", "bodyAssertion",
                 "arraySeparator"} -> 2
    [] OTHER -> 1

\* The depth is the number of levels held on the stack; levels[i] counts those
\* from the i-th task downwards, and there is room for what comes of the task.
\* The suite is at the bottom.
Balanced ==
  /\ \E levels \in [1 .. Len(stack) + 1 -> Nat] :
       /\ levels[1] = depth /\ levels[Len(stack) + 1] = 0
       /\ \A i \in 1 .. Len(stack) : levels[i] = levels[i + 1] + Weight(stack[i].task)
       /\ \A i \in 1 .. Len(stack) :
            Len(stack) - i + Room(stack[i].task) <= 9 + 3 * levels[i]
  /\ \A i \in 1 .. Len(stack) : stack[i].task = "suite" => i = Len(stack)

IsStack(tasks) == \E S : tasks \in Seq(S)

Holding(tasks) == IF Len(tasks) = 0 THEN 0 ELSE Weight(tasks[Len(tasks)].task)

\* Only the last of the tasks that replace another one holds a level, or is the
\* suite, which replaces only itself; and they find room.
Fits(tasks) ==
  /\ IsStack(tasks)
  /\ \A i \in 1 .. Len(tasks) :
       Len(tasks) - i + Room(tasks[i].task) + 3 * Weight(Top.task)
         <= Room(Top.task) + 3 * Holding(tasks)
  /\ \A i \in 1 .. Len(tasks) : tasks[i].task \in Holders \cup {"suite"} => i = Len(tasks)
  /\ \A i \in 1 .. Len(tasks) : tasks[i].task = "suite" => Top.task = "suite"

\* Each task takes some room.
LEMMA RoomIsNat ==
  \A name : Room(name) \in Nat /\ 1 <= Room(name) /\ Room(name) <= Room(name)
              /\ Weight(name) \in Nat
  BY DEF Room, Weight

\* The levels stay balanced if the new tasks hold what the depth says.
LEMMA ExchangeBalances ==
  ASSUME ParserInv, Balanced, stack # <<>>, NEW tasks, Fits(tasks),
         stack' = tasks \o Tail(stack),
         depth' = depth - Weight(Top.task) + Holding(tasks)
  PROVE  Balanced'
  <1> DEFINE n == Len(tasks)
             m == Len(stack)
  <1>1. m \in Nat \ {0} /\ n \in Nat
    <2>1. stack \in Seq(TasksAfter(failed))
      BY DEF ParserInv
    <2>2. m \in Nat
      BY <2>1, LenProperties
    <2>3. m # 0
      BY <2>1, EmptySeq
    <2>4. PICK S : tasks \in Seq(S)
      BY DEF Fits, IsStack
    <2> QED
      BY <2>2, <2>3, <2>4, LenProperties
  <1>2. /\ Len(stack') = n + m - 1
        /\ \A i \in 1 .. n : stack'[i] = tasks[i]
        /\ \A i \in n + 1 .. n + m - 1 : stack'[i] = stack[i - n + 1]
    <2>1. PICK S : tasks \in Seq(S)
      BY DEF Fits, IsStack
    <2> DEFINE U == S \cup TasksAfter(failed)
    <2>2. tasks \in Seq(U) /\ stack \in Seq(U)
      BY <2>1, SeqMonotonic DEF ParserInv
    <2>3. /\ Tail(stack) \in Seq(U) /\ Len(Tail(stack)) = m - 1
          /\ \A i \in 1 .. m - 1 : Tail(stack)[i] = stack[i + 1]
      BY <2>2, HeadTailProperties
    <2> HIDE DEF U
    <2> DEFINE rest == Tail(stack)
    <2>4. /\ Len(tasks \o rest) = n + (m - 1)
          /\ \A i \in 1 .. n + (m - 1) :
               (tasks \o rest)[i] = IF i <= n THEN tasks[i] ELSE rest[i - n]
      BY <2>2, <2>3, ConcatProperties
    <2>5. \A i \in n + 1 .. n + m - 1 : i - n \in 1 .. m - 1 /\ i \in 1 .. n + (m - 1) /\ ~ (i <= n)
      BY <1>1
    <2> QED
      BY <1>1, <2>3, <2>4, <2>5
  <1>0. PICK levels \in [1 .. m + 1 -> Nat] :
          /\ levels[1] = depth /\ levels[m + 1] = 0
          /\ \A i \in 1 .. m : levels[i] = levels[i + 1] + Weight(stack[i].task)
          /\ \A i \in 1 .. m : m - i + Room(stack[i].task) <= 9 + 3 * levels[i]
    BY DEF Balanced
  <1>3. /\ levels \in [1 .. m + 1 -> Nat]
        /\ levels[1] = depth /\ levels[m + 1] = 0
        /\ \A i \in 1 .. m : levels[i] = levels[i + 1] + Weight(stack[i].task)
    BY <1>0
  <1>4. depth' = levels[2] + Holding(tasks) /\ levels[2] \in Nat /\ Holding(tasks) \in Nat
    <2>1. levels[1] = levels[2] + Weight(Top.task) /\ levels[2] \in Nat
      BY <1>1, <1>3 DEF Top
    <2>2. Weight(Top.task) \in Nat /\ Holding(tasks) \in Nat
      BY DEF Weight, Holding
    <2> QED
      BY <1>3, <2>1, <2>2
  <1> DEFINE after == [i \in 1 .. n + m |->
                         IF i <= n THEN levels[2] + Holding(tasks) ELSE levels[i - n + 1]]
  <1>5. /\ after = [i \in 1 .. n + m |-> after[i]]
        /\ \A i \in 1 .. n + m : i <= n => after[i] = levels[2] + Holding(tasks)
        /\ \A i \in 1 .. n + m : i > n => after[i] = levels[i - n + 1]
    OBVIOUS
  <1> HIDE DEF after
  <1>6. \A i \in 1 .. n + m : i > n => i - n + 1 \in 2 .. m + 1
    BY <1>1
  <1>7. after \in [1 .. Len(stack') + 1 -> Nat]
    <2>1. ASSUME NEW i \in 1 .. n + m
          PROVE  after[i] \in Nat
      <3>1. CASE i <= n
        BY <1>4, <1>5, <3>1
      <3>2. CASE i > n
        <4>1. i - n + 1 \in 1 .. m + 1
          BY <1>1, <1>6, <3>2
        <4> QED
          BY <1>3, <1>5, <3>2, <4>1
      <3> QED
        BY <1>1, <3>1, <3>2
    <2>2. Len(stack') + 1 = n + m
      BY <1>1, <1>2
    <2> QED
      BY <1>5, <2>1, <2>2
  <1>8. after[Len(stack') + 1] = 0
    <2> DEFINE last == n + m
    <2>1. Len(stack') + 1 = last /\ last \in 1 .. n + m /\ last > n /\ last - n + 1 = m + 1
      BY <1>1, <1>2
    <2> HIDE DEF last
    <2>2. after[last] = levels[m + 1]
      BY <1>5, <2>1
    <2> QED
      BY <1>3, <2>1, <2>2
  <1>9. after[1] = depth'
    <2>1. 1 \in 1 .. n + m
      BY <1>1
    <2>2. CASE n = 0
      <3>1. 1 > n /\ 1 - n + 1 = 2 /\ Holding(tasks) = 0
        BY <2>2 DEF Holding
      <3>2. after[1] = levels[2]
        BY <1>5, <2>1, <3>1
      <3> QED
        BY <1>4, <3>1, <3>2
    <2>3. CASE n > 0
      <3>1. 1 <= n
        BY <1>1, <2>3
      <3> QED
        BY <1>4, <1>5, <2>1, <3>1
    <2> QED
      BY <1>1, <2>2, <2>3
  <1>10. ASSUME NEW i \in 1 .. Len(stack')
        PROVE  after[i] = after[i + 1] + Weight(stack'[i].task)
    <2>0. i \in 1 .. n + m /\ i + 1 \in 1 .. n + m
      BY <1>1, <1>2
    <2>1. CASE i < n
      <3>1. after[i] = after[i + 1] /\ after[i] \in Nat
        BY <1>1, <1>4, <1>5, <2>0, <2>1
      <3>2. Weight(stack'[i].task) = 0
        BY <1>1, <1>2, <2>0, <2>1 DEF Fits, Weight
      <3> QED
        BY <3>1, <3>2
    <2>2. CASE i = n
      <3>1. Weight(stack'[i].task) = Holding(tasks)
        BY <1>1, <1>2, <2>2, <2>0 DEF Holding
      <3>2. after[i] = levels[2] + Holding(tasks)
        BY <1>5, <2>0, <2>2, <1>1
      <3>3. after[i + 1] = levels[2]
        <4>1. i + 1 > n /\ (i + 1) - n + 1 = 2
          BY <1>1, <2>2
        <4> QED
          BY <1>5, <2>0, <4>1
      <3> QED
        BY <3>1, <3>2, <3>3
    <2>3. CASE i > n
      <3> DEFINE j == i - n + 1
      <3>1. j \in 1 .. m /\ i \in n + 1 .. n + m - 1 /\ i + 1 > n /\ (i + 1) - n + 1 = j + 1
        BY <1>1, <1>2, <2>3
      <3>2. stack'[i] = stack[j]
        BY <1>2, <3>1
      <3>3. after[i] = levels[j] /\ after[i + 1] = levels[j + 1]
        BY <1>5, <2>0, <2>3, <3>1
      <3>4. levels[j] = levels[j + 1] + Weight(stack[j].task)
        BY <1>3, <3>1
      <3> QED
        BY <3>2, <3>3, <3>4
    <2> QED
      BY <1>1, <2>0, <2>1, <2>2, <2>3
  <1>11. ASSUME NEW i \in 1 .. Len(stack'), stack'[i].task = "suite"
         PROVE  i = Len(stack')
    <2>1. CASE i <= n
      <3>1. stack'[i] = tasks[i] /\ i \in 1 .. n
        BY <1>1, <1>2, <2>1
      <3>2. i = n /\ Top.task = "suite"
        BY <1>11, <3>1 DEF Fits
      <3>3. m = 1
        <4>1. 1 \in 1 .. m /\ stack[1].task = "suite"
          BY <1>1, <3>2 DEF Top
        <4> QED
          BY <4>1 DEF Balanced
      <3> QED
        BY <1>1, <1>2, <3>2, <3>3
    <2>2. CASE i > n
      <3>1. i - n + 1 \in 1 .. m /\ i \in n + 1 .. n + m - 1
        BY <1>1, <1>2, <2>2
      <3>2. stack'[i] = stack[i - n + 1]
        BY <1>2, <3>1
      <3>3. i - n + 1 = m
        BY <1>11, <3>1, <3>2 DEF Balanced
      <3> QED
        BY <1>1, <1>2, <3>1, <3>3
    <2> QED
      BY <1>1, <1>2, <2>1, <2>2
  <1>12. ASSUME NEW i \in 1 .. Len(stack')
         PROVE  Len(stack') - i + Room(stack'[i].task) <= 9 + 3 * after[i]
    <2>0. i \in 1 .. n + m /\ Len(stack') = n + m - 1
      BY <1>1, <1>2
    <2>1. CASE i <= n
      <3> DEFINE room == Room(tasks[i].task)
                 top == Room(Top.task)
                 weight == Weight(Top.task)
                 held == Holding(tasks)
                 level == levels[2]
      <3>1. i \in 1 .. n /\ stack'[i] = tasks[i] /\ after[i] = level + held
        BY <1>1, <1>2, <1>5, <2>0, <2>1
      <3>2. n - i + room + 3 * weight <= top + 3 * held
        BY <3>1 DEF Fits
      <3>3. m - 1 + top <= 9 + 3 * (level + weight)
        <4>1. 1 \in 1 .. m /\ levels[1] = level + weight
          BY <1>1, <1>3 DEF Top
        <4>2. m - 1 + Room(stack[1].task) <= 9 + 3 * levels[1]
          BY <1>0, <4>1
        <4> QED
          BY <4>1, <4>2 DEF Top
      <3>4. room \in Nat /\ top \in Nat /\ weight \in Nat /\ held \in Nat /\ level \in Nat
        <4>1. room \in Nat /\ top \in Nat /\ weight \in Nat
          BY RoomIsNat
        <4> QED
          BY <1>4, <4>1
      <3> HIDE DEF room, top, weight, held, level
      <3>5. n + m - 1 - i + room <= 9 + 3 * (level + held)
        BY <1>1, <2>0, <3>2, <3>3, <3>4
      <3> QED
        BY <2>0, <3>1, <3>5 DEF room
    <2>2. CASE i > n
      <3> DEFINE j == i - n + 1
      <3>1. j \in 1 .. m /\ i \in n + 1 .. n + m - 1 /\ m - j = n + m - 1 - i
        BY <1>1, <2>0, <2>2
      <3>2. stack'[i] = stack[j] /\ after[i] = levels[j]
        BY <1>2, <1>5, <2>0, <2>2, <3>1
      <3>3. m - j + Room(stack[j].task) <= 9 + 3 * levels[j]
        BY <1>0, <3>1
      <3> QED
        BY <2>0, <3>1, <3>2, <3>3
    <2> QED
      BY <1>1, <2>0, <2>1, <2>2
  <1> QED
    BY <1>7, <1>8, <1>9, <1>10, <1>11, <1>12 DEF Balanced

\* How much room a task takes.
LEMMA Rooms ==
  /\ Room("suite") = 9 /\ Room("core") = 8 /\ Room("pipeline") = 8 /\ Room("test") = 7
  /\ Room("request") = 6 /\ Room("options") = 6
  /\ Room("requestHeaders") = 5 /\ Room("expect") = 5 /\ Room("responseHeaders") = 4
  /\ Room("array") = 4 /\ Room("object") = 4 /\ Room("fields") = 4
  /\ Room("fieldType") = 2 /\ Room("assertionType") = 2 /\ Room("comparison") = 2
  /\ Room("bodyAssertion") = 2 /\ Room("arraySeparator") = 2
  /\ \A name \in {"method", "consume", "value", "sync", "skip", "comma", "exit", "capture",
                  "captureName", "statusValue", "headerTest", "objectValue",
                  "objectAssertion"} : Room(name) = 1
  BY DEF Room

(***************************************************************************)
(* Steps that leave the depth alone: at most the last of the new tasks     *)
(* holds a level, and it does exactly if the one it replaces did.          *)
(***************************************************************************)
Loose(t) == t.task \notin Holders \cup {"suite"}

\* t goes before that many others.
Before(others, t) == Loose(t) /\ others + Room(t.task) <= Room(Top.task)

\* a takes over from the task on top.
Succeeds(a) ==
  /\ a.task = "suite" => Top.task = "suite"
  /\ a.task \in Holders <=> Top.task \in Holders
  /\ Room(a.task) <= Room(Top.task)

\* Any sequence will do.
LEMMA AnyStack ==
  ASSUME NEW S, NEW tasks \in Seq(S)
  PROVE  IsStack(tasks)
  BY DEF IsStack

\* What the parser pushes before others.
LEMMA PushedGoBefore ==
  /\ \A k \in 0 .. 4 : \A n : n \notin Holders \cup {"suite"} /\ k + Room(n) <= Room(Top.task) =>
       Before(k, Task(n))
  /\ \A k \in 0 .. 4 : \A t : k + 1 <= Room(Top.task) =>
       /\ Before(k, Consume(t)) /\ Before(k, Value(t))
       /\ Before(k, Sync(t)) /\ Before(k, Skip(t))
  /\ \A k \in 0 .. 4 : \A n \in {"core", "pipeline", "test"} : \A S :
       k + Room(n) <= Room(Top.task) => Before(k, Items(n, S))
  BY Rooms DEF Before, Loose, Task, Consume, Value, Sync, Skip, Items, Holders

\* A task that holds nothing succeeds one that holds nothing.
LEMMA LooseSucceeds ==
  ASSUME Top.task \notin Holders
  PROVE  \A t : Before(0, t) => Succeeds(t)
  BY RoomIsNat DEF Before, Loose, Succeeds

\* The sequences that the parser pushes.
LEMMA ShortStacksFit ==
  /\ Top.task \notin Holders => Fits(<<>>) /\ Holding(<<>>) = Weight(Top.task)
  /\ \A a : Succeeds(a) =>
       Fits(<<a>>) /\ Holding(<<a>>) = Weight(Top.task)
  /\ \A a, b : Before(1, a) /\ Succeeds(b) =>
       Fits(<<a, b>>) /\ Holding(<<a, b>>) = Weight(Top.task)
  /\ \A a, b, c : Before(2, a) /\ Before(1, b) /\ Succeeds(c) =>
       Fits(<<a, b, c>>) /\ Holding(<<a, b, c>>) = Weight(Top.task)
  /\ \A a, b, c, d : Before(3, a) /\ Before(2, b) /\ Before(1, c) /\ Succeeds(d) =>
       Fits(<<a, b, c, d>>) /\ Holding(<<a, b, c, d>>) = Weight(Top.task)
  /\ \A a, b, c, d, e : Before(4, a) /\ Before(3, b) /\ Before(2, c) /\ Before(1, d) /\ Succeeds(e) =>
       Fits(<<a, b, c, d, e>>) /\ Holding(<<a, b, c, d, e>>) = Weight(Top.task)
  <1> USE RoomIsNat DEF Fits, Holding, Weight, Loose, Before, Succeeds
  <1>1. Top.task \notin Holders => Fits(<<>>) /\ Holding(<<>>) = Weight(Top.task)
    <2>1. <<>> \in Seq({})
      OBVIOUS
    <2>2. IsStack(<<>>)
      BY <2>1, AnyStack
    <2> QED
      BY <2>1, <2>2
  <1>2. ASSUME NEW a,
               Succeeds(a)
        PROVE  Fits(<<a>>) /\ Holding(<<a>>) = Weight(Top.task)
    <2>1. <<a>> \in Seq({a}) /\ Len(<<a>>) = 1
      OBVIOUS
    <2>2. IsStack(<<a>>)
      BY <2>1, AnyStack
    <2> QED
      BY <1>2, <2>1, <2>2
  <1>3. ASSUME NEW a, NEW b,
               Before(1, a), Succeeds(b)
        PROVE  Fits(<<a, b>>) /\ Holding(<<a, b>>) = Weight(Top.task)
    <2>1. <<a, b>> \in Seq({a, b}) /\ Len(<<a, b>>) = 2
      OBVIOUS
    <2>2. IsStack(<<a, b>>)
      BY <2>1, AnyStack
    <2> QED
      BY <1>3, <2>1, <2>2
  <1>4. ASSUME NEW a, NEW b, NEW c,
               Before(2, a), Before(1, b), Succeeds(c)
        PROVE  Fits(<<a, b, c>>) /\ Holding(<<a, b, c>>) = Weight(Top.task)
    <2>1. <<a, b, c>> \in Seq({a, b, c}) /\ Len(<<a, b, c>>) = 3
      OBVIOUS
    <2>2. IsStack(<<a, b, c>>)
      BY <2>1, AnyStack
    <2> QED
      BY <1>4, <2>1, <2>2
  <1>5. ASSUME NEW a, NEW b, NEW c, NEW d,
               Before(3, a), Before(2, b), Before(1, c), Succeeds(d)
        PROVE  Fits(<<a, b, c, d>>) /\ Holding(<<a, b, c, d>>) = Weight(Top.task)
    <2>1. <<a, b, c, d>> \in Seq({a, b, c, d}) /\ Len(<<a, b, c, d>>) = 4
      OBVIOUS
    <2>2. IsStack(<<a, b, c, d>>)
      BY <2>1, AnyStack
    <2> QED
      BY <1>5, <2>1, <2>2
  <1>6. ASSUME NEW a, NEW b, NEW c, NEW d, NEW e,
               Before(4, a), Before(3, b), Before(2, c), Before(1, d), Succeeds(e)
        PROVE  Fits(<<a, b, c, d, e>>) /\ Holding(<<a, b, c, d, e>>) = Weight(Top.task)
    <2>1. <<a, b, c, d, e>> \in Seq({a, b, c, d, e}) /\ Len(<<a, b, c, d, e>>) = 5
      OBVIOUS
    <2>2. IsStack(<<a, b, c, d, e>>)
      BY <2>1, AnyStack
    <2> QED
      BY <1>6, <2>1, <2>2
  <1> HIDE RoomIsNat DEF Fits, Holding, Weight, Loose, Before, Succeeds
  <1> QED
    BY <1>1, <1>2, <1>3, <1>4, <1>5, <1>6

\* Such a step keeps the levels balanced.
LEMMA LevelStep ==
  ASSUME ParserInv, Balanced, stack # <<>>, UNCHANGED depth,
         NEW tasks, Fits(tasks), Holding(tasks) = Weight(Top.task), Then(tasks)
  PROVE  Balanced'
  <1>1. depth' = depth - Weight(Top.task) + Holding(tasks)
    BY DEF ParserInv, Weight
  <1> QED
    BY <1>1, ExchangeBalances DEF Then

\* Entering a level.
LEMMA OpenBalances ==
  ASSUME ParserInv, Balanced, stack # <<>>, Top.task \notin Holders,
         NEW bracket, NEW name \in Holders \ {"exit"}, Open(bracket, name)
  PROVE  Balanced'
  <1>1. CASE depth >= MaxNesting
    <2>1. Then(<<Skip(1)>>) /\ UNCHANGED depth
      BY <1>1 DEF Open
    <2>2. Succeeds(Skip(1))
      BY RoomIsNat, PushedGoBefore, LooseSucceeds
    <2> QED
      BY <2>1, <2>2, ShortStacksFit, LevelStep
  <1>2. CASE ~ (depth >= MaxNesting)
    <2> DEFINE tasks == <<Task(name)>>
    <2>1. stack' = tasks \o Tail(stack) /\ depth' = depth + 1
      BY <1>2 DEF Open, Then
    <2>2. Len(tasks) = 1 /\ tasks \in Seq({Task(name)}) /\ tasks[1].task = name
      BY DEF Task
    <2>3. IsStack(tasks)
      BY <2>2, AnyStack
    <2>4. Holding(tasks) = 1 /\ Weight(Top.task) = 0
      BY <2>2 DEF Holding, Weight
    <2>5. Fits(tasks)
      <3>1. Room(name) = 4
        BY Rooms DEF Holders
      <3>2. \A i \in 1 .. Len(tasks) : i = 1
        BY <2>2
      <3>3. 0 + Room(name) + 3 * 0 <= Room(Top.task) + 3 * 1
        BY <3>1, RoomIsNat
      <3> HIDE DEF tasks
      <3> QED
        BY <2>2, <2>3, <2>4, <3>2, <3>3 DEF Fits, Holders
    <2>6. depth' = depth - Weight(Top.task) + Holding(tasks)
      BY <2>1, <2>4 DEF ParserInv
    <2> QED
      BY <2>1, <2>5, <2>6, ExchangeBalances
  <1> QED
    BY <1>1, <1>2

\* Giving a level back.
LEMMA ExitBalances ==
  ASSUME ParserInv, Balanced, ExitNesting
  PROVE  Balanced'
  <1>1. stack # <<>> /\ Top.task = "exit" /\ stack' = <<>> \o Tail(stack)
    BY DEF ExitNesting, Doing, Then
  <1>2. Fits(<<>>) /\ Holding(<<>>) = 0
    <2>1. <<>> \in Seq({})
      OBVIOUS
    <2>2. IsStack(<<>>)
      BY <2>1, AnyStack
    <2> QED
      BY <2>1, <2>2 DEF Fits, Holding
  <1>3. Weight(Top.task) = 1
    BY <1>1 DEF Weight, Holders
  <1>4. depth # 0
    <2>1. stack \in Seq(TasksAfter(failed))
      BY DEF ParserInv
    <2>2. Len(stack) \in Nat \ {0}
      BY <1>1, <2>1, LenProperties, EmptySeq
    <2>3. PICK levels \in [1 .. Len(stack) + 1 -> Nat] :
            /\ levels[1] = depth
            /\ \A i \in 1 .. Len(stack) : levels[i] = levels[i + 1] + Weight(stack[i].task)
      BY DEF Balanced
    <2>4. depth = levels[1 + 1] + 1 /\ levels[1 + 1] \in Nat
      BY <1>3, <2>2, <2>3 DEF Top
    <2> QED
      BY <2>4
  <1>5. depth' = depth - Weight(Top.task) + Holding(<<>>)
    BY <1>2, <1>3, <1>4 DEF ExitNesting, ParserInv
  <1> QED
    BY <1>1, <1>2, <1>5, ExchangeBalances

\* Going to the exit of a level.
LEMMA CloseBalances ==
  ASSUME ParserInv, Balanced, stack # <<>>, Top.task \in Holders \ {"exit"}, UNCHANGED depth,
         NEW bracket, NEW ends, Close(bracket, ends)
  PROVE  Balanced'
  <1>1. Then(<<Consume(bracket), Task("exit")>>)
    BY DEF Close
  <1>2. Before(1, Consume(bracket)) /\ Succeeds(Task("exit"))
    BY Rooms DEF Before, Loose, Consume, Succeeds, Task, Holders
  <1> QED
    BY <1>1, <1>2, ShortStacksFit, LevelStep

\* Beginning a recovery, and leaving a block.
LEMMA RecoverBalances ==
  ASSUME ParserInv, Balanced, stack # <<>>, UNCHANGED depth, NEW known, Recover(known),
         Top.task \in {"suite", "core", "pipeline", "test", "request", "expect"}
  PROVE  Balanced'
  <1>1. Then(<<Sync(known), Top>>)
    BY DEF Recover
  <1>2. Before(1, Sync(known)) /\ Succeeds(Top)
    BY Rooms DEF Before, Loose, Sync, Succeeds, Holders
  <1> QED
    BY <1>1, <1>2, ShortStacksFit, LevelStep

\* Returning from a function that holds no level.
LEMMA LeaveBalances ==
  ASSUME ParserInv, Balanced, stack # <<>>, Top.task \notin Holders, UNCHANGED depth,
         NEW ends, NEW fails, Leave(ends, fails)
  PROVE  Balanced'
  <1>1. Then(<<Consume("}")>>)
    BY DEF Leave
  <1>2. Before(0, Consume("}"))
    <2>1. 0 + 1 <= Room(Top.task)
      BY RoomIsNat
    <2>2. \A t : Before(0, Consume(t))
      BY <2>1, PushedGoBefore
    <2> QED
      BY <2>2
  <1>3. Succeeds(Consume("}"))
    BY <1>2, LooseSucceeds
  <1> QED
    BY <1>1, <1>3, ShortStacksFit, LevelStep

(***************************************************************************)
(* The steps of the parser, one lemma for each group of functions.         *)
(***************************************************************************)

\* Three or four loose tasks, and one more.
LEMMA LooseLists ==
  /\ \A a, b, c : Before(3, a) /\ Before(2, b) /\ Before(1, c) =>
       \A i \in 1 .. Len(<<a, b, c>>) : Before(Len(<<a, b, c>>) + 1 - i, <<a, b, c>>[i])
  /\ \A a, b, c, d : Before(4, a) /\ Before(3, b) /\ Before(2, c) /\ Before(1, d) =>
       \A i \in 1 .. Len(<<a, b, c, d>>) : Before(Len(<<a, b, c, d>>) + 1 - i, <<a, b, c, d>>[i])
  <1>1. ASSUME NEW a, NEW b, NEW c, Before(3, a), Before(2, b), Before(1, c),
               NEW i \in 1 .. 3
        PROVE  Before(4 - i, <<a, b, c>>[i])
    <2>1. \/ i = 1 /\ 4 - i = 3 /\ <<a, b, c>>[i] = a
          \/ i = 2 /\ 4 - i = 2 /\ <<a, b, c>>[i] = b
          \/ i = 3 /\ 4 - i = 1 /\ <<a, b, c>>[i] = c
      OBVIOUS
    <2> QED
      BY <1>1, <2>1
  <1>2. ASSUME NEW a, NEW b, NEW c, NEW d,
               Before(4, a), Before(3, b), Before(2, c), Before(1, d), NEW i \in 1 .. 4
        PROVE  Before(5 - i, <<a, b, c, d>>[i])
    <2>1. \/ i = 1 /\ 5 - i = 4 /\ <<a, b, c, d>>[i] = a
          \/ i = 2 /\ 5 - i = 3 /\ <<a, b, c, d>>[i] = b
          \/ i = 3 /\ 5 - i = 2 /\ <<a, b, c, d>>[i] = c
          \/ i = 4 /\ 5 - i = 1 /\ <<a, b, c, d>>[i] = d
      OBVIOUS
    <2> QED
      BY <1>2, <2>1
  <1>3. /\ \A a, b, c : Len(<<a, b, c>>) = 3
        /\ \A a, b, c, d : Len(<<a, b, c, d>>) = 4
    OBVIOUS
  <1> QED
    BY <1>1, <1>2, <1>3

\* Loose tasks, and one that takes over after them.
LEMMA AppendFits ==
  ASSUME NEW S, NEW tasks \in Seq(S), NEW t, Succeeds(t),
         \A i \in 1 .. Len(tasks) : Before(Len(tasks) + 1 - i, tasks[i])
  PROVE  Fits(Append(tasks, t)) /\ Holding(Append(tasks, t)) = Weight(Top.task)
  <1> DEFINE all == Append(tasks, t)
             n == Len(tasks)
  <1>1. tasks \in Seq(S \cup {t}) /\ t \in S \cup {t} /\ n \in Nat
    BY SeqMonotonic, LenProperties
  <1>2. /\ all \in Seq(S \cup {t}) /\ Len(all) = n + 1 /\ all[n + 1] = t
        /\ \A i \in 1 .. n : all[i] = tasks[i]
    BY <1>1, AppendProperties
  <1>3. IsStack(all)
    BY <1>2, AnyStack
  <1> HIDE DEF all, n
  <1>4. Holding(all) = Weight(Top.task)
    BY <1>1, <1>2 DEF Holding, Succeeds, Weight
  <1>5. ASSUME NEW i \in 1 .. Len(all)
        PROVE  Len(all) - i + Room(all[i].task) <= Room(Top.task)
    <2>0. i \in Int /\ n \in Nat
      BY <1>1
    <2>1. CASE i <= n
      <3>1. i \in 1 .. n /\ all[i] = tasks[i]
        BY <1>1, <1>2, <2>1
      <3>2. n + 1 - i + Room(tasks[i].task) <= Room(Top.task)
        BY <3>1 DEF Before, n
      <3>3. Room(tasks[i].task) \in Nat /\ Len(all) - i = n + 1 - i
        <4>1. Len(all) - i = n + 1 - i
          BY <1>2, <2>0
        <4> QED
          BY <4>1, RoomIsNat
      <3> QED
        BY <3>1, <3>2, <3>3
    <2>2. CASE i = n + 1
      <3>1. Len(all) - i = 0 /\ all[i] = t
        BY <1>1, <1>2, <2>2
      <3>2. Room(t.task) \in Nat /\ Room(t.task) <= Room(Top.task)
        BY RoomIsNat DEF Succeeds
      <3> QED
        BY <3>1, <3>2
    <2> QED
      BY <1>1, <1>2, <2>1, <2>2
  <1>6. Fits(all)
    <2>1. /\ \A i \in 1 .. Len(all) : all[i].task \in Holders \cup {"suite"} => i = Len(all)
          /\ \A i \in 1 .. Len(all) : all[i].task = "suite" => Top.task = "suite"
      BY <1>1, <1>2 DEF Before, Loose, Succeeds, n
    <2>2. \A i \in 1 .. Len(all) :
            Len(all) - i + Room(all[i].task) + 3 * Weight(Top.task)
              <= Room(Top.task) + 3 * Holding(all)
      <3> SUFFICES ASSUME NEW i \in 1 .. Len(all)
                   PROVE  Len(all) - i + Room(all[i].task) + 3 * Weight(Top.task)
                            <= Room(Top.task) + 3 * Holding(all)
        OBVIOUS
      <3> DEFINE room == Room(all[i].task)
                 top == Room(Top.task)
                 weight == Weight(Top.task)
                 length == Len(all)
      <3>1. /\ room \in Nat /\ top \in Nat /\ weight \in Nat /\ Holding(all) = weight
            /\ length \in Nat /\ i \in Int
        BY <1>1, <1>2, <1>4, RoomIsNat
      <3>2. length - i + room <= top
        BY <1>5
      <3> HIDE DEF room, top, weight, length
      <3>3. length - i + room + 3 * weight <= top + 3 * weight
        BY <3>1, <3>2
      <3> QED
        BY <3>1, <3>3 DEF room, top, weight, length
    <2> QED
      BY <1>3, <2>1, <2>2 DEF Fits
  <1> QED
    BY <1>4, <1>6 DEF all

\* The tasks that a keyword starts.
LEMMA StartFits ==
  ASSUME NEW keyword \in TestBoundary, NEW t, Succeeds(t), Room(keyword) < Room(Top.task)
  PROVE  /\ Fits(Append(Start(keyword), t))
         /\ Holding(Append(Start(keyword), t)) = Weight(Top.task)
  <1>0. /\ Room(keyword) \in 5 .. 8 /\ Room(Top.task) \in Nat
        /\ 1 + Room(keyword) <= Room(Top.task) /\ 6 <= Room(Top.task)
    <2>1. Room(keyword) \in 5 .. 8
      BY Rooms DEF TestBoundary, SuiteBoundary, OuterBlockBoundary
    <2> QED
      BY <2>1, RoomIsNat
  <1>1. /\ keyword \in {"core", "pipeline", "test"} => Before(1, Items(keyword, {}))
        /\ keyword = "request" => Before(3, Task("method"))
        /\ keyword = "request" => Before(1, Task("options"))
        /\ keyword = "expect" => Before(1, Task("expect"))
        /\ \A n : Before(2, Consume(n)) /\ Before(3, Consume(n)) /\ Before(4, Consume(n))
    <2>1. \A n : Before(2, Consume(n)) /\ Before(3, Consume(n)) /\ Before(4, Consume(n))
      BY <1>0, PushedGoBefore
    <2>2. keyword \in {"core", "pipeline", "test"} => Before(1, Items(keyword, {}))
      BY <1>0, PushedGoBefore
    <2>3. Room("method") = 1 /\ Room("options") = Room("request")
      BY Rooms
    <2>4. keyword = "request" => Before(3, Task("method"))
      BY <1>0, <2>3, PushedGoBefore DEF Holders
    <2>5. keyword = "request" => Before(1, Task("options"))
      BY <1>0, <2>3, PushedGoBefore DEF Holders
    <2>6. keyword = "expect" => Before(1, Task("expect"))
      BY <1>0, PushedGoBefore DEF Holders
    <2> QED
      BY <2>1, <2>2, <2>4, <2>5, <2>6
  <1>2. keyword \in {"core", "pipeline", "test", "request", "expect"}
    BY DEF TestBoundary, SuiteBoundary, OuterBlockBoundary
  <1>3. Start(keyword) \in Seq(PlainTasks)
    BY StartIsPlain
  <1> DEFINE Ordered(tasks) ==
               \A i \in 1 .. Len(tasks) : Before(Len(tasks) + 1 - i, tasks[i])
  <1>5. /\ \A a, b, c : Before(3, a) /\ Before(2, b) /\ Before(1, c) => Ordered(<<a, b, c>>)
        /\ \A a, b, c, d : Before(4, a) /\ Before(3, b) /\ Before(2, c) /\ Before(1, d) =>
             Ordered(<<a, b, c, d>>)
    BY LooseLists
  <1> HIDE DEF Ordered
  <1>4. Ordered(Start(keyword))
    <2>1. CASE keyword = "core"
      <3>1. Start(keyword) = <<Consume("core"), Consume("{"), Items("core", {})>>
        BY <2>1 DEF Start
      <3> QED
        BY <1>1, <2>1, <1>5, <3>1
    <2>2. CASE keyword = "pipeline"
      <3>1. Start(keyword) = <<Consume("pipeline"), Consume("string"), Consume("{"),
                                  Items("pipeline", {})>>
        BY <2>2 DEF Start
      <3> QED
        BY <1>1, <2>2, <1>5, <3>1
    <2>3. CASE keyword = "test"
      <3>1. Start(keyword) = <<Consume("test"), Consume("string"), Consume("{"), Items("test", {})>>
        BY <2>3 DEF Start
      <3> QED
        BY <1>1, <2>3, <1>5, <3>1
    <2>4. CASE keyword = "request"
      <3>1. Start(keyword) = <<Consume("request"), Task("method"), Consume("string"), Task("options")>>
        BY <2>4 DEF Start
      <3> QED
        BY <1>1, <2>4, <1>5, <3>1
    <2>5. CASE keyword = "expect"
      <3>1. Start(keyword) = <<Consume("expect"), Consume("{"), Task("expect")>>
        BY <2>5 DEF Start
      <3> QED
        BY <1>1, <2>5, <1>5, <3>1
    <2> QED
      BY <1>2, <2>1, <2>2, <2>3, <2>4, <2>5
  <1> QED
    BY <1>3, <1>4, AppendFits DEF Ordered

\* A function whose task is replaced by loose ones, or by itself after them.
LEMMA ShortStepBalances ==
  ASSUME ParserInv, Balanced, stack # <<>>, UNCHANGED depth
  PROVE  /\ Top.task \notin Holders /\ Then(<<>>) => Balanced'
         /\ \A a :
              Then(<<a>>) /\ Succeeds(a) => Balanced'
         /\ \A a, b :
              Then(<<a, b>>) /\ Before(1, a) /\ Succeeds(b) => Balanced'
         /\ \A a, b, c :
              Then(<<a, b, c>>) /\ Before(2, a) /\ Before(1, b) /\ Succeeds(c) => Balanced'
         /\ \A a, b, c, d :
              Then(<<a, b, c, d>>) /\ Before(3, a) /\ Before(2, b) /\ Before(1, c) /\ Succeeds(d) => Balanced'
         /\ \A a, b, c, d, e :
              Then(<<a, b, c, d, e>>) /\ Before(4, a) /\ Before(3, b) /\ Before(2, c) /\ Before(1, d) /\ Succeeds(e) => Balanced'
  BY ShortStacksFit, LevelStep

\* What may be on top again.
LEMMA TopSucceeds == Succeeds(Top)
  BY RoomIsNat DEF Succeeds

\* Loops over blocks, tests, requests and expectations.
LEMMA LoopsBalance ==
  ASSUME ParserInv, Balanced,
         ParseSuite \/ ParseCoreBlock \/ ParsePipelineBlock \/ ParseTest
  PROVE  Balanced'
  <1>1. stack # <<>> /\ UNCHANGED depth /\ Top.task \in {"suite", "core", "pipeline", "test"}
    BY DEF ParseSuite, ParseCoreBlock, ParsePipelineBlock, ParseTest, ParseBlock, Doing
  <1>2. Top.task \notin Holders
    BY <1>1 DEF Holders
  <1>3. /\ Then(<<>>) => Balanced'
        /\ \A known : Recover(known) => Balanced'
        /\ \A ends, fails : Leave(ends, fails) => Balanced'
    BY <1>1, <1>2, ShortStepBalances, RecoverBalances, LeaveBalances
  <1>4. ASSUME NEW keyword \in TestBoundary, NEW t, Succeeds(t), Then(Append(Start(keyword), t)),
               Room(keyword) < Room(Top.task)
        PROVE  Balanced'
    BY <1>1, <1>4, StartFits, LevelStep
  <1>5. CASE ParseSuite
    <2>1. \A c, b : Succeeds(Suite(c, b))
      BY <1>5, <1>2, RoomIsNat DEF Succeeds, Suite, ParseSuite, Doing, Holders
    <2>2. /\ SuiteBoundary \subseteq TestBoundary
          /\ \A keyword \in SuiteBoundary : Room(keyword) < Room(Top.task)
      BY <1>5, Rooms DEF TestBoundary, SuiteBoundary, OuterBlockBoundary, ParseSuite, Doing
    <2> QED
      BY <1>3, <1>4, <1>5, <2>1, <2>2 DEF ParseSuite
  <1>6. ASSUME NEW kind \in {"core", "pipeline"}, NEW fails, ParseBlock(kind, fails)
        PROVE  Balanced'
    <2>0. Top.task = kind /\ "test" \in TestBoundary
      BY <1>6 DEF ParseBlock, Doing, TestBoundary, SuiteBoundary, OuterBlockBoundary
    <2>1. Room("test") < Room(Top.task)
      BY <2>0, Rooms
    <2>2. Succeeds(Items(kind, {"test"}))
      BY <1>2, <2>0, RoomIsNat, PushedGoBefore, LooseSucceeds
    <2> QED
      BY <1>3, <1>4, <1>6, <2>0, <2>1, <2>2 DEF ParseBlock
  <1>7. CASE ParseTest
    <2>0. Top.task = "test"
      BY <1>7 DEF ParseTest, Doing
    <2>1. \A S : Succeeds(Items("test", S))
      BY <1>2, <2>0, RoomIsNat, PushedGoBefore, LooseSucceeds
    <2>2. /\ {"request", "expect"} \subseteq TestBoundary
          /\ \A keyword \in {"request", "expect"} : Room(keyword) < Room(Top.task)
      BY <2>0, Rooms DEF TestBoundary
    <2> QED
      BY <1>3, <1>4, <1>7, <2>1, <2>2 DEF ParseTest
  <1> QED
    BY <1>5, <1>6, <1>7 DEF ParseCoreBlock, ParsePipelineBlock

\* The functions of a request.
LEMMA RequestsBalance ==
  ASSUME ParserInv, Balanced,
         \/ ParseHttpMethod \/ ParseRequestOptions \/ ParseRequestSections
         \/ ParseRequestHeaders
  PROVE  Balanced'
  <1>1. /\ stack # <<>> /\ UNCHANGED depth
        /\ Top.task \in {"method", "options", "request", "requestHeaders"}
    BY DEF ParseHttpMethod, ParseRequestOptions, ParseRequestSections, ParseRequestHeaders, Doing
  <1>2. Top.task \notin Holders
    BY <1>1 DEF Holders
  <1>3. /\ Top.task = "request" => \A known : Recover(known) => Balanced'
        /\ \A ends, fails : Leave(ends, fails) => Balanced'
    BY <1>1, <1>2, RecoverBalances, LeaveBalances
  <1>4. Succeeds(Top)
    BY TopSucceeds
  <1>5. CASE ParseHttpMethod
    BY <1>1, <1>2, <1>5, ShortStepBalances DEF ParseHttpMethod
  <1>6. CASE ParseRequestOptions
    <2>1. Room(Top.task) = 6
      BY <1>6, Rooms DEF ParseRequestOptions, Doing
    <2>2. Succeeds(Task("request"))
      BY <1>2, <2>1, Rooms, PushedGoBefore, LooseSucceeds DEF Holders
    <2> QED
      BY <1>1, <1>2, <1>6, <2>2, ShortStepBalances DEF ParseRequestOptions
  <1>7. CASE ParseRequestSections
    <2>1. Top.task = "request" /\ Room(Top.task) = 6
      BY <1>7, Rooms DEF ParseRequestSections, Doing
    <2>2. /\ \A t : Before(3, Consume(t)) /\ Before(2, Consume(t))
          /\ Before(1, Task("requestHeaders")) /\ Before(1, Task("objectValue"))
      BY <2>1, Rooms, PushedGoBefore DEF Holders
    <2> QED
      BY <1>1, <1>3, <1>4, <1>7, <2>1, <2>2, ShortStepBalances DEF ParseRequestSections
  <1>8. CASE ParseRequestHeaders
    <2>1. Room(Top.task) = 5
      BY <1>8, Rooms DEF ParseRequestHeaders, Doing
    <2>2. /\ \A t : Before(4, Consume(t)) /\ Before(3, Consume(t)) /\ Before(2, Value(t))
          /\ Before(1, Task("comma"))
      BY <2>1, Rooms, PushedGoBefore DEF Holders
    <2> QED
      BY <1>1, <1>3, <1>4, <1>8, <2>2, ShortStepBalances DEF ParseRequestHeaders
  <1> QED
    BY <1>5, <1>6, <1>7, <1>8

\* The functions of an expectation, but for its fields.
LEMMA ExpectationsBalance ==
  ASSUME ParserInv, Balanced,
         \/ ParseExpectation \/ ParseStatusValue \/ ParseResponseHeaders \/ ParseHeaderTest
         \/ ParseBodyAssertion
  PROVE  Balanced'
  <1>1. /\ stack # <<>> /\ UNCHANGED depth
        /\ Top.task \in {"expect", "statusValue", "responseHeaders", "headerTest",
                         "bodyAssertion"}
    BY DEF ParseExpectation, ParseStatusValue, ParseResponseHeaders, ParseHeaderTest,
           ParseBodyAssertion, Doing
  <1>2. Top.task \notin Holders
    BY <1>1 DEF Holders
  <1>3. /\ Top.task = "expect" => \A known : Recover(known) => Balanced'
        /\ \A ends, fails : Leave(ends, fails) => Balanced'
    BY <1>1, <1>2, RecoverBalances, LeaveBalances
  <1>4. Succeeds(Top)
    BY TopSucceeds
  <1>5. CASE ParseExpectation
    <2>0. Top.task = "expect" /\ Room(Top.task) = 5
      BY <1>5, Rooms DEF ParseExpectation, Doing
    <2>1. \/ Then(<<Consume("status"), Consume("="), Task("statusValue"), Task("comma"), Top>>)
          \/ Then(<<Consume("headers"), Consume("{"), Task("responseHeaders"), Top>>)
          \/ Then(<<Consume("body"), Task("bodyAssertion"), Top>>)
          \/ \E known : Recover(known)
          \/ \E ends : Leave(ends, FALSE)
      BY <1>5 DEF ParseExpectation
    <2>2. /\ \A t : Before(4, Consume(t)) /\ Before(3, Consume(t)) /\ Before(2, Consume(t))
          /\ Before(2, Task("statusValue")) /\ Before(1, Task("comma"))
          /\ Before(1, Task("responseHeaders")) /\ Before(1, Task("bodyAssertion"))
      BY <2>0, Rooms, PushedGoBefore DEF Holders
    <2>3. CASE Then(<<Consume("status"), Consume("="), Task("statusValue"), Task("comma"), Top>>)
      BY <1>1, <1>4, <2>2, <2>3, ShortStepBalances
    <2>4. CASE Then(<<Consume("headers"), Consume("{"), Task("responseHeaders"), Top>>)
      BY <1>1, <1>4, <2>2, <2>4, ShortStepBalances
    <2>5. CASE Then(<<Consume("body"), Task("bodyAssertion"), Top>>)
      BY <1>1, <1>4, <2>2, <2>5, ShortStepBalances
    <2> QED
      BY <1>3, <2>0, <2>1, <2>3, <2>4, <2>5
  <1>6. CASE ParseStatusValue
    BY <1>1, <1>2, <1>6, ShortStepBalances DEF ParseStatusValue
  <1>7. CASE ParseResponseHeaders
    <2>1. Room(Top.task) = 4
      BY <1>7, Rooms DEF ParseResponseHeaders, Doing
    <2>2. /\ Before(3, Consume("string")) /\ Before(2, Task("headerTest"))
          /\ Before(1, Task("comma"))
      BY <2>1, Rooms, PushedGoBefore DEF Holders
    <2> QED
      BY <1>1, <1>3, <1>4, <1>7, <2>2, ShortStepBalances DEF ParseResponseHeaders
  <1>8. CASE ParseHeaderTest \/ ParseBodyAssertion
    <2>1. \/ Then(<<Consume("tstring")>>) \/ Then(<<Consume("string")>>)
          \/ Then(<<Sync(ExpectationEntryStops)>>)
          \/ Then(<<Task("comma")>>)
          \/ Top.task = "bodyAssertion" /\ Then(<<Consume("string"), Task("comma")>>)
          \/ Then(<<Task("objectAssertion")>>)
      BY <1>8 DEF ParseHeaderTest, ParseBodyAssertion, Doing
    <2>2. /\ Succeeds(Task("comma")) /\ Succeeds(Task("objectAssertion"))
          /\ \A t : Succeeds(Consume(t)) /\ Succeeds(Sync(t))
          /\ Top.task = "bodyAssertion" => Before(1, Consume("string"))
      BY <1>2, Rooms, RoomIsNat, PushedGoBefore, LooseSucceeds DEF Holders
    <2> QED
      BY <1>1, <2>1, <2>2, ShortStepBalances
  <1> QED
    BY <1>5, <1>6, <1>7, <1>8

\* The parts of a field.
LEMMA FieldPartsBalance ==
  ASSUME ParserInv, Balanced,
         \/ ParseFieldType \/ ParseAssertionType \/ ParseComparison \/ ParseCapture
         \/ ParseCaptureName
  PROVE  Balanced'
  <1>1. /\ stack # <<>> /\ UNCHANGED depth
        /\ Top.task \in {"fieldType", "assertionType", "comparison", "capture", "captureName"}
    BY DEF ParseFieldType, ParseAssertionType, ParseComparison, ParseCapture, ParseCaptureName,
           Doing
  <1>2. Top.task \notin Holders
    BY <1>1 DEF Holders
  <1>3. /\ Succeeds(Task("captureName"))
        /\ Top.task = "fieldType" => Succeeds(Task("assertionType"))
        /\ Top.task = "comparison" => \A t : Before(1, Value(t))
        /\ Top.task = "comparison" => Before(1, Task("objectAssertion"))
    BY <1>2, Rooms, RoomIsNat, PushedGoBefore, LooseSucceeds DEF Holders
  <1> DEFINE untyped == FieldEnd("comparison", "none", FALSE)
             typed == FieldEnd("comparison", look, FALSE)
             compared == FieldEnd("capture", Top.type, TRUE)
             present == FieldEnd("capture", Top.type, FALSE)
  <1>4. /\ Top.task \in {"fieldType", "assertionType"} => Succeeds(untyped) /\ Succeeds(typed)
        /\ Succeeds(compared) /\ Succeeds(present)
    BY <1>2, Rooms, RoomIsNat DEF Succeeds, FieldEnd, Holders
  <1>5. CASE ParseFieldType \/ ParseAssertionType
    <2>1. /\ Top.task \in {"fieldType", "assertionType"}
          /\ \/ Top.task = "fieldType" /\ Then(<<Task("assertionType")>>)
             \/ Then(<<untyped>>) \/ Then(<<typed>>)
      BY <1>5 DEF ParseFieldType, ParseAssertionType, Doing
    <2> HIDE DEF untyped, typed
    <2> QED
      BY <1>1, <1>3, <1>4, <2>1, ShortStepBalances
  <1>6. CASE ParseComparison
    <2>1. /\ Top.task = "comparison"
          /\ \/ Then(<<Value(Tokens), compared>>) \/ Then(<<present>>)
             \/ Then(<<Task("objectAssertion"), compared>>)
      BY <1>6 DEF ParseComparison, Doing
    <2> HIDE DEF compared, present
    <2> QED
      BY <1>1, <1>3, <1>4, <2>1, ShortStepBalances
  <1>7. CASE ParseCapture \/ ParseCaptureName
    BY <1>1, <1>2, <1>3, <1>7, ShortStepBalances DEF ParseCapture, ParseCaptureName
  <1> QED
    BY <1>5, <1>6, <1>7

\* Containers hold their level until they are closed.
LEMMA ContainersBalance ==
  ASSUME ParserInv, Balanced, ParseObjectEntries \/ ParseArray \/ ParseFields
  PROVE  Balanced'
  <1>1. /\ stack # <<>> /\ UNCHANGED depth
        /\ Top.task \in Holders \ {"exit"}
    BY DEF ParseObjectEntries, ParseArray, ParseFields, Doing, Holders
  <1>2. \A bracket, ends : Close(bracket, ends) => Balanced'
    BY <1>1, CloseBalances
  <1>3. Room(Top.task) = 4 /\ Succeeds(Top)
    BY <1>1, Rooms, TopSucceeds DEF Holders
  <1>4. /\ Before(1, Task("comma")) /\ Before(1, Task("arraySeparator"))
        /\ Before(2, Task("fieldType"))
        /\ \A t : Before(3, Consume(t)) /\ Before(2, Value(t)) /\ Before(2, Sync(t))
    BY <1>3, Rooms, PushedGoBefore DEF Holders
  <1> QED
    BY <1>1, <1>2, <1>3, <1>4, ShortStepBalances DEF ParseObjectEntries, ParseArray, ParseFields

\* Where a container may begin.
LEMMA ValuesBalance ==
  ASSUME ParserInv, Balanced,
         ParseValue \/ ParseObjectValue \/ ParseObjectAssertion \/ ParseArraySeparator
  PROVE  Balanced'
  <1>1. /\ stack # <<>>
        /\ Top.task \in {"value", "objectValue", "objectAssertion", "arraySeparator"}
    BY DEF ParseValue, ParseObjectValue, ParseObjectAssertion, ParseArraySeparator, Doing
  <1>2. Top.task \notin Holders
    BY <1>1 DEF Holders
  <1>3. \A bracket : \A n \in {"array", "object", "fields"} : Open(bracket, n) => Balanced'
    BY <1>1, <1>2, OpenBalances DEF Holders
  <1>4. /\ Succeeds(Task("comma"))
        /\ \A t : Succeeds(Sync(t))
        /\ Top.task = "arraySeparator" => \A t : Before(1, Sync(t))
    BY <1>2, Rooms, RoomIsNat, PushedGoBefore, LooseSucceeds DEF Holders
  <1>5. CASE ParseValue
    BY <1>1, <1>2, <1>3, <1>4, <1>5, ShortStepBalances DEF ParseValue
  <1>6. CASE ParseObjectValue \/ ParseObjectAssertion
    BY <1>1, <1>2, <1>3, <1>6, ShortStepBalances
       DEF ParseObjectValue, ParseObjectAssertion, OpenBraces
  <1>7. CASE ParseArraySeparator
    BY <1>1, <1>2, <1>4, <1>7, ShortStepBalances DEF ParseArraySeparator, Doing
  <1> QED
    BY <1>5, <1>6, <1>7

\* Single tokens, and what is discarded.
LEMMA TokensBalance ==
  ASSUME ParserInv, Balanced,
         ParseConsume \/ ParseComma \/ Synchronize \/ SkipBalancedContainer
  PROVE  Balanced'
  <1>1. /\ stack # <<>> /\ UNCHANGED depth
        /\ Top.task \in {"consume", "comma", "sync", "skip"}
    BY DEF ParseConsume, ParseComma, Synchronize, SkipBalancedContainer, Doing
  <1>2. Top.task \notin Holders
    BY <1>1 DEF Holders
  <1>3. \A n : Succeeds(Skip(n))
    BY <1>2, RoomIsNat, PushedGoBefore, LooseSucceeds
  <1>4. CASE stack' = stack
    BY <1>1, <1>4 DEF Balanced
  <1> QED
    BY <1>1, <1>2, <1>3, <1>4, ShortStepBalances
       DEF ParseConsume, ParseComma, Synchronize, SkipBalancedContainer

\* Every step of the parser keeps the levels balanced.
LEMMA NextBalanced == ParserInv /\ Balanced /\ [ParserNext]_parserVars => Balanced'
  <1>1. ParserInv /\ Balanced /\ UNCHANGED parserVars => Balanced'
    BY DEF parserVars, Balanced
  <1> QED
    BY <1>1, LoopsBalance, RequestsBalance, ExpectationsBalance, FieldPartsBalance,
       ContainersBalance, ValuesBalance, TokensBalance, ExitBalances DEF ParserNext

\* Between two blocks no level is held.
LEMMA BalancedReleases == ParserInv /\ Balanced => NestingIsReleased
  <1> SUFFICES ASSUME ParserInv, Balanced, stack # <<>>, Top.task = "suite"
               PROVE  depth = 0
    BY DEF NestingIsReleased
  <1>1. Len(stack) = 1
    <2>1. stack \in Seq(TasksAfter(failed))
      BY DEF ParserInv
    <2>2. 1 \in 1 .. Len(stack)
      BY <2>1, EmptySeq, LenProperties
    <2> QED
      BY <2>2 DEF Balanced, Top
  <1>2. Weight(Top.task) = 0
    BY DEF Weight, Holders
  <1> QED
    BY <1>1, <1>2 DEF Balanced, Top

\* At first no level is held.
LEMMA FirstIsBalanced == ParserInit => Balanced
<1> SUFFICES ASSUME ParserInit
             PROVE  Balanced
  OBVIOUS
<1>1. Len(stack) = 1 /\ stack[1].task = "suite" /\ depth = 0
  BY DEF ParserInit, Suite
<1> DEFINE levels == [i \in 1 .. 2 |-> 0]
<1>2. /\ levels \in [1 .. Len(stack) + 1 -> Nat]
      /\ levels[1] = depth /\ levels[Len(stack) + 1] = 0
  BY <1>1
<1>3. levels[1] = levels[1 + 1] + Weight(stack[1].task)
  BY <1>1 DEF Weight, Holders
<1>4. Len(stack) - 1 + Room(stack[1].task) <= 9 + 3 * levels[1]
  BY <1>1, Rooms
<1> HIDE DEF levels
<1> QED
  BY <1>1, <1>2, <1>3, <1>4 DEF Balanced

\* The pending tasks find room.
LEMMA BalancedIsBounded == ParserInv /\ Balanced => Len(stack) <= 9 + 3 * MaxNesting
<1> SUFFICES ASSUME ParserInv, Balanced
             PROVE  Len(stack) <= 9 + 3 * MaxNesting
  OBVIOUS
<1>1. Len(stack) \in Nat /\ depth \in 0 .. MaxNesting /\ MaxNesting \in Nat
  BY LimitsAssumption, LenProperties DEF ParserInv
<1>2. CASE Len(stack) = 0
  BY <1>1, <1>2
<1>3. CASE Len(stack) # 0
  <2>1. PICK levels \in [1 .. Len(stack) + 1 -> Nat] :
          /\ levels[1] = depth
          /\ \A i \in 1 .. Len(stack) : Len(stack) - i + Room(stack[i].task) <= 9 + 3 * levels[i]
    BY DEF Balanced
  <2>2. 1 \in 1 .. Len(stack)
    BY <1>1, <1>3
  <2>3. Len(stack) - 1 + Room(stack[1].task) <= 9 + 3 * depth
    BY <2>1, <2>2
  <2>4. Room(stack[1].task) \in Nat /\ 1 <= Room(stack[1].task)
    BY RoomIsNat
  <2> QED
    BY <1>1, <2>3, <2>4
<1> QED
  BY <1>2, <1>3

\* For any nesting limit and any text: on every path out of a container,
\* after errors too, its level is given back, so that each block of a suite
\* begins with the whole limit (enter_nesting and exit_nesting).
THEOREM NestingIsBalanced == ParserSpec => []NestingIsReleased
  BY FirstIsBalanced, NextBalanced, BalancedReleases, ParserInvariance, PTL DEF ParserSpec

\* What a step may do with a token.
TakenKnown == taken \in {"none", "used", "discarded"}

\* It does nothing else.
LEMMA TakenStaysKnown == TakenKnown /\ [ParserNext]_parserVars => TakenKnown'
<1> SUFFICES ASSUME TakenKnown, [ParserNext]_parserVars
             PROVE  taken' \in {"none", "used", "discarded"}
  BY DEF TakenKnown
<1>1. /\ \A fails : Keep(fails) => taken' = "none"
      /\ \A how, fails : Bump(how, fails) => taken' \in {"none", how}
  BY DEF Keep, Bump
<1>2. /\ \A known : Recover(known) => taken' \in {"none", "discarded"}
      /\ \A ends, fails : Leave(ends, fails) => taken' = "none"
      /\ \A bracket, name : Open(bracket, name) => taken' \in {"none", "used"}
      /\ \A bracket, ends : Close(bracket, ends) => taken' = "none"
      /\ DiscardTerminal => taken' \in {"none", "discarded"}
      /\ Use => taken' \in {"none", "used"}
  BY <1>1 DEF Recover, Leave, Open, Close, DiscardTerminal, Use
<1>3. UNCHANGED parserVars => taken' = taken
  BY DEF parserVars
<1>4. ParseSuite \/ ParseCoreBlock \/ ParsePipelineBlock \/ ParseTest
        => taken' \in {"none", "used", "discarded"}
  BY <1>1, <1>2 DEF ParseSuite, ParseCoreBlock, ParsePipelineBlock, ParseBlock, ParseTest
<1>5. \/ ParseHttpMethod \/ ParseRequestOptions \/ ParseRequestSections \/ ParseRequestHeaders
        => taken' \in {"none", "used", "discarded"}
  BY <1>1, <1>2
     DEF ParseHttpMethod, ParseRequestOptions, ParseRequestSections, ParseRequestHeaders
<1>6. ParseExpectation \/ ParseStatusValue \/ ParseResponseHeaders
        => taken' \in {"none", "used", "discarded"}
  BY <1>1, <1>2 DEF ParseExpectation, ParseStatusValue, ParseResponseHeaders
<1>7. ParseHeaderTest \/ ParseBodyAssertion \/ ParseObjectAssertion \/ ParseFields
        => taken' \in {"none", "used", "discarded"}
  BY <1>1, <1>2
     DEF ParseHeaderTest, ParseBodyAssertion, ParseObjectAssertion, OpenBraces, ParseFields
<1>8. ParseFieldType \/ ParseAssertionType \/ ParseComparison \/ ParseCapture \/ ParseCaptureName
        => taken' \in {"none", "used", "discarded"}
  BY <1>1, <1>2
     DEF ParseFieldType, ParseAssertionType, ParseComparison, ParseCapture, ParseCaptureName
<1>9. ParseValue \/ ParseObjectValue \/ ParseObjectEntries \/ ParseArray \/ ParseArraySeparator
        => taken' \in {"none", "used", "discarded"}
  BY <1>1, <1>2
     DEF ParseValue, ParseObjectValue, OpenBraces, ParseObjectEntries, ParseArray,
         ParseArraySeparator
<1>10. ParseConsume \/ ParseComma \/ Synchronize \/ ExitNesting \/ SkipBalancedContainer
        => taken' \in {"none", "used", "discarded"}
  BY <1>1, <1>2
     DEF ParseConsume, ParseComma, Synchronize, ExitNesting, SkipBalancedContainer
<1> QED
  BY <1>3, <1>4, <1>5, <1>6, <1>7, <1>8, <1>9, <1>10 DEF ParserNext, TakenKnown

\* For any nesting limit and any text, however malformed: recursion is
\* bounded.  Containers never nest deeper than the limit, each of them adds at
\* most three pending tasks, and blocks, tests and sections at most nine
\* (enter_nesting and the functions that call each other below it).
THEOREM RecursionIsBounded == ParserSpec => []ParserTypeOK
<1>1. ParserInit => TakenKnown
  BY DEF ParserInit, TakenKnown
<1>2. ParserInv /\ Balanced /\ TakenKnown => ParserTypeOK
  BY BalancedIsBounded DEF ParserTypeOK, ParserInv, TakenKnown
<1> QED
  BY <1>1, <1>2, FirstIsBalanced, NextBalanced, TakenStaysKnown, ParserInvariance, PTL
     DEF ParserSpec

(***************************************************************************)
(* What is accepted.  Before the first error, each pending task begins in  *)
(* an outline and leads to the one that the next task begins in; the first *)
(* is the outline of the tokens that were used, the last that of a suite.  *)
(* The brace of a request may be left out: "either" stands for a keyword   *)
(* "request" that waits for its brace, or none.                            *)
(***************************************************************************)
Brackets == {"{", "[", "}", "]"}
Blocks ==
  {b \in [kind : TestBoundary \cup {"suite", "{", "["}, seen : SUBSET TestBoundary] :
     b.seen \subseteq MayContain(b.kind)}
Outlines == [blocks : Seq(Blocks) \ {<<>>}, keyword : TestBoundary \cup {"none", "either"}]

Agrees(o, p) ==
  \/ o = p /\ o.keyword # "either"
  \/ p.keyword = "either" /\ \E k \in {"none", "request"} : o = Outline(p.blocks, k)

Entered(o, keyword) ==
  Outline(Append(Outer(o), [kind |-> Innermost(o).kind, seen |-> Innermost(o).seen \cup {keyword}]),
          keyword)
Opened(o, kind) == Outline(Append(o.blocks, [kind |-> kind, seen |-> {}]), "none")
Closed(o) == Outline(Outer(o), "none")

\* The outline after the block of a keyword.
After(o, keyword) ==
  Outline(Entered(o, keyword).blocks, IF keyword = "request" THEN "either" ELSE "none")

Loops == {"core", "pipeline", "test", "request", "requestHeaders", "expect",
          "responseHeaders", "fields", "object", "array"}
Idlers == (Names \ (Loops \cup {"method", "options"})) \cup {"value", "comparison", "capture"}

\* The kind of the block that a loop reads.
Inside(loop) ==
  CASE loop \in {"requestHeaders", "responseHeaders", "fields", "object"} -> "{"
    [] loop = "array" -> "["
    [] OTHER -> loop

Accepts(t, o) ==
  /\ t.task = "consume" => o.keyword # "either"
  /\ t.task \in Loops => Innermost(o).kind = Inside(t.task)
  /\ t.task \in {"core", "pipeline", "test"} => Innermost(o).seen = t.seen
  /\ t.task = "suite" => /\ Len(o.blocks) = 1 /\ Innermost(o).kind = "suite"
                         /\ "core" \in Innermost(o).seen => t.hasCore
                         /\ t.hasBlocks => Innermost(o).seen # {}
  /\ t.task \in {"method", "options"} => o.keyword = "request"
  /\ t.task \in Idlers \cup (Loops \ {"test"}) \cup {"suite"} => o.keyword = "none"
  /\ t.task = "test" => o.keyword \in {"none", "either"}

Result(t, o) ==
  CASE t.task = "consume" -> Read(o, t.token)
    [] t.task \in Loops -> Closed(o)
    [] OTHER -> o

Leads(t, o, p) ==
  /\ Accepts(t, o)
  /\ t.task = "options" => p = Outline(o.blocks, "either")
  /\ t.task \notin {"options", "suite"} => Agrees(Result(t, o), p)

Path(tasks, o, p) ==
  \E via \in [1 .. Len(tasks) + 1 -> Outlines] :
    /\ via[1] = o /\ via[Len(tasks) + 1] = p
    /\ \A i \in 1 .. Len(tasks) : Leads(tasks[i], via[i], via[i + 1])

IsEnd(o) == Len(o.blocks) = 1 /\ o.blocks[1].seen # {}

Traced ==
  ~ failed => \E o, p \in Outlines : Agrees(outline, o) /\ Path(stack, o, p) /\ IsEnd(p)

\* The parts of an outline.
LEMMA OutlineParts ==
  ASSUME NEW o \in Outlines
  PROVE  /\ o.blocks \in Seq(Blocks) /\ o.blocks # <<>>
         /\ o.keyword \in TestBoundary \cup {"none", "either"}
         /\ o = Outline(o.blocks, o.keyword)
         /\ Len(o.blocks) \in Nat \ {0}
         /\ Innermost(o) \in Blocks /\ Outer(o) \in Seq(Blocks)
         /\ o # Malformed
<1>1. /\ o.blocks \in Seq(Blocks) /\ o.blocks # <<>>
      /\ o.keyword \in TestBoundary \cup {"none", "either"}
      /\ o = Outline(o.blocks, o.keyword)
  BY DEF Outlines, Outline
<1> DEFINE blocks == o.blocks
           n == Len(blocks)
<1>2. n \in Nat \ {0}
  BY <1>1, EmptySeq, LenProperties
<1>3. \A i \in 1 .. n : blocks[i] \in Blocks
  BY <1>1, ElementOfSeq
<1>4. Innermost(o) \in Blocks
  BY <1>2, <1>3 DEF Innermost
<1>5. Outer(o) \in Seq(Blocks)
  <2>1. \A i \in 1 .. n - 1 : blocks[i] \in Blocks
    BY <1>2, <1>3
  <2>2. 1 \in Int /\ n - 1 \in Int
    BY <1>2
  <2>3. SubSeq(blocks, 1, n - 1) \in Seq(Blocks)
    BY <2>1, <2>2, SubSeqProperties
  <2> QED
    BY <2>3 DEF Outer
<1>6. o # Malformed
  BY <1>1 DEF Malformed, Outline
<1> QED
  BY <1>1, <1>2, <1>4, <1>5, <1>6

\* The innermost block of an outline is the one that was added last.
LEMMA AddedIsInnermost ==
  ASSUME NEW s \in Seq(Blocks), NEW b \in Blocks,
         NEW k \in TestBoundary \cup {"none", "either"}
  PROVE  LET o == Outline(Append(s, b), k) IN
         /\ o \in Outlines /\ o.keyword = k /\ o.blocks = Append(s, b)
         /\ Innermost(o) = b /\ Outer(o) = s
         /\ Len(o.blocks) = Len(s) + 1
<1> DEFINE long == Append(s, b)
           n == Len(s)
<1>1. /\ long \in Seq(Blocks) /\ Len(long) = n + 1 /\ long[n + 1] = b
      /\ \A i \in 1 .. n : long[i] = s[i]
      /\ n \in Nat
  BY AppendProperties, LenProperties
<1>2. long # <<>>
  BY <1>1, EmptySeq
<1>3. SubSeq(long, 1, Len(long) - 1) = s
  <2>1. \A i \in 1 .. n : long[i] \in Blocks
    BY <1>1, ElementOfSeq
  <2>2. 1 \in Int /\ n \in Int /\ Len(long) - 1 = n
    BY <1>1
  <2> DEFINE short == SubSeq(long, 1, n)
  <2>3. /\ short \in Seq(Blocks) /\ Len(short) = IF 1 <= n THEN n - 1 + 1 ELSE 0
        /\ \A i \in 1 .. n : short[i] = long[i]
    BY <1>1, <2>1, <2>2, SubSeqProperties
  <2>4. Len(short) = n
    <3> HIDE DEF short, long, n
    <3> QED
      BY <1>1, <2>3
  <2>5. \A i \in 1 .. Len(short) : short[i] = s[i]
    BY <1>1, <2>3, <2>4
  <2> HIDE DEF short
  <2>6. short = s
    BY <2>3, <2>4, <2>5, SeqEqual
  <2> QED
    BY <2>2, <2>6 DEF short
<1> HIDE DEF long, n
<1> QED
  BY <1>1, <1>2, <1>3 DEF Outlines, Outline, Innermost, Outer, long, n

\* Agreeing outlines have the same blocks, and one of them is as good as any.
LEMMA AgreeingOutlines ==
  ASSUME NEW o, NEW p \in Outlines, Agrees(o, p)
  PROVE  /\ o \in Outlines /\ o.blocks = p.blocks
         /\ Innermost(o) = Innermost(p) /\ Outer(o) = Outer(p) /\ Closed(o) = Closed(p)
         /\ p.keyword # "either" => o = p
         /\ p.keyword = "either" => o.keyword \in {"none", "request"}
<1>1. /\ o \in Outlines /\ o.blocks = p.blocks
      /\ p.keyword # "either" => o = p
      /\ p.keyword = "either" => o.keyword \in {"none", "request"}
  BY DEF Agrees, Outlines, Outline, TestBoundary
<1> QED
  BY <1>1 DEF Innermost, Outer, Closed

\* What the tokens do to an outline.
LEMMA QuietToken ==
  ASSUME NEW o \in Outlines, NEW token, token \notin TestBoundary \cup Brackets
  PROVE  Read(o, token) = o
BY OutlineParts DEF Read, Brackets

\* A block in which one more keyword has been seen.
LEMMA BlockWithMore ==
  ASSUME NEW b \in Blocks, NEW keyword
  PROVE  [b EXCEPT !.seen = @ \cup {keyword}]
           = [kind |-> b.kind, seen |-> b.seen \cup {keyword}]
<1> DEFINE more == b.seen \cup {keyword}
<1>1. b = [kind |-> b.kind, seen |-> b.seen]
  BY DEF Blocks
<1> HIDE DEF more
<1>2. [b EXCEPT !.seen = more] = [kind |-> b.kind, seen |-> more]
  BY <1>1
<1> QED
  BY <1>2 DEF more

\* A keyword where it may stand.
LEMMA KeywordToken ==
  ASSUME NEW o \in Outlines, NEW keyword \in TestBoundary,
         keyword \in MayContain(Innermost(o).kind), ~ Misplaced(keyword, Innermost(o))
  PROVE  /\ Read(o, keyword) = Entered(o, keyword)
         /\ Entered(o, keyword) \in Outlines
         /\ Entered(o, keyword).keyword = keyword
         /\ Innermost(Entered(o, keyword))
              = [kind |-> Innermost(o).kind, seen |-> Innermost(o).seen \cup {keyword}]
         /\ Outer(Entered(o, keyword)) = Outer(o)
         /\ Len(Entered(o, keyword).blocks) = Len(o.blocks)
<1> DEFINE b == [kind |-> Innermost(o).kind, seen |-> Innermost(o).seen \cup {keyword}]
<1>1. Innermost(o) \in Blocks /\ Outer(o) \in Seq(Blocks) /\ o # Malformed
      /\ o.blocks \in Seq(Blocks) /\ Len(o.blocks) \in Nat \ {0}
  BY OutlineParts
<1>2. b \in Blocks
  BY <1>1 DEF Blocks
<1>3. [Innermost(o) EXCEPT !.seen = @ \cup {keyword}] = b
  BY <1>1, BlockWithMore
<1>4. Read(o, keyword) = ReadKeyword(o, keyword)
  BY <1>1 DEF Read, TestBoundary, SuiteBoundary, OuterBlockBoundary
<1>5. ReadKeyword(o, keyword) = Entered(o, keyword)
  BY <1>3 DEF ReadKeyword, Entered
<1>6. Len(Outer(o)) + 1 = Len(o.blocks)
  <2> DEFINE blocks == o.blocks
             n == Len(blocks)
             short == SubSeq(blocks, 1, n - 1)
  <2>1. n \in Nat \ {0} /\ \A i \in 1 .. n - 1 : blocks[i] \in Blocks
    BY <1>1, ElementOfSeq
  <2>2. Len(short) = IF 1 <= n - 1 THEN n - 1 - 1 + 1 ELSE 0
    <3>1. 1 \in Int /\ n - 1 \in Int
      BY <2>1
    <3> QED
      BY <2>1, <3>1, SubSeqProperties
  <2>3. Len(short) + 1 = n
    <3> HIDE DEF short, n
    <3> QED
      BY <2>1, <2>2
  <2> QED
    BY <2>3 DEF Outer
<1> HIDE DEF b
<1>7. /\ Entered(o, keyword) \in Outlines /\ Entered(o, keyword).keyword = keyword
      /\ Innermost(Entered(o, keyword)) = b /\ Outer(Entered(o, keyword)) = Outer(o)
      /\ Len(Entered(o, keyword).blocks) = Len(Outer(o)) + 1
  BY <1>1, <1>2, AddedIsInnermost DEF Entered, b
<1> QED
  BY <1>4, <1>5, <1>6, <1>7 DEF b

\* A bracket that opens a block of its own, or that of the keyword before it.
LEMMA OpeningToken ==
  ASSUME NEW o \in Outlines, NEW bracket \in {"{", "["}, o.keyword # "either"
  PROVE  LET kind == IF o.keyword = "none" THEN bracket ELSE o.keyword IN
         /\ Read(o, bracket) = Opened(o, kind)
         /\ Opened(o, kind) \in Outlines
         /\ Opened(o, kind).keyword = "none"
         /\ Innermost(Opened(o, kind)).kind = kind
         /\ Innermost(Opened(o, kind)).seen = {}
         /\ Closed(Opened(o, kind)) = Outline(o.blocks, "none")
<1> DEFINE kind == IF o.keyword = "none" THEN bracket ELSE o.keyword
           b == [kind |-> kind, seen |-> {}]
<1>1. /\ o.blocks \in Seq(Blocks) /\ o # Malformed
      /\ o.keyword \in TestBoundary \cup {"none", "either"}
  BY OutlineParts
<1>2. b \in Blocks
  BY <1>1 DEF Blocks
<1>3. bracket \notin TestBoundary
  BY DEF TestBoundary, SuiteBoundary, OuterBlockBoundary
<1>4. Read(o, bracket) = Opened(o, kind)
  BY <1>1, <1>3 DEF Read, ReadOpening, Opened
<1>5. Opened(o, kind) = Outline(Append(o.blocks, b), "none")
  BY DEF Opened
<1> HIDE DEF kind, b
<1>6. /\ Opened(o, kind) \in Outlines /\ Opened(o, kind).keyword = "none"
      /\ Innermost(Opened(o, kind)) = b /\ Outer(Opened(o, kind)) = o.blocks
  <2> DEFINE blocks == o.blocks
             none == "none"
             wide == Outline(Append(blocks, b), none)
  <2>1. blocks \in Seq(Blocks) /\ none \in TestBoundary \cup {"none", "either"}
    BY <1>1
  <2> HIDE DEF blocks, none
  <2>2. /\ wide \in Outlines /\ wide.keyword = none
        /\ Innermost(wide) = b /\ Outer(wide) = blocks
    BY <1>2, <2>1, AddedIsInnermost
  <2>3. Opened(o, kind) = wide
    BY <1>5 DEF blocks, none
  <2> HIDE DEF wide
  <2> QED
    BY <2>2, <2>3 DEF blocks, none
<1>7. Closed(Opened(o, kind)) = Outline(o.blocks, "none")
  BY <1>6 DEF Closed
<1>8. b.kind = kind /\ b.seen = {}
  BY DEF b
<1> QED
  BY <1>4, <1>6, <1>7, <1>8 DEF kind

\* A bracket that closes a block with everything that must be in it.
LEMMA ClosingToken ==
  ASSUME NEW o \in Outlines, NEW bracket \in {"}", "]"},
         Innermost(o).kind = "[" <=> bracket = "]",
         MustContain(Innermost(o).kind) \subseteq Innermost(o).seen
  PROVE  Read(o, bracket) = Closed(o)
<1>1. bracket \notin TestBoundary \cup {"{", "["}
  BY DEF TestBoundary, SuiteBoundary, OuterBlockBoundary
<1>2. o # Malformed
  BY OutlineParts
<1> QED
  BY <1>1, <1>2 DEF Read, ReadClosing, Closed

(***************************************************************************)
(* Paths.                                                                  *)
(***************************************************************************)

\* No task, no way.
LEMMA EmptyPath ==
  ASSUME NEW o \in Outlines, NEW p
  PROVE  Path(<<>>, o, p) <=> o = p
<1>1. Len(<<>>) = 0
  OBVIOUS
<1>2. ASSUME o = p
      PROVE  Path(<<>>, o, p)
  <2> DEFINE via == [i \in 1 .. 1 |-> o]
  <2>1. via \in [1 .. 0 + 1 -> Outlines] /\ via[1] = o /\ via[0 + 1] = p
    BY <1>2
  <2> HIDE DEF via
  <2> QED
    BY <1>1, <2>1 DEF Path
<1>3. ASSUME Path(<<>>, o, p)
      PROVE  o = p
  BY <1>1, <1>3 DEF Path
<1> QED
  BY <1>2, <1>3

\* One task.
LEMMA ShortPath ==
  ASSUME NEW o \in Outlines, NEW p \in Outlines, NEW a, Leads(a, o, p)
  PROVE  Path(<<a>>, o, p)
<1> DEFINE via == [i \in 1 .. 2 |-> IF i = 1 THEN o ELSE p]
<1>1. via \in [1 .. 1 + 1 -> Outlines] /\ via[1] = o /\ via[2] = p
  OBVIOUS
<1>2. Len(<<a>>) = 1 /\ <<a>>[1] = a
  OBVIOUS
<1> HIDE DEF via
<1> QED
  BY <1>1, <1>2 DEF Path

\* One way after the other.
LEMMA LongPath ==
  ASSUME NEW S, NEW a \in Seq(S), NEW b \in Seq(S), NEW o, NEW p, NEW q,
         Path(a, o, q), Path(b, q, p)
  PROVE  Path(a \o b, o, p)
<1> DEFINE n == Len(a)
           m == Len(b)
           both == a \o b
<1>1. /\ n \in Nat /\ m \in Nat /\ Len(both) = n + m
      /\ \A i \in 1 .. n + m : both[i] = IF i <= n THEN a[i] ELSE b[i - n]
  BY LenProperties, ConcatProperties
<1>2. PICK f \in [1 .. n + 1 -> Outlines] :
        /\ f[1] = o /\ f[n + 1] = q
        /\ \A i \in 1 .. n : Leads(a[i], f[i], f[i + 1])
  BY DEF Path
<1>3. PICK g \in [1 .. m + 1 -> Outlines] :
        /\ g[1] = q /\ g[m + 1] = p
        /\ \A i \in 1 .. m : Leads(b[i], g[i], g[i + 1])
  BY DEF Path
<1> DEFINE via == [i \in 1 .. n + m + 1 |-> IF i <= n THEN f[i] ELSE g[i - n]]
<1>4. /\ via = [i \in 1 .. n + m + 1 |-> via[i]]
      /\ \A i \in 1 .. n + m + 1 : i <= n => via[i] = f[i]
      /\ \A i \in 1 .. n + m + 1 : i > n => via[i] = g[i - n]
  BY <1>1
<1> HIDE DEF via, n, m, both
<1>5. \A i \in 1 .. n + m + 1 : via[i] \in Outlines
  <2> SUFFICES ASSUME NEW i \in 1 .. n + m + 1 PROVE via[i] \in Outlines
    OBVIOUS
  <2>1. CASE i <= n
    <3>1. i \in 1 .. n + 1
      BY <1>1, <2>1
    <3> QED
      BY <1>2, <1>4, <2>1, <3>1
  <2>2. CASE i > n
    <3>1. i - n \in 1 .. m + 1
      BY <1>1, <2>2
    <3> QED
      BY <1>3, <1>4, <2>2, <3>1
  <2> QED
    BY <1>1, <2>1, <2>2
<1>6. via[1] = o
  <2>1. CASE n = 0
    <3>1. 1 \in 1 .. n + m + 1 /\ 1 > n /\ 1 - n = 1 /\ n + 1 = 1
      BY <1>1, <2>1
    <3> QED
      BY <1>2, <1>3, <1>4, <3>1
  <2>2. CASE n > 0
    <3>1. 1 \in 1 .. n + m + 1 /\ 1 <= n
      BY <1>1, <2>2
    <3> QED
      BY <1>2, <1>4, <3>1
  <2> QED
    BY <1>1, <2>1, <2>2
<1>7. via[n + m + 1] = p
  <2>1. n + m + 1 \in 1 .. n + m + 1 /\ n + m + 1 > n /\ (n + m + 1) - n = m + 1
    BY <1>1
  <2> QED
    BY <1>3, <1>4, <2>1
<1>8. ASSUME NEW i \in 1 .. n + m
      PROVE  Leads(both[i], via[i], via[i + 1])
  <2>0. i \in 1 .. n + m + 1 /\ i + 1 \in 1 .. n + m + 1
    BY <1>1
  <2>1. CASE i < n
    <3>1. i \in 1 .. n /\ i <= n /\ i + 1 <= n
      BY <1>1, <2>1
    <3> QED
      BY <1>1, <1>2, <1>4, <2>0, <3>1
  <2>2. CASE i = n
    <3>1. i \in 1 .. n /\ i <= n /\ i + 1 > n /\ (i + 1) - n = 1
      BY <1>1, <2>2
    <3>2. via[i + 1] = f[i + 1]
      BY <1>2, <1>3, <1>4, <2>0, <2>2, <3>1
    <3> QED
      BY <1>1, <1>2, <1>4, <2>0, <3>1, <3>2
  <2>3. CASE i > n
    <3>1. i - n \in 1 .. m /\ ~ (i <= n) /\ i + 1 > n /\ (i + 1) - n = (i - n) + 1
      BY <1>1, <2>3
    <3>2. both[i] = b[i - n] /\ via[i] = g[i - n] /\ via[i + 1] = g[(i - n) + 1]
      BY <1>1, <1>4, <2>0, <2>3, <3>1
    <3> QED
      BY <1>3, <3>1, <3>2
  <2> QED
    BY <1>1, <2>1, <2>2, <2>3
<1>9. via \in [1 .. (n + m) + 1 -> Outlines]
  BY <1>4, <1>5
<1> QED
  BY <1>1, <1>6, <1>7, <1>8, <1>9 DEF Path, both

\* The way of the task on top, and the one of the others.
LEMMA FirstOfPath ==
  ASSUME NEW S, NEW tasks \in Seq(S), tasks # <<>>, NEW o, NEW p, Path(tasks, o, p)
  PROVE  o \in Outlines /\ \E q \in Outlines : Leads(tasks[1], o, q) /\ Path(Tail(tasks), q, p)
<1> DEFINE n == Len(tasks)
           rest == Tail(tasks)
<1>1. /\ n \in Nat \ {0} /\ Len(rest) = n - 1
      /\ \A i \in 1 .. n - 1 : rest[i] = tasks[i + 1]
  BY LenProperties, EmptySeq, HeadTailProperties
<1>2. PICK via \in [1 .. n + 1 -> Outlines] :
        /\ via[1] = o /\ via[n + 1] = p
        /\ \A i \in 1 .. n : Leads(tasks[i], via[i], via[i + 1])
  BY DEF Path
<1> DEFINE after == [i \in 1 .. n |-> via[i + 1]]
<1>3. after = [i \in 1 .. n |-> after[i]] /\ \A i \in 1 .. n : after[i] = via[i + 1]
  OBVIOUS
<1> HIDE DEF after, n, rest
<1>4. \A i \in 1 .. n : i + 1 \in 1 .. n + 1
  BY <1>1
<1>5. after \in [1 .. (n - 1) + 1 -> Outlines]
  <2>1. \A i \in 1 .. n : after[i] \in Outlines
    BY <1>2, <1>3, <1>4
  <2>2. (n - 1) + 1 = n
    BY <1>1
  <2> QED
    BY <1>3, <2>1, <2>2
<1>6. after[(n - 1) + 1] = p
  BY <1>1, <1>2, <1>3
<1>7. ASSUME NEW i \in 1 .. n - 1
      PROVE  Leads(rest[i], after[i], after[i + 1])
  <2>1. i \in 1 .. n /\ i + 1 \in 1 .. n
    BY <1>1
  <2> QED
    BY <1>1, <1>2, <1>3, <2>1
<1>8. Path(rest, after[1], p)
  BY <1>1, <1>5, <1>6, <1>7 DEF Path
<1>9. 1 \in 1 .. n /\ 1 \in 1 .. n + 1 /\ 1 + 1 \in 1 .. n + 1
  BY <1>1
<1>10. o \in Outlines /\ via[1 + 1] \in Outlines /\ after[1] = via[1 + 1]
       /\ Leads(tasks[1], o, via[1 + 1])
  BY <1>2, <1>3, <1>9
<1> QED
  BY <1>8, <1>10 DEF rest

\* Tasks that are pushed together.
LEMMA Rows ==
  /\ \A a, b : <<a, b>> = <<a>> \o <<b>>
  /\ \A a, b, c : <<a, b, c>> = <<a>> \o <<b, c>>
  /\ \A a, b, c, d : <<a, b, c, d>> = <<a>> \o <<b, c, d>>
  /\ \A a, b, c, d, e : <<a, b, c, d, e>> = <<a>> \o <<b, c, d, e>>
<1>1. ASSUME NEW a, NEW b
      PROVE  <<a, b>> = <<a>> \o <<b>>
  <2> DEFINE S == {a, b}
             one == <<a>>
             two == <<b>>
             pair == <<a, b>>
  <2>1. /\ one \in Seq(S) /\ Len(one) = 1 /\ one[1] = a
        /\ two \in Seq(S) /\ Len(two) = 1 /\ two[1] = b
        /\ pair \in Seq(S) /\ Len(pair) = 2 /\ pair[1] = a /\ pair[2] = b
    OBVIOUS
  <2> HIDE DEF S, one, two, pair
  <2>2. /\ one \o two \in Seq(S) /\ Len(one \o two) = Len(one) + Len(two)
        /\ \A i \in 1 .. Len(one) + Len(two) :
             (one \o two)[i] = IF i <= Len(one) THEN one[i] ELSE two[i - Len(one)]
    BY <2>1, ConcatProperties
  <2>3. \A i \in 1 .. 2 : (one \o two)[i] = pair[i]
    BY <2>1, <2>2
  <2>4. one \o two = pair
    BY <2>1, <2>2, <2>3, SeqEqual
  <2> QED
    BY <2>4 DEF one, two, pair
<1>2. /\ \A a, b, c : <<a, b, c>> = <<a>> \o <<b, c>>
      /\ \A a, b, c, d : <<a, b, c, d>> = <<a>> \o <<b, c, d>>
      /\ \A a, b, c, d, e : <<a, b, c, d, e>> = <<a>> \o <<b, c, d, e>>
  OBVIOUS
<1> QED
  BY <1>1, <1>2

\* One task before a way.
LEMMA PathsGrow ==
  ASSUME NEW o \in Outlines, NEW q \in Outlines, NEW p \in Outlines, NEW a, Leads(a, o, q)
  PROVE  /\ \A b : Path(<<b>>, q, p) => Path(<<a, b>>, o, p)
         /\ \A b, c : Path(<<b, c>>, q, p) => Path(<<a, b, c>>, o, p)
         /\ \A b, c, d : Path(<<b, c, d>>, q, p) => Path(<<a, b, c, d>>, o, p)
         /\ \A b, c, d, e : Path(<<b, c, d, e>>, q, p) => Path(<<a, b, c, d, e>>, o, p)
<1>1. Path(<<a>>, o, q)
  BY ShortPath
<1>2. ASSUME NEW S, NEW rest \in Seq(S), Path(rest, q, p)
      PROVE  Path(<<a>> \o rest, o, p)
  <2> DEFINE U == S \cup {a}
  <2>1. rest \in Seq(U) /\ <<a>> \in Seq(U)
    BY SeqMonotonic
  <2> HIDE DEF U
  <2> QED
    BY <1>1, <1>2, <2>1, LongPath
<1>3. /\ \A b : <<b>> \in Seq({b})
      /\ \A b, c : <<b, c>> \in Seq({b, c})
      /\ \A b, c, d : <<b, c, d>> \in Seq({b, c, d})
      /\ \A b, c, d, e : <<b, c, d, e>> \in Seq({b, c, d, e})
  OBVIOUS
<1>4. ASSUME NEW b, Path(<<b>>, q, p)
      PROVE  Path(<<a, b>>, o, p)
  <2> DEFINE rest == <<b>>
             all == <<a, b>>
  <2>1. rest \in Seq({b}) /\ all = <<a>> \o rest
    BY <1>3, Rows
  <2> HIDE DEF all
  <2>2. all = <<a>> \o rest /\ rest \in Seq({b}) /\ Path(rest, q, p)
    BY <1>4, <2>1
  <2> HIDE DEF rest
  <2>3. Path(all, o, p)
    BY <1>2, <2>2
  <2> QED
    BY <2>3 DEF all
<1>5. ASSUME NEW b, NEW c, Path(<<b, c>>, q, p)
      PROVE  Path(<<a, b, c>>, o, p)
  <2> DEFINE rest == <<b, c>>
             all == <<a, b, c>>
  <2>1. rest \in Seq({b, c}) /\ all = <<a>> \o rest
    BY <1>3, Rows
  <2> HIDE DEF all
  <2>2. all = <<a>> \o rest /\ rest \in Seq({b, c}) /\ Path(rest, q, p)
    BY <1>5, <2>1
  <2> HIDE DEF rest
  <2>3. Path(all, o, p)
    BY <1>2, <2>2
  <2> QED
    BY <2>3 DEF all
<1>6. ASSUME NEW b, NEW c, NEW d, Path(<<b, c, d>>, q, p)
      PROVE  Path(<<a, b, c, d>>, o, p)
  <2> DEFINE rest == <<b, c, d>>
             all == <<a, b, c, d>>
  <2>1. rest \in Seq({b, c, d}) /\ all = <<a>> \o rest
    BY <1>3, Rows
  <2> HIDE DEF all
  <2>2. all = <<a>> \o rest /\ rest \in Seq({b, c, d}) /\ Path(rest, q, p)
    BY <1>6, <2>1
  <2> HIDE DEF rest
  <2>3. Path(all, o, p)
    BY <1>2, <2>2
  <2> QED
    BY <2>3 DEF all
<1>7. ASSUME NEW b, NEW c, NEW d, NEW e, Path(<<b, c, d, e>>, q, p)
      PROVE  Path(<<a, b, c, d, e>>, o, p)
  <2> DEFINE rest == <<b, c, d, e>>
             all == <<a, b, c, d, e>>
  <2>1. rest \in Seq({b, c, d, e}) /\ all = <<a>> \o rest
    BY <1>3, Rows
  <2> HIDE DEF all
  <2>2. all = <<a>> \o rest /\ rest \in Seq({b, c, d, e}) /\ Path(rest, q, p)
    BY <1>7, <2>1
  <2> HIDE DEF rest
  <2>3. Path(all, o, p)
    BY <1>2, <2>2
  <2> QED
    BY <2>3 DEF all
<1> QED
  BY <1>4, <1>5, <1>6, <1>7

(***************************************************************************)
(* Steps.                                                                  *)
(***************************************************************************)

\* The tasks take the outline to where the task on top would have taken it.
Continues(tasks) ==
  \A q, r \in Outlines :
    ~ failed' /\ Agrees(outline, q) /\ Leads(Top, q, r) =>
      \E s \in Outlines : Agrees(outline', s) /\ Path(tasks, s, r)

\* After an error nothing is claimed.
LEMMA FailureEndsTrace ==
  ASSUME failed'
  PROVE  Traced'
BY DEF Traced

\* A step that replaces the top by such tasks.
LEMMA TracedStep ==
  ASSUME ParserInv, Traced, stack # <<>>, failed => failed',
         NEW tasks, IsStack(tasks), Then(tasks), Continues(tasks)
  PROVE  Traced'
<1> SUFFICES ASSUME ~ failed'
             PROVE  Traced'
  BY FailureEndsTrace
<1>1. PICK o \in Outlines, p \in Outlines :
        Agrees(outline, o) /\ Path(stack, o, p) /\ IsEnd(p)
  BY DEF Traced
<1>2. PICK S : tasks \in Seq(S)
  BY DEF IsStack
<1> DEFINE U == S \cup TasksAfter(failed)
           rest == Tail(stack)
<1>3. tasks \in Seq(U) /\ stack \in Seq(U)
  BY <1>2, SeqMonotonic DEF ParserInv
<1>4. rest \in Seq(U)
  BY <1>3, HeadTailProperties
<1> HIDE DEF U
<1>5. PICK r \in Outlines : Leads(Top, o, r) /\ Path(rest, r, p)
  BY <1>1, <1>3, FirstOfPath DEF Top
<1>6. PICK s \in Outlines : Agrees(outline', s) /\ Path(tasks, s, r)
  BY <1>1, <1>5 DEF Continues
<1> HIDE DEF rest
<1>7. Path(tasks \o rest, s, p)
  BY <1>3, <1>4, <1>5, <1>6, LongPath
<1>8. stack' = tasks \o rest
  BY DEF Then, rest
<1> QED
  BY <1>1, <1>6, <1>7, <1>8 DEF Traced

\* The outline of an accepted text is well formed, and quiet tokens keep it.
LEMMA OutlineStays ==
  ASSUME ParserInv, Traced
  PROVE  /\ ~ failed => outline \in Outlines
         /\ \A fails : Keep(fails) => (failed => failed') /\ (~ failed' => outline' = outline)
         /\ \A how, fails : Bump(how, fails) =>
              /\ failed => failed'
              /\ ~ failed' => outline' = Read(outline, look)
         /\ \A how, fails : Bump(how, fails) /\ look \notin TestBoundary \cup Brackets =>
              (~ failed' => outline' = outline)
<1>1. ~ failed => outline \in Outlines
  BY AgreeingOutlines DEF Traced
<1>2. \A fails : Keep(fails) => (failed => failed') /\ (~ failed' => outline' = outline)
  BY DEF Keep, ParserInv
<1>3. \A how, fails : Bump(how, fails) =>
        /\ failed => failed'
        /\ ~ failed' => outline' = Read(outline, look)
  BY DEF Bump, ParserInv
<1>4. ~ failed /\ look \notin TestBoundary \cup Brackets => Read(outline, look) = outline
  BY <1>1, QuietToken
<1> QED
  BY <1>1, <1>2, <1>3, <1>4

\* A task that leaves the outline as it is, and one that takes over.
Idle(t) == \A o \in Outlines : o.keyword = "none" => Leads(t, o, o)
Carries(t) == \A q, r \in Outlines : Leads(Top, q, r) => Leads(t, q, r)

\* The sequences that the parser pushes.
LEMMA IdlePaths ==
  ASSUME NEW q \in Outlines, NEW r \in Outlines, q.keyword = "none"
  PROVE  /\ \A a : Leads(a, q, r) => Path(<<a>>, q, r)
         /\ \A a, b : Idle(a) /\ Leads(b, q, r) => Path(<<a, b>>, q, r)
         /\ \A a, b, c : Idle(a) /\ Idle(b) /\ Leads(c, q, r) => Path(<<a, b, c>>, q, r)
         /\ \A a, b, c, d : Idle(a) /\ Idle(b) /\ Idle(c) /\ Leads(d, q, r) =>
              Path(<<a, b, c, d>>, q, r)
         /\ \A a, b, c, d, e : Idle(a) /\ Idle(b) /\ Idle(c) /\ Idle(d) /\ Leads(e, q, r) =>
              Path(<<a, b, c, d, e>>, q, r)
<1>1. \A a : Leads(a, q, r) => Path(<<a>>, q, r)
  BY ShortPath
<1>2. \A a : Idle(a) => Leads(a, q, q)
  BY DEF Idle
<1>3. \A a, b : Idle(a) /\ Leads(b, q, r) => Path(<<a, b>>, q, r)
  BY <1>1, <1>2, PathsGrow
<1>4. \A a, b, c : Idle(a) /\ Idle(b) /\ Leads(c, q, r) => Path(<<a, b, c>>, q, r)
  BY <1>2, <1>3, PathsGrow
<1>5. \A a, b, c, d : Idle(a) /\ Idle(b) /\ Idle(c) /\ Leads(d, q, r) => Path(<<a, b, c, d>>, q, r)
  BY <1>2, <1>4, PathsGrow
<1>6. \A a, b, c, d, e : Idle(a) /\ Idle(b) /\ Idle(c) /\ Idle(d) /\ Leads(e, q, r) =>
        Path(<<a, b, c, d, e>>, q, r)
  BY <1>2, <1>5, PathsGrow
<1> QED
  BY <1>1, <1>3, <1>4, <1>5, <1>6

\* A step that has nothing to do with blocks.
Quiet == (failed => failed') /\ (~ failed' => outline' = outline)

\* A step that leaves the outline alone, and no task.
LEMMA PopStep ==
  ASSUME ParserInv, Traced, stack # <<>>, Quiet,
         Top.task \in Idlers \cup {"method"}, Then(<<>>)
  PROVE  Traced'
<1>1. <<>> \in Seq({})
  OBVIOUS
<1>2. ASSUME NEW q \in Outlines, NEW r \in Outlines, Leads(Top, q, r), ~ failed',
             Agrees(outline, q)
      PROVE  Agrees(outline', r) /\ Path(<<>>, r, r)
  <2>1. q.keyword # "either"
    BY <1>2 DEF Leads, Accepts
  <2>2. outline' = q
    BY <1>2, <2>1, AgreeingOutlines DEF Quiet
  <2>3. Top.task \notin Loops \cup {"consume", "options", "suite"}
    BY DEF Idlers, Names, Loops
  <2>4. Agrees(q, r)
    BY <1>2, <2>3 DEF Leads, Result
  <2> QED
    BY <2>2, <2>4, EmptyPath
<1>3. Continues(<<>>)
  BY <1>2 DEF Continues
<1> QED
  BY <1>1, <1>3, AnyStack, TracedStep DEF Quiet

\* A step that leaves the outline alone and pushes idle tasks before one that
\* takes over.
LEMMA IdleStep ==
  ASSUME ParserInv, Traced, stack # <<>>, Quiet,
         Top.task \in Idlers \cup (Loops \ {"test"})
  PROVE  /\ Top.task \in Idlers /\ Then(<<>>) => Traced'
         /\ \A a : Then(<<a>>) /\ Carries(a) => Traced'
         /\ \A a, b : Then(<<a, b>>) /\ Idle(a) /\ Carries(b) => Traced'
         /\ \A a, b, c : Then(<<a, b, c>>) /\ Idle(a) /\ Idle(b) /\ Carries(c) => Traced'
         /\ \A a, b, c, d :
              Then(<<a, b, c, d>>) /\ Idle(a) /\ Idle(b) /\ Idle(c) /\ Carries(d) => Traced'
         /\ \A a, b, c, d, e :
              Then(<<a, b, c, d, e>>) /\ Idle(a) /\ Idle(b) /\ Idle(c) /\ Idle(d) /\ Carries(e)
                => Traced'
<1>1. ASSUME NEW q \in Outlines, NEW r \in Outlines, Leads(Top, q, r)
      PROVE  q.keyword = "none"
  BY <1>1 DEF Leads, Accepts
<1>2. ASSUME NEW S, NEW tasks \in Seq(S), Then(tasks),
             \A q, r \in Outlines : Leads(Top, q, r) /\ q.keyword = "none" => Path(tasks, q, r)
      PROVE  Traced'
  <2>1. Continues(tasks)
    BY <1>1, <1>2 DEF Continues, Quiet
  <2>2. IsStack(tasks)
    BY <1>2, AnyStack
  <2> QED
    BY <1>2, <2>1, <2>2, TracedStep DEF Quiet
<1>3. Top.task \in Idlers /\ Then(<<>>) => Traced'
  BY PopStep
<1>4. ASSUME NEW a, Then(<<a>>), Carries(a)
      PROVE  Traced'
  <2>1. <<a>> \in Seq({a})
    OBVIOUS
  <2>2. \A q, r \in Outlines : Leads(Top, q, r) /\ q.keyword = "none" => Path(<<a>>, q, r)
    BY <1>4, IdlePaths DEF Carries
  <2> QED
    BY <1>2, <1>4, <2>1, <2>2
<1>5. ASSUME NEW a, NEW b, Then(<<a, b>>), Idle(a), Carries(b)
      PROVE  Traced'
  <2>1. <<a, b>> \in Seq({a, b})
    OBVIOUS
  <2>2. \A q, r \in Outlines : Leads(Top, q, r) /\ q.keyword = "none" => Path(<<a, b>>, q, r)
    BY <1>5, IdlePaths DEF Carries
  <2> QED
    BY <1>2, <1>5, <2>1, <2>2
<1>6. ASSUME NEW a, NEW b, NEW c, Then(<<a, b, c>>), Idle(a), Idle(b), Carries(c)
      PROVE  Traced'
  <2>1. <<a, b, c>> \in Seq({a, b, c})
    OBVIOUS
  <2>2. \A q, r \in Outlines : Leads(Top, q, r) /\ q.keyword = "none" => Path(<<a, b, c>>, q, r)
    BY <1>6, IdlePaths DEF Carries
  <2> QED
    BY <1>2, <1>6, <2>1, <2>2
<1>7. ASSUME NEW a, NEW b, NEW c, NEW d, Then(<<a, b, c, d>>), Idle(a), Idle(b), Idle(c), Carries(d)
      PROVE  Traced'
  <2>1. <<a, b, c, d>> \in Seq({a, b, c, d})
    OBVIOUS
  <2>2. \A q, r \in Outlines : Leads(Top, q, r) /\ q.keyword = "none" => Path(<<a, b, c, d>>, q, r)
    BY <1>7, IdlePaths DEF Carries
  <2> QED
    BY <1>2, <1>7, <2>1, <2>2
<1>8. ASSUME NEW a, NEW b, NEW c, NEW d, NEW e, Then(<<a, b, c, d, e>>), Idle(a), Idle(b), Idle(c), Idle(d), Carries(e)
      PROVE  Traced'
  <2>1. <<a, b, c, d, e>> \in Seq({a, b, c, d, e})
    OBVIOUS
  <2>2. \A q, r \in Outlines : Leads(Top, q, r) /\ q.keyword = "none" => Path(<<a, b, c, d, e>>, q, r)
    BY <1>8, IdlePaths DEF Carries
  <2> QED
    BY <1>2, <1>8, <2>1, <2>2
<1> QED
  BY <1>3, <1>4, <1>5, <1>6, <1>7, <1>8

(***************************************************************************)
(* What the parser pushes.                                                 *)
(***************************************************************************)

\* Tasks that leave the outline as it is.
LEMMA PushedAreIdle ==
  /\ \A n \in Idlers : Idle(Task(n))
  /\ \A token : token \notin TestBoundary \cup Brackets => Idle(Consume(token))
  /\ \A S : Idle(Value(S))
  /\ \A n \in {"comparison", "capture"} : \A t, c : Idle(FieldEnd(n, t, c))
<1>1. ASSUME NEW t, t.task \in Idlers
      PROVE  Idle(t)
  <2>1. t.task \notin Loops \cup {"consume", "options", "suite", "method", "core", "pipeline", "test"}
    BY <1>1 DEF Idlers, Names, Loops
  <2> QED
    BY <1>1, <2>1 DEF Idle, Leads, Accepts, Result, Agrees
<1>2. ASSUME NEW token, token \notin TestBoundary \cup Brackets
      PROVE  Idle(Consume(token))
  <2> DEFINE t == Consume(token)
  <2>1. t.task = "consume" /\ t.token = token
    BY DEF Consume
  <2> HIDE DEF t
  <2>2. "consume" \notin Idlers \cup Loops
    BY DEF Idlers, Loops, Names
  <2>3. \A o \in Outlines : Result(t, o) = o
    BY <1>2, <2>1, <2>2, QuietToken DEF Result
  <2>4. Idle(t)
    BY <2>1, <2>2, <2>3 DEF Idle, Leads, Accepts, Agrees
  <2> QED
    BY <2>4 DEF t
<1>3. /\ \A n : Task(n).task = n
      /\ \A S : Value(S).task = "value"
      /\ \A n, t, c : FieldEnd(n, t, c).task = n
  BY DEF Task, Value, FieldEnd
<1>4. {"value", "comparison", "capture"} \subseteq Idlers
  BY DEF Idlers
<1> QED
  BY <1>1, <1>2, <1>3, <1>4

\* They take over from each other; and every task from itself.
LEMMA IdleCarries ==
  /\ Top.task \in Idlers => \A t : Idle(t) => Carries(t)
  /\ Carries(Top)
<1>1. ASSUME Top.task \in Idlers, NEW t, Idle(t), NEW q \in Outlines, NEW r \in Outlines,
             Leads(Top, q, r)
      PROVE  Leads(t, q, r)
  <2>1. Top.task \notin Loops \cup {"consume", "options", "suite"}
    BY <1>1 DEF Idlers, Names, Loops
  <2>2. q.keyword = "none" /\ Agrees(q, r)
    BY <1>1, <2>1 DEF Leads, Accepts, Result
  <2>3. Leads(t, q, q)
    BY <1>1, <2>2 DEF Idle
  <2>4. t.task # "options"
    BY <2>2, <2>3 DEF Leads, Outline
  <2>5. t.task # "suite" => Result(t, q) = q
    BY <2>2, <2>3, <2>4 DEF Leads, Agrees
  <2> QED
    BY <2>2, <2>3, <2>4, <2>5 DEF Leads
<1> QED
  BY <1>1 DEF Carries

\* Returning from a function that has read what it must.
LEMMA LeaveTraces ==
  ASSUME ParserInv, Traced, stack # <<>>,
         Top.task \in Loops \ {"array", "object", "fields"},
         NEW ends, NEW fails \in BOOLEAN, Leave(ends, fails),
         Top.task \in {"core", "pipeline", "test"} /\ ~ fails =>
           MustContain(Top.task) \subseteq Top.seen
  PROVE  Traced'
<1>1. /\ failed => failed'
      /\ ~ failed' => outline' = outline
      /\ fails => failed'
      /\ Then(<<Consume("}")>>)
  BY OutlineStays DEF Leave, Keep, ParserInv
<1>2. ASSUME NEW q \in Outlines, NEW r \in Outlines, Leads(Top, q, r), ~ failed',
             Agrees(outline, q)
      PROVE  Agrees(outline', outline) /\ Path(<<Consume("}")>>, outline, r)
  <2>1. /\ outline \in Outlines /\ outline.keyword # "either"
        /\ Innermost(outline) = Innermost(q) /\ Closed(outline) = Closed(q)
    BY <1>2, AgreeingOutlines DEF Agrees, Outline
  <2>2. Top.task \notin {"consume", "options", "suite"}
    BY DEF Loops
  <2>3. /\ Innermost(q).kind = Inside(Top.task) /\ Agrees(Closed(q), r)
        /\ Top.task \in {"core", "pipeline", "test"} => Innermost(q).seen = Top.seen
    BY <1>2, <2>2 DEF Leads, Accepts, Result
  <2>4. Inside(Top.task) # "["
    BY DEF Inside, Loops
  <2>5. MustContain(Innermost(q).kind) \subseteq Innermost(q).seen
    <3>1. CASE Top.task \in {"core", "pipeline", "test"}
      <4>1. Inside(Top.task) = Top.task
        BY <3>1 DEF Inside
      <4> QED
        BY <1>1, <1>2, <2>3, <3>1, <4>1
    <3>2. CASE Top.task \notin {"core", "pipeline", "test"}
      <4>1. Inside(Top.task) \in {"{", "request", "expect"}
        BY <3>2 DEF Inside, Loops
      <4> QED
        BY <2>3, <4>1 DEF MustContain
    <3> QED
      BY <3>1, <3>2
  <2>6. Read(outline, "}") = Closed(q)
    BY <2>1, <2>3, <2>4, <2>5, ClosingToken
  <2> DEFINE t == Consume("}")
  <2>7. t.task = "consume" /\ t.token = "}" /\ "consume" \notin Idlers \cup Loops
    BY DEF Consume, Idlers, Loops, Names
  <2> HIDE DEF t
  <2>8. Leads(t, outline, r)
    BY <2>1, <2>3, <2>6, <2>7 DEF Leads, Accepts, Result
  <2>9. Agrees(outline', outline)
    BY <1>1, <1>2, <2>1 DEF Agrees
  <2> QED
    BY <2>1, <2>8, <2>9, ShortPath DEF t
<1>3. Continues(<<Consume("}")>>)
  <2> SUFFICES ASSUME NEW q \in Outlines, NEW r \in Outlines, Leads(Top, q, r), ~ failed',
                      Agrees(outline, q)
               PROVE  \E s \in Outlines : Agrees(outline', s) /\ Path(<<Consume("}")>>, s, r)
    BY DEF Continues
  <2>1. outline \in Outlines
    BY AgreeingOutlines
  <2> QED
    BY <1>2, <2>1
<1>4. IsStack(<<Consume("}")>>)
  <2>1. <<Consume("}")>> \in Seq({Consume("}")})
    OBVIOUS
  <2> QED
    BY <2>1, AnyStack
<1> QED
  BY <1>1, <1>3, <1>4, TracedStep

\* Taking a token that has its place.
LEMMA ConsumeLeads ==
  ASSUME NEW o \in Outlines, o.keyword # "either", NEW token, NEW p \in Outlines,
         Agrees(Read(o, token), p)
  PROVE  Leads(Consume(token), o, p)
<1> DEFINE t == Consume(token)
<1>1. t.task = "consume" /\ t.token = token /\ "consume" \notin Idlers \cup Loops
  BY DEF Consume, Idlers, Loops, Names
<1> HIDE DEF t
<1>2. Leads(t, o, p)
  BY <1>1 DEF Leads, Accepts, Result
<1> QED
  BY <1>2 DEF t

\* A loop that begins in a block of its own leads back out of it.
LEMMA LoopLeads ==
  ASSUME NEW t, t.task \in Loops, NEW o \in Outlines, NEW p \in Outlines,
         o.keyword = "none", Innermost(o).kind = Inside(t.task),
         t.task \in {"core", "pipeline", "test"} => Innermost(o).seen = t.seen,
         Agrees(Closed(o), p)
  PROVE  Leads(t, o, p)
<1>1. t.task \notin {"consume", "options", "suite", "method"}
  BY DEF Loops
<1> QED
  BY <1>1 DEF Leads, Accepts, Result

\* The tasks that a keyword starts take it with its block, if it may stand here.
LEMMA StartPath ==
  ASSUME NEW o \in Outlines, o.keyword # "either", NEW keyword \in TestBoundary,
         keyword \in MayContain(Innermost(o).kind), ~ Misplaced(keyword, Innermost(o))
  PROVE  After(o, keyword) \in Outlines /\ Path(Start(keyword), o, After(o, keyword))
<1> DEFINE named == Entered(o, keyword)
           after == After(o, keyword)
           entered == Opened(named, keyword)
<1>1. Read(o, keyword) = named /\ named \in Outlines /\ named.keyword = keyword
  BY KeywordToken
<1>2. keyword \notin {"none", "either"}
  BY DEF TestBoundary, SuiteBoundary, OuterBlockBoundary
<1>3. Leads(Consume(keyword), o, named)
  BY <1>1, <1>2, ConsumeLeads DEF Agrees
<1>4. after = Outline(named.blocks, IF keyword = "request" THEN "either" ELSE "none")
      /\ after \in Outlines
  BY <1>1, OutlineParts DEF Outlines, Outline, After
<1>5. /\ Read(named, "{") = entered /\ entered \in Outlines /\ entered.keyword = "none"
      /\ Innermost(entered).kind = keyword /\ Innermost(entered).seen = {}
      /\ Closed(entered) = Outline(named.blocks, "none")
  BY <1>1, <1>2, OpeningToken
<1>6. Leads(Consume("{"), named, entered)
  BY <1>1, <1>2, <1>5, ConsumeLeads DEF Agrees
<1>7. Leads(Consume("string"), named, named)
  <2>1. Read(named, "string") = named
    BY <1>1, QuietToken DEF TestBoundary, SuiteBoundary, OuterBlockBoundary, Brackets
  <2> QED
    BY <1>1, <1>2, <2>1, ConsumeLeads DEF Agrees
<1> HIDE DEF named, entered, after
<1>8. CASE keyword \in {"core", "pipeline", "test"}
  <2> DEFINE items == Items(keyword, {})
  <2>1. items.task = keyword /\ items.seen = {}
    BY DEF Items
  <2>2. keyword \in Loops /\ Inside(keyword) = keyword
    BY <1>8 DEF Loops, Inside
  <2>3. Closed(entered) = after /\ after.keyword = "none"
    BY <1>4, <1>5, <1>8 DEF Outline
  <2> HIDE DEF items
  <2>4. Agrees(Closed(entered), after)
    BY <2>3 DEF Agrees
  <2>5. Leads(items, entered, after)
    <3>1. Innermost(entered).kind = Inside(items.task) /\ Innermost(entered).seen = items.seen
      BY <1>5, <2>1, <2>2
    <3>2. items.task \in Loops
      BY <2>1, <2>2
    <3> QED
      BY <1>4, <1>5, <2>4, <3>1, <3>2, LoopLeads
  <2>6. Path(<<items>>, entered, after)
    BY <1>4, <1>5, <2>5, ShortPath
  <2>7. Path(<<Consume("{"), items>>, named, after)
    BY <1>1, <1>4, <1>5, <1>6, <2>6, PathsGrow
  <2>8. CASE keyword = "core"
    <3>1. Start(keyword) = <<Consume(keyword), Consume("{"), items>>
      BY <2>8 DEF Start, items
    <3> QED
      BY <1>1, <1>3, <1>4, <2>7, <3>1, PathsGrow DEF after
  <2>9. CASE keyword \in {"pipeline", "test"}
    <3>1. Start(keyword) = <<Consume(keyword), Consume("string"), Consume("{"), items>>
      BY <2>9 DEF Start, items
    <3>2. /\ Path(<<Consume("string"), Consume("{"), items>>, named, after)
         
      BY <1>1, <1>4, <1>7, <2>7, PathsGrow
    <3> QED
      BY <1>1, <1>3, <1>4, <3>1, <3>2, PathsGrow DEF after
  <2> QED
    BY <1>8, <2>8, <2>9
<1>9. CASE keyword = "expect"
  <2> DEFINE items == Task("expect")
  <2>1. items.task = "expect"
    BY DEF Task
  <2>2. "expect" \in Loops /\ Inside("expect") = "expect"
    BY DEF Loops, Inside
  <2>3. Closed(entered) = after /\ after.keyword = "none"
    BY <1>4, <1>5, <1>9 DEF Outline
  <2>4. Start(keyword) = <<Consume(keyword), Consume("{"), items>>
    BY <1>9 DEF Start
  <2> HIDE DEF items
  <2>5. Agrees(Closed(entered), after)
    BY <2>3 DEF Agrees
  <2>6. Leads(items, entered, after)
    <3>1. Innermost(entered).kind = Inside(items.task) /\ items.task \in Loops
      BY <1>5, <1>9, <2>1, <2>2
    <3>2. items.task \notin {"core", "pipeline", "test"}
      BY <2>1
    <3> QED
      BY <1>4, <1>5, <2>5, <3>1, <3>2, LoopLeads
  <2>7. Path(<<items>>, entered, after)
    BY <1>4, <1>5, <2>6, ShortPath
  <2>8. Path(<<Consume("{"), items>>, named, after)
    BY <1>1, <1>4, <1>5, <1>6, <2>7, PathsGrow
  <2> QED
    BY <1>1, <1>3, <1>4, <2>4, <2>8, PathsGrow DEF after
<1>10. CASE keyword = "request"
  <2> DEFINE method == Task("method")
             options == Task("options")
  <2>1. method.task = "method" /\ options.task = "options"
    BY DEF Task
  <2>2. {"method", "options"} \cap (Idlers \cup Loops) = {}
    BY DEF Idlers, Loops, Names
  <2>3. Start(keyword) = <<Consume(keyword), method, Consume("string"), options>>
    BY <1>10 DEF Start
  <2>4. after = Outline(named.blocks, "either")
    BY <1>4, <1>10
  <2> HIDE DEF method, options
  <2>5. Leads(method, named, named)
    BY <1>1, <1>10, <2>1, <2>2 DEF Leads, Accepts, Result, Agrees
  <2>6. Leads(options, named, after)
    BY <1>1, <1>10, <2>1, <2>2, <2>4 DEF Leads, Accepts
  <2>7. Path(<<options>>, named, after)
    BY <1>1, <1>4, <2>6, ShortPath
  <2>8. Path(<<Consume("string"), options>>, named, after)
    BY <1>1, <1>4, <1>7, <2>7, PathsGrow
  <2>9. /\ Path(<<method, Consume("string"), options>>, named, after)
       
    BY <1>1, <1>4, <2>5, <2>8, PathsGrow
  <2> QED
    BY <1>1, <1>3, <1>4, <2>3, <2>9, PathsGrow DEF after
<1> QED
  BY <1>8, <1>9, <1>10 DEF TestBoundary, SuiteBoundary, OuterBlockBoundary

\* An item of a loop over blocks, tests, requests and expectations.
LEMMA ItemTraces ==
  ASSUME ParserInv, Traced, stack # <<>>, look \in TestBoundary,
         NEW fails, Keep(fails), NEW next \in PlainTasks, Then(Append(Start(look), next)),
         \A q, r \in Outlines :
           Leads(Top, q, r) /\ Agrees(outline, q) /\ ~ failed' =>
             /\ look \in MayContain(Innermost(outline).kind)
             /\ ~ Misplaced(look, Innermost(outline))
             /\ Leads(next, After(outline, look), r)
  PROVE  Traced'
<1> DEFINE tasks == Append(Start(look), next)
<1>1. /\ failed => failed'
      /\ ~ failed' => outline' = outline
  BY OutlineStays
<1>2. /\ Start(look) \in Seq(PlainTasks) /\ <<next>> \in Seq(PlainTasks)
      /\ tasks = Start(look) \o <<next>> /\ tasks \in Seq(PlainTasks)
  BY StartIsPlain, AppendIsConcat
<1> HIDE DEF tasks
<1>3. ASSUME NEW q \in Outlines, NEW r \in Outlines, Leads(Top, q, r), ~ failed',
             Agrees(outline, q)
      PROVE  \E s \in Outlines : Agrees(outline', s) /\ Path(tasks, s, r)
  <2>1. outline \in Outlines /\ outline.keyword # "either" /\ outline' = outline
    BY <1>1, <1>3, AgreeingOutlines DEF Agrees, Outline
  <2> DEFINE after == After(outline, look)
  <2>2. after \in Outlines /\ Path(Start(look), outline, after)
    BY <1>3, <2>1, StartPath
  <2>3. Leads(next, after, r)
    BY <1>3
  <2> HIDE DEF after
  <2>4. Path(<<next>>, after, r)
    BY <1>3, <2>2, <2>3, ShortPath
  <2>5. Path(tasks, outline, r)
    BY <1>2, <2>2, <2>4, LongPath
  <2>6. Agrees(outline', outline)
    BY <2>1 DEF Agrees
  <2> QED
    BY <2>1, <2>5, <2>6
<1>4. Continues(tasks) /\ IsStack(tasks) /\ Then(tasks)
  BY <1>2, <1>3, AnyStack DEF Continues, tasks
<1> QED
  BY <1>1, <1>4, TracedStep

\* What the loop is in after an item, and what it leads to.
LEMMA AfterItem ==
  ASSUME NEW o \in Outlines, NEW keyword \in TestBoundary,
         keyword \in MayContain(Innermost(o).kind), ~ Misplaced(keyword, Innermost(o))
  PROVE  /\ After(o, keyword) \in Outlines
         /\ After(o, keyword).keyword = IF keyword = "request" THEN "either" ELSE "none"
         /\ Innermost(After(o, keyword)).kind = Innermost(o).kind
         /\ Innermost(After(o, keyword)).seen = Innermost(o).seen \cup {keyword}
         /\ Closed(After(o, keyword)) = Closed(o)
         /\ Len(After(o, keyword).blocks) = Len(o.blocks)
<1> DEFINE named == Entered(o, keyword)
           after == After(o, keyword)
<1>1. /\ named \in Outlines
      /\ Innermost(named)
           = [kind |-> Innermost(o).kind, seen |-> Innermost(o).seen \cup {keyword}]
      /\ Outer(named) = Outer(o)
      /\ Len(named.blocks) = Len(o.blocks)
  BY KeywordToken
<1>2. /\ after.blocks = named.blocks
      /\ after.keyword = IF keyword = "request" THEN "either" ELSE "none"
  BY DEF After, Outline
<1>3. after \in Outlines
  BY <1>1, OutlineParts DEF Outlines, Outline, After
<1>4. Innermost(after) = Innermost(named) /\ Closed(after) = Closed(o)
  BY <1>1, <1>2 DEF Innermost, Closed, Outer
<1>5. /\ Innermost(named).kind = Innermost(o).kind
      /\ Innermost(named).seen = Innermost(o).seen \cup {keyword}
  BY <1>1
<1> HIDE DEF named, after
<1> QED
  BY <1>1, <1>2, <1>3, <1>4, <1>5 DEF after

\* A recovery reports an error first.
LEMMA RecoverTraces ==
  ASSUME ParserInv, NEW known, Recover(known)
  PROVE  Traced'
<1>1. failed'
  BY DEF Recover, Bump
<1> QED
  BY <1>1, FailureEndsTrace

\* parse_suite
LEMMA SuiteTraces ==
  ASSUME ParserInv, Balanced, Traced, ParseSuite
  PROVE  Traced'
<1>1. /\ stack # <<>> /\ Top.task = "suite"
      /\ Top.hasCore \in BOOLEAN /\ Top.hasBlocks \in BOOLEAN
      /\ "suite" \notin Loops \cup Idlers
  BY TopFields DEF ParseSuite, Doing, Loops, Idlers, Names
<1>2. ASSUME NEW q \in Outlines, NEW r \in Outlines, Leads(Top, q, r), Agrees(outline, q)
      PROVE  /\ outline = q /\ q.keyword = "none" /\ Len(q.blocks) = 1
             /\ Innermost(q).kind = "suite" /\ Innermost(q) = q.blocks[1]
             /\ "core" \in Innermost(q).seen => Top.hasCore
             /\ Top.hasBlocks => Innermost(q).seen # {}
  <2>1. /\ q.keyword = "none" /\ Len(q.blocks) = 1 /\ Innermost(q).kind = "suite"
        /\ "core" \in Innermost(q).seen => Top.hasCore
        /\ Top.hasBlocks => Innermost(q).seen # {}
    BY <1>1, <1>2 DEF Leads, Accepts
  <2>2. outline = q
    BY <1>2, <2>1, AgreeingOutlines
  <2>3. Innermost(q) = q.blocks[1]
    BY <2>1 DEF Innermost
  <2> QED
    BY <2>1, <2>2, <2>3
<1>3. CASE look = "eof"
  <2> SUFFICES ASSUME ~ failed'
               PROVE  Traced'
    BY FailureEndsTrace
  <2>1. Keep(~ Top.hasBlocks /\ ~ failed) /\ Then(<<>>)
    BY <1>3 DEF ParseSuite, Recover, SuiteBoundary, OuterBlockBoundary
  <2>2. ~ failed /\ Top.hasBlocks /\ outline' = outline
    BY <2>1 DEF Keep, ParserInv
  <2>3. stack' = <<>>
    <3>1. stack \in Seq(TasksAfter(failed))
      BY DEF ParserInv
    <3>2. 1 \in 1 .. Len(stack) /\ stack[1].task = "suite"
      BY <1>1, <3>1, EmptySeq, LenProperties DEF Top
    <3>3. Len(stack) = 1
      BY <3>2 DEF Balanced
    <3>4. Tail(stack) \in Seq(TasksAfter(failed)) /\ Len(Tail(stack)) = 0
      BY <1>1, <3>1, <3>3, HeadTailProperties
    <3>5. Tail(stack) = <<>>
      BY <3>4, EmptySeq
    <3> QED
      BY <2>1, <3>4, <3>5, ConcatEmptySeq DEF Then
  <2>4. PICK q \in Outlines, p \in Outlines : Agrees(outline, q) /\ Path(stack, q, p)
    BY <2>2 DEF Traced
  <2>5. stack \in Seq(TasksAfter(failed))
    BY DEF ParserInv
  <2>6. PICK r \in Outlines : Leads(Top, q, r)
    BY <1>1, <2>4, <2>5, FirstOfPath DEF Top
  <2>7. outline' = q /\ q.keyword # "either" /\ IsEnd(q)
    BY <1>2, <2>2, <2>4, <2>6 DEF IsEnd
  <2>8. Agrees(outline', q) /\ Path(<<>>, q, q)
    BY <2>7, EmptyPath DEF Agrees
  <2> QED
    BY <2>3, <2>7, <2>8 DEF Traced
<1>4. CASE look \in SuiteBoundary
  <2> DEFINE next == Suite(Top.hasCore \/ look = "core", TRUE)
  <2>1. Keep(look = "core" /\ Top.hasCore) /\ Then(Append(Start(look), next))
    BY <1>4 DEF ParseSuite, Recover, SuiteBoundary, OuterBlockBoundary
  <2>2. next \in PlainTasks /\ look \in TestBoundary
    BY <1>1, <1>4, PlainConstructors DEF TestBoundary
  <2>3. /\ next.task = "suite" /\ next.hasBlocks
        /\ next.hasCore <=> Top.hasCore \/ look = "core"
    BY DEF Suite
  <2> HIDE DEF next
  <2>4. ASSUME NEW q \in Outlines, NEW r \in Outlines, Leads(Top, q, r), Agrees(outline, q),
               ~ failed'
        PROVE  /\ look \in MayContain(Innermost(outline).kind)
               /\ ~ Misplaced(look, Innermost(outline))
               /\ Leads(next, After(outline, look), r)
    <3>1. look = "core" => ~ Top.hasCore
      BY <2>1, <2>4 DEF Keep
    <3>2. look \in MayContain(Innermost(q).kind)
      BY <1>2, <1>4, <2>4 DEF MayContain
    <3>3. ~ Misplaced(look, Innermost(q))
      BY <1>2, <1>4, <2>4, <3>1 DEF Misplaced, SuiteBoundary, OuterBlockBoundary
    <3> DEFINE after == After(q, look)
    <3>4. /\ after.keyword = "none" /\ Innermost(after).kind = "suite"
          /\ Innermost(after).seen = Innermost(q).seen \cup {look}
          /\ Len(after.blocks) = 1
      BY <1>2, <1>4, <2>2, <2>4, <3>2, <3>3, AfterItem DEF SuiteBoundary, OuterBlockBoundary
    <3> HIDE DEF after
    <3>5. "core" \in Innermost(after).seen => next.hasCore
      BY <1>2, <2>3, <2>4, <3>4
    <3>6. Leads(next, after, r)
      BY <1>1, <2>3, <3>4, <3>5 DEF Leads, Accepts
    <3> QED
      BY <1>2, <2>4, <3>2, <3>3, <3>6 DEF after
  <2> QED
    BY <1>1, <2>1, <2>2, <2>4, ItemTraces
<1>5. CASE look \notin SuiteBoundary \cup {"eof"}
  BY <1>5, RecoverTraces DEF ParseSuite
<1> QED
  BY <1>3, <1>4, <1>5

\* A loop that goes on after an item of its own.
LEMMA LoopTraces ==
  ASSUME ParserInv, Traced, stack # <<>>, look \in TestBoundary, Top.task \in {"core", "pipeline", "test"},
         NEW fails, Keep(fails), NEW next \in PlainTasks, Then(Append(Start(look), next)),
         next.task = Top.task, next.seen = Top.seen \cup {look},
         look \in MayContain(Top.task),
         look = "request" => Top.task = "test",
         Misplaced(look, [kind |-> Top.task, seen |-> Top.seen]) => failed'
  PROVE  Traced'
<1>1. Top.task \in Loops /\ Inside(Top.task) = Top.task
  BY DEF Loops, Inside
<1>2. Top.task \notin {"consume", "options", "suite", "method"} \cup Idlers
  BY DEF Idlers, Loops, Names
<1>3. ASSUME NEW q \in Outlines, NEW r \in Outlines, Leads(Top, q, r), Agrees(outline, q),
             ~ failed'
      PROVE  /\ look \in MayContain(Innermost(outline).kind)
             /\ ~ Misplaced(look, Innermost(outline))
             /\ Leads(next, After(outline, look), r)
  <2>1. /\ Innermost(q).kind = Top.task /\ Innermost(q).seen = Top.seen
        /\ Agrees(Closed(q), r)
    BY <1>1, <1>2, <1>3 DEF Leads, Accepts, Result
  <2>2. /\ Innermost(outline) = Innermost(q) /\ Closed(outline) = Closed(q)
        /\ outline \in Outlines
    BY <1>3, AgreeingOutlines
  <2>3. look \in MayContain(Innermost(outline).kind)
    BY <2>1, <2>2
  <2>4. ~ Misplaced(look, Innermost(outline))
    BY <1>3, <2>1, <2>2 DEF Misplaced
  <2> DEFINE after == After(outline, look)
  <2>5. /\ after.keyword = IF look = "request" THEN "either" ELSE "none"
        /\ Innermost(after).kind = Top.task
        /\ Innermost(after).seen = Top.seen \cup {look}
        /\ Closed(after) = Closed(q)
    BY <2>1, <2>2, <2>3, <2>4, AfterItem
  <2> HIDE DEF after
  <2>6. \/ after.keyword = "none"
        \/ next.task = "test" /\ after.keyword = "either"
    BY <2>5
  <2>7. Accepts(next, after)
    BY <1>1, <1>2, <2>5, <2>6 DEF Accepts
  <2>8. Agrees(Result(next, after), r)
    BY <1>1, <1>2, <2>1, <2>5 DEF Result
  <2>9. Leads(next, after, r)
    BY <1>2, <2>7, <2>8 DEF Leads
  <2> QED
    BY <2>3, <2>4, <2>9 DEF after
<1> QED
  BY <1>3, ItemTraces

\* What such a loop has read, while there is no error.
LEMMA LoopHasRead ==
  ASSUME ParserInv, Traced, stack # <<>>, Top.task \in {"core", "pipeline", "test"}, ~ failed
  PROVE  Top.seen \subseteq MayContain(Top.task)
<1>1. PICK q \in Outlines, p \in Outlines : Agrees(outline, q) /\ Path(stack, q, p)
  BY DEF Traced
<1>2. stack \in Seq(TasksAfter(failed))
  BY DEF ParserInv
<1>3. PICK r \in Outlines : Leads(Top, q, r)
  BY <1>1, <1>2, FirstOfPath DEF Top
<1>4. Innermost(q).kind = Top.task /\ Innermost(q).seen = Top.seen
  BY <1>3 DEF Leads, Accepts, Loops, Inside
<1>5. Innermost(q) \in Blocks
  BY OutlineParts
<1> QED
  BY <1>4, <1>5 DEF Blocks

\* core_block and pipeline_block
LEMMA BlockTraces ==
  ASSUME ParserInv, Traced, NEW kind \in {"core", "pipeline"}, NEW fails \in BOOLEAN,
         ParseBlock(kind, fails), kind = "pipeline" => (fails <=> Top.seen = {})
  PROVE  Traced'
<1> SUFFICES ASSUME ~ failed'
             PROVE  Traced'
  BY FailureEndsTrace
<1>1. stack # <<>> /\ Top.task = kind
  BY DEF ParseBlock, Doing
<1> DEFINE ends == {"}"} \cup OuterBlockBoundary
<1>2. \/ look = "test" /\ Keep(FALSE) /\ Then(Append(Start("test"), Items(kind, {"test"})))
      \/ Recover(ends \cup {"test"})
      \/ Leave(ends, fails)
  BY DEF ParseBlock
<1> HIDE DEF ends
<1>3. CASE Recover(ends \cup {"test"})
  BY <1>3, RecoverTraces
<1>4. CASE look = "test" /\ Keep(FALSE) /\ Then(Append(Start("test"), Items(kind, {"test"})))
  <2>1. Top.seen \subseteq {"test"}
    <3>1. ~ failed
      BY <1>4, OutlineStays
    <3> QED
      BY <1>1, <3>1, LoopHasRead DEF MayContain
  <2> DEFINE next == Items(kind, {"test"})
  <2>2. next \in PlainTasks
    BY PlainConstructors DEF Tokens, RecoveryBoundary, ContainerBoundary, TestBoundary,
                             SuiteBoundary
  <2>3. next.task = Top.task /\ next.seen = Top.seen \cup {look}
    BY <1>1, <1>4, <2>1 DEF Items
  <2>4. Keep(FALSE) /\ Then(Append(Start(look), next))
    BY <1>4
  <2> HIDE DEF next
  <2>5. look \in TestBoundary /\ look \in MayContain(Top.task)
    BY <1>1, <1>4 DEF TestBoundary, SuiteBoundary, OuterBlockBoundary, MayContain
  <2>6. ~ Misplaced(look, [kind |-> Top.task, seen |-> Top.seen])
    BY <1>4 DEF Misplaced
  <2> QED
    BY <1>1, <1>4, <2>2, <2>3, <2>4, <2>5, <2>6, LoopTraces
<1>5. CASE Leave(ends, fails)
  <2>1. ~ fails /\ ~ failed
    BY <1>5 DEF Leave, Keep, ParserInv
  <2>2. Top.seen \subseteq {"test"}
    BY <1>1, <2>1, LoopHasRead DEF MayContain
  <2>3. MustContain(Top.task) \subseteq Top.seen
    BY <1>1, <2>1, <2>2 DEF MustContain
  <2> QED
    BY <1>1, <1>5, <2>3, LeaveTraces DEF Loops
<1> QED
  BY <1>2, <1>3, <1>4, <1>5

\* parse_test
LEMMA TestTraces ==
  ASSUME ParserInv, Traced, ParseTest
  PROVE  Traced'
<1> SUFFICES ASSUME ~ failed'
             PROVE  Traced'
  BY FailureEndsTrace
<1>1. stack # <<>> /\ Top.task = "test" /\ Top.seen \in SUBSET Tokens
  BY TopFields DEF ParseTest, Doing
<1> DEFINE ends == {"}"} \cup SuiteBoundary
           next == Items("test", Top.seen \cup {look})
<1>2. \/ /\ look \in {"request", "expect"}
         /\ Keep(look = "request" /\ "expect" \in Top.seen)
         /\ Then(Append(Start(look), next))
      \/ Recover(ends \cup {"request", "expect"})
      \/ Leave(ends, Top.seen # {"request", "expect"})
  BY DEF ParseTest
<1> HIDE DEF ends
<1>3. CASE Recover(ends \cup {"request", "expect"})
  BY <1>3, RecoverTraces
<1>4. CASE /\ look \in {"request", "expect"}
           /\ Keep(look = "request" /\ "expect" \in Top.seen)
           /\ Then(Append(Start(look), next))
  <2>1. next \in PlainTasks /\ next.task = Top.task /\ next.seen = Top.seen \cup {look}
    <3>1. Top.seen \cup {look} \in SUBSET Tokens
      BY <1>1 DEF ParserInv
    <3> QED
      BY <1>1, <3>1, PlainConstructors DEF Items
  <2>2. look \in TestBoundary /\ look \in MayContain(Top.task)
    BY <1>1, <1>4 DEF TestBoundary, MayContain
  <2>3. ~ Misplaced(look, [kind |-> Top.task, seen |-> Top.seen])
    BY <1>4 DEF Misplaced, Keep
  <2> HIDE DEF next
  <2> QED
    BY <1>1, <1>4, <2>1, <2>2, <2>3, LoopTraces
<1>5. CASE Leave(ends, Top.seen # {"request", "expect"})
  <2>1. Top.seen = {"request", "expect"}
    BY <1>5 DEF Leave, Keep, ParserInv
  <2>2. MustContain(Top.task) \subseteq Top.seen
    BY <1>1, <2>1 DEF MustContain
  <2> QED
    BY <1>1, <1>5, <2>2, LeaveTraces DEF Loops
<1> QED
  BY <1>2, <1>3, <1>4, <1>5

\* Where a container or a task with a place of its own is on top, the outline
\* is the one its place begins in.
LEMMA TopBegins ==
  ASSUME NEW q \in Outlines, NEW r \in Outlines, Leads(Top, q, r), Agrees(outline, q),
         Top.task \in Idlers \cup (Loops \ {"test"}) \cup {"consume", "method", "options"}
  PROVE  /\ outline = q /\ q.keyword # "either"
         /\ Top.task \in Idlers \cup Loops => q.keyword = "none"
         /\ Top.task \in {"method", "options"} => q.keyword = "request"
         /\ Top.task \in Loops => Innermost(q).kind = Inside(Top.task) /\ Agrees(Closed(q), r)
         /\ Top.task \in Idlers => Agrees(q, r)
<1>1. Top.task \in Loops \cup Idlers => Top.task \notin {"consume", "method", "options", "suite"}
  BY DEF Idlers, Loops, Names
<1>2. Top.task \in Idlers => Top.task \notin Loops
  BY DEF Idlers, Loops, Names
<1>3. q.keyword # "either"
  BY DEF Leads, Accepts
<1>4. outline = q
  BY <1>3, AgreeingOutlines
<1>5. /\ Top.task \in Idlers \cup Loops => q.keyword = "none"
      /\ Top.task \in {"method", "options"} => q.keyword = "request"
      /\ Top.task \in Loops => Innermost(q).kind = Inside(Top.task)
  BY DEF Leads, Accepts
<1>6. Top.task \in Loops => Agrees(Closed(q), r)
  BY <1>1 DEF Leads, Result
<1>7. Top.task \in Idlers => Agrees(q, r)
  BY <1>1, <1>2 DEF Leads, Result
<1> QED
  BY <1>3, <1>4, <1>5, <1>6, <1>7

\* Short sequences are stacks.
LEMMA RowsAreStacks ==
  /\ IsStack(<<>>)
  /\ \A a : IsStack(<<a>>)
  /\ \A a, b : IsStack(<<a, b>>)
  /\ \A a, b, c, d : IsStack(<<a, b, c, d>>)
<1>1. ASSUME NEW S
      PROVE  /\ <<>> \in Seq(S)
             /\ \A a \in S : <<a>> \in Seq(S)
             /\ \A a, b \in S : <<a, b>> \in Seq(S)
             /\ \A a, b, c, d \in S : <<a, b, c, d>> \in Seq(S)
  OBVIOUS
<1>2. \A a, b, c, d : a \in {a, b, c, d} /\ b \in {a, b, c, d}
                     /\ c \in {a, b, c, d} /\ d \in {a, b, c, d}
  OBVIOUS
<1> QED
  BY <1>1, <1>2 DEF IsStack

\* The end of a container.
LEMMA CloseTraces ==
  ASSUME ParserInv, Traced, stack # <<>>, Top.task \in {"array", "object", "fields"},
         NEW bracket \in {"}", "]"}, Top.task = "array" <=> bracket = "]",
         NEW ends, Close(bracket, ends)
  PROVE  Traced'
<1> DEFINE tasks == <<Consume(bracket), Task("exit")>>
<1>1. /\ failed => failed'
      /\ ~ failed' => outline' = outline
      /\ Then(tasks)
  BY OutlineStays DEF Close
<1>2. ASSUME NEW q \in Outlines, NEW r \in Outlines, Leads(Top, q, r), ~ failed',
             Agrees(outline, q)
      PROVE  Agrees(outline', q) /\ Path(tasks, q, r)
  <2>1. /\ outline = q /\ q.keyword = "none" /\ Innermost(q).kind = Inside(Top.task)
        /\ Agrees(Closed(q), r)
    BY <1>2, TopBegins DEF Loops
  <2> DEFINE outside == Closed(q)
  <2>2. outside \in Outlines
    BY <2>1, AgreeingOutlines
  <2>3. outside.keyword = "none"
    BY DEF Closed, Outline
  <2>4. Read(q, bracket) = outside
    <3>1. Inside(Top.task) = IF bracket = "]" THEN "[" ELSE "{"
      BY DEF Inside
    <3>2. MustContain(Innermost(q).kind) = {}
      BY <2>1, <3>1 DEF MustContain
    <3> QED
      BY <2>1, <3>1, <3>2, ClosingToken
  <2>5. Agrees(outside, outside)
    BY <2>3 DEF Agrees
  <2> HIDE DEF outside
  <2>6. Leads(Consume(bracket), q, outside)
    BY <2>1, <2>2, <2>4, <2>5, ConsumeLeads
  <2>7. Leads(Task("exit"), outside, r)
    <3> DEFINE t == Task("exit")
    <3>1. t.task = "exit" /\ "exit" \in Idlers /\ "exit" \notin Loops
      BY DEF Task, Idlers, Loops, Names
    <3> HIDE DEF t
    <3>2. Leads(t, outside, r)
      BY <2>1, <2>3, <3>1 DEF Leads, Accepts, Result, outside
    <3> QED
      BY <3>2 DEF t
  <2>8. Path(<<Task("exit")>>, outside, r)
    BY <2>2, <2>7, ShortPath
  <2>9. Path(tasks, q, r)
    BY <1>2, <2>2, <2>6, <2>8, PathsGrow
  <2> QED
    BY <1>1, <1>2, <2>1, <2>9 DEF Agrees
<1>3. IsStack(tasks)
  BY RowsAreStacks
<1> HIDE DEF tasks
<1>4. Continues(tasks)
  BY <1>2 DEF Continues
<1> QED
  BY <1>1, <1>3, <1>4, TracedStep

\* The begin of a container.
LEMMA OpenTraces ==
  ASSUME ParserInv, Traced, stack # <<>>, Top.task \in Idlers,
         NEW bracket \in {"{", "["}, NEW name \in {"array", "object", "fields"},
         name = "array" <=> bracket = "[", Open(bracket, name)
  PROVE  Traced'
<1> SUFFICES ASSUME ~ failed'
             PROVE  Traced'
  BY FailureEndsTrace
<1> DEFINE loop == Task(name)
<1>1. Bump("used", FALSE) /\ look = bracket /\ Then(<<loop>>)
  BY DEF Open, Bump, Use
<1>2. ~ failed /\ outline' = Read(outline, bracket)
  BY <1>1 DEF Bump, ParserInv
<1>3. ASSUME NEW q \in Outlines, NEW r \in Outlines, Leads(Top, q, r), Agrees(outline, q)
      PROVE  \E s \in Outlines : Agrees(outline', s) /\ Path(<<loop>>, s, r)
  <2>1. outline = q /\ q.keyword = "none" /\ Agrees(q, r)
    BY <1>3, TopBegins
  <2> DEFINE within == Opened(q, bracket)
  <2>2. /\ outline' = within /\ within \in Outlines /\ within.keyword = "none"
        /\ Innermost(within).kind = bracket
        /\ Closed(within) = Outline(q.blocks, "none")
    BY <1>2, <2>1, OpeningToken
  <2>3. Closed(within) = q
    BY <2>1, <2>2, OutlineParts
  <2>4. loop.task = name /\ name \in Loops /\ Inside(name) = bracket
    BY DEF Task, Loops, Inside
  <2> HIDE DEF within, loop
  <2>5. Leads(loop, within, r)
    <3>1. loop.task \notin {"core", "pipeline", "test"}
      BY <2>4
    <3>2. Innermost(within).kind = Inside(loop.task) /\ loop.task \in Loops
      BY <2>2, <2>4
    <3>3. Agrees(Closed(within), r)
      BY <2>1, <2>3
    <3> QED
      BY <1>3, <2>2, <3>1, <3>2, <3>3, LoopLeads
  <2>6. Path(<<loop>>, within, r) /\ Agrees(outline', within)
    BY <1>3, <2>2, <2>5, ShortPath DEF Agrees
  <2> QED
    BY <2>2, <2>6
<1>4. IsStack(<<loop>>)
  BY RowsAreStacks
<1>5. Continues(<<loop>>)
  BY <1>3 DEF Continues
<1> QED
  BY <1>1, <1>2, <1>4, <1>5, TracedStep

\* The headers of a request or of an expectation, and the rest of it.
LEMMA HeadersTrace ==
  ASSUME ParserInv, Traced, stack # <<>>, Top.task \in {"request", "expect"},
         NEW name \in {"requestHeaders", "responseHeaders"}, Keep(FALSE),
         Then(<<Consume("headers"), Consume("{"), Task(name), Top>>)
  PROVE  Traced'
<1> DEFINE loop == Task(name)
           tasks == <<Consume("headers"), Consume("{"), loop, Top>>
<1>1. /\ failed => failed'
      /\ ~ failed' => outline' = outline
      /\ Then(tasks)
  BY OutlineStays
<1>2. ASSUME NEW q \in Outlines, NEW r \in Outlines, Leads(Top, q, r), ~ failed',
             Agrees(outline, q)
      PROVE  Agrees(outline', q) /\ Path(tasks, q, r)
  <2>1. outline = q /\ q.keyword = "none"
    BY <1>2, TopBegins DEF Loops
  <2> DEFINE within == Opened(q, "{")
  <2>2. /\ Read(q, "{") = within /\ within \in Outlines /\ within.keyword = "none"
        /\ Innermost(within).kind = "{"
        /\ Closed(within) = Outline(q.blocks, "none")
    BY <2>1, OpeningToken
  <2>3. Closed(within) = q
    BY <2>1, <2>2, OutlineParts
  <2>4. loop.task = name /\ name \in Loops /\ Inside(name) = "{"
    BY DEF Task, Loops, Inside
  <2> HIDE DEF within, loop
  <2>5. Leads(Consume("{"), q, within)
    <3>1. Agrees(within, within)
      BY <2>2 DEF Agrees
    <3> QED
      BY <2>1, <2>2, <3>1, ConsumeLeads
  <2>6. Leads(loop, within, q)
    <3>1. loop.task \notin {"core", "pipeline", "test"}
      BY <2>4
    <3>2. Innermost(within).kind = Inside(loop.task) /\ loop.task \in Loops
      BY <2>2, <2>4
    <3>3. Agrees(Closed(within), q)
      BY <2>1, <2>3 DEF Agrees
    <3> QED
      BY <1>2, <2>2, <3>1, <3>2, <3>3, LoopLeads
  <2>7. Leads(Consume("headers"), q, q)
    <3>1. Read(q, "headers") = q
      BY QuietToken DEF TestBoundary, SuiteBoundary, OuterBlockBoundary, Brackets
    <3> QED
      BY <2>1, <3>1, ConsumeLeads DEF Agrees
  <2>8. Path(<<Top>>, q, r)
    BY <1>2, ShortPath
  <2>9. Path(<<loop, Top>>, within, r)
    BY <1>2, <2>2, <2>6, <2>8, PathsGrow
  <2>10. Path(<<Consume("{"), loop, Top>>, q, r)
    BY <1>2, <2>2, <2>5, <2>9, PathsGrow
  <2>11. Path(tasks, q, r)
    BY <1>2, <2>7, <2>10, PathsGrow
  <2> QED
    BY <1>1, <1>2, <2>1, <2>11 DEF Agrees
<1>3. IsStack(tasks)
  BY RowsAreStacks
<1> HIDE DEF tasks
<1>4. Continues(tasks)
  BY <1>2 DEF Continues
<1> QED
  BY <1>1, <1>3, <1>4, TracedStep

\* A request with a body in braces, or without.
LEMMA OptionsTrace ==
  ASSUME ParserInv, Traced, ParseRequestOptions
  PROVE  Traced'
<1> SUFFICES ASSUME ~ failed'
             PROVE  Traced'
  BY FailureEndsTrace
<1>1. stack # <<>> /\ Top.task = "options"
  BY DEF ParseRequestOptions, Doing
<1>2. ASSUME NEW q \in Outlines, NEW r \in Outlines, Leads(Top, q, r), Agrees(outline, q)
      PROVE  outline = q /\ q.keyword = "request" /\ r = Outline(q.blocks, "either")
  BY <1>1, <1>2, TopBegins DEF Leads
<1>3. CASE look = "{"
  <2> DEFINE loop == Task("request")
  <2>1. Bump("used", FALSE) /\ Then(<<loop>>)
    BY <1>3 DEF ParseRequestOptions, Use
  <2>2. ~ failed /\ outline' = Read(outline, "{")
    BY <1>3, <2>1 DEF Bump, ParserInv
  <2>3. ASSUME NEW q \in Outlines, NEW r \in Outlines, Leads(Top, q, r), Agrees(outline, q)
        PROVE  \E s \in Outlines : Agrees(outline', s) /\ Path(<<loop>>, s, r)
    <3>1. outline = q /\ q.keyword = "request" /\ r = Outline(q.blocks, "either")
      BY <1>2, <2>3
    <3> DEFINE within == Opened(q, "request")
    <3>2. /\ outline' = within /\ within \in Outlines /\ within.keyword = "none"
          /\ Innermost(within).kind = "request"
          /\ Closed(within) = Outline(q.blocks, "none")
      BY <2>2, <3>1, OpeningToken
    <3>3. loop.task = "request" /\ "request" \in Loops /\ Inside("request") = "request"
      BY DEF Task, Loops, Inside
    <3>4. Agrees(Closed(within), r)
      BY <3>1, <3>2 DEF Agrees, Outline
    <3> HIDE DEF within, loop
    <3>5. Leads(loop, within, r)
      <4>1. loop.task \notin {"core", "pipeline", "test"} /\ loop.task \in Loops
        BY <3>3
      <4>2. Innermost(within).kind = Inside(loop.task)
        BY <3>2, <3>3
      <4> QED
        BY <2>3, <3>2, <3>4, <4>1, <4>2, LoopLeads
    <3>6. Path(<<loop>>, within, r) /\ Agrees(outline', within)
      BY <2>3, <3>2, <3>5, ShortPath DEF Agrees
    <3> QED
      BY <3>2, <3>6
  <2>4. IsStack(<<loop>>)
    BY RowsAreStacks
  <2>5. Continues(<<loop>>)
    BY <2>3 DEF Continues
  <2> QED
    BY <1>1, <2>1, <2>2, <2>4, <2>5, TracedStep
<1>4. CASE look # "{"
  <2>1. ~ failed /\ outline' = outline /\ Then(<<>>)
    BY <1>4 DEF ParseRequestOptions, Keep, ParserInv
  <2>2. ASSUME NEW q \in Outlines, NEW r \in Outlines, Leads(Top, q, r), Agrees(outline, q)
        PROVE  Agrees(outline', r) /\ Path(<<>>, r, r)
    <3>1. outline' = Outline(q.blocks, "request") /\ r = Outline(q.blocks, "either")
      BY <1>2, <2>1, <2>2, OutlineParts
    <3> QED
      BY <2>2, <3>1, EmptyPath DEF Agrees, Outline
  <2>3. IsStack(<<>>)
    BY RowsAreStacks
  <2>4. Continues(<<>>)
    BY <2>2 DEF Continues
  <2> QED
    BY <1>1, <2>1, <2>3, <2>4, TracedStep
<1> QED
  BY <1>3, <1>4

\* A token that has to be there.
LEMMA ConsumeTraces ==
  ASSUME ParserInv, Traced, ParseConsume
  PROVE  Traced'
<1> SUFFICES ASSUME ~ failed'
             PROVE  Traced'
  BY FailureEndsTrace
<1>1. stack # <<>> /\ Top.task = "consume" /\ Then(<<>>)
  BY DEF ParseConsume, Doing
<1>2. ~ failed /\ look = Top.token /\ outline' = Read(outline, Top.token)
  BY DEF ParseConsume, Use, Bump, Keep, ParserInv
<1>3. ASSUME NEW q \in Outlines, NEW r \in Outlines, Leads(Top, q, r), Agrees(outline, q)
      PROVE  Agrees(outline', r) /\ Path(<<>>, r, r)
  <2>1. outline = q
    BY <1>1, <1>3, TopBegins
  <2>2. "consume" \notin Loops
    BY DEF Loops
  <2>3. Agrees(Read(q, Top.token), r)
    BY <1>1, <1>3, <2>2 DEF Leads, Result
  <2> QED
    BY <1>2, <1>3, <2>1, <2>3, EmptyPath
<1>4. IsStack(<<>>)
  BY RowsAreStacks
<1>5. Continues(<<>>)
  BY <1>3 DEF Continues
<1> QED
  BY <1>1, <1>2, <1>4, <1>5, TracedStep

\* The tokens that are used for a value, a name, a type or a sign are quiet.
LEMMA QuietSteps ==
  ASSUME ParserInv, Traced
  PROVE  /\ \A fails : Keep(fails) => Quiet
         /\ \A fails : Bump("used", fails)
                /\ look \in Tokens \ (TestBoundary \cup Brackets) => Quiet
         /\ DiscardTerminal => failed'
         /\ \A fails : fails /\ Keep(fails) => failed'
         /\ Scalars \cup ObjectKeys \cup Identifiers \cup Types \cup
              {",", ":", "=", "->", "contains", "empty", "exact", "method", "integer"}
              \subseteq Tokens \ (TestBoundary \cup Brackets)
<1>1. \A fails : Keep(fails) => Quiet
  BY OutlineStays DEF Quiet
<1>2. \A fails : Bump("used", fails) /\ look \in Tokens \ (TestBoundary \cup Brackets) => Quiet
  BY OutlineStays DEF Quiet
<1>3. DiscardTerminal => failed'
  BY DEF DiscardTerminal, Keep, Bump
<1>4. \A fails : fails /\ Keep(fails) => failed'
  BY DEF Keep
<1>5. Scalars \cup ObjectKeys \cup Identifiers \cup Types \cup
        {",", ":", "=", "->", "contains", "empty", "exact", "method", "integer"}
        \subseteq Tokens \ (TestBoundary \cup Brackets)
  BY DEF Scalars, ObjectKeys, Identifiers, Types, Tokens, RecoveryBoundary, TestBoundary,
         SuiteBoundary, OuterBlockBoundary, Brackets
<1> QED
  BY <1>1, <1>2, <1>3, <1>4, <1>5

\* The names of the idle tasks, and tokens that leave the outline alone.
LEMMA IdleNames ==
  /\ \A n \in {"statusValue", "headerTest", "bodyAssertion", "objectAssertion", "fieldType",
               "assertionType", "captureName", "objectValue", "arraySeparator", "comma", "exit"} :
       n \in Idlers /\ Idle(Task(n))
  /\ \A token \in {"string", "=", "tstring", "status", "body", "query"} : Idle(Consume(token))
  /\ {"value", "comparison", "capture"} \subseteq Idlers
<1>1. {"statusValue", "headerTest", "bodyAssertion", "objectAssertion", "fieldType",
       "assertionType", "captureName", "objectValue", "arraySeparator", "comma", "exit"}
        \subseteq Idlers
  BY DEF Idlers, Names, Loops
<1>2. {"string", "=", "tstring", "status", "body", "query"} \cap (TestBoundary \cup Brackets) = {}
  BY DEF TestBoundary, SuiteBoundary, OuterBlockBoundary, Brackets
<1> QED
  BY <1>1, <1>2, PushedAreIdle DEF Idlers

\* The functions of a request.
LEMMA RequestsTrace ==
  ASSUME ParserInv, Traced, ParseHttpMethod \/ ParseRequestSections \/ ParseRequestHeaders
  PROVE  Traced'
<1> SUFFICES ASSUME ~ failed'
             PROVE  Traced'
  BY FailureEndsTrace
<1>1. CASE ParseHttpMethod
  <2>1. stack # <<>> /\ Top.task = "method" /\ Then(<<>>)
    BY <1>1 DEF ParseHttpMethod, Doing
  <2>2. Bump("used", FALSE) /\ look = "method"
    BY <1>1, QuietSteps DEF ParseHttpMethod, Use
  <2>3. Quiet
    BY <2>2, QuietSteps
  <2> QED
    BY <2>1, <2>3, PopStep
<1>2. CASE ParseRequestSections
  <2>1. stack # <<>> /\ Top.task = "request"
    BY <1>2 DEF ParseRequestSections, Doing
  <2>2. Top.task \in Loops \ {"test", "array", "object", "fields", "core", "pipeline"}
    BY <2>1 DEF Loops
  <2>3. CASE Keep(FALSE) /\ Then(<<Consume("headers"), Consume("{"), Task("requestHeaders"), Top>>)
    BY <2>1, <2>3, HeadersTrace
  <2>4. CASE /\ look \in {"query", "body"} /\ Keep(FALSE)
             /\ Then(<<Consume(look), Task("objectValue"), Top>>)
    <3>1. Idle(Consume(look)) /\ Idle(Task("objectValue")) /\ Carries(Top) /\ Quiet
      BY <2>4, IdleNames, IdleCarries, QuietSteps
    <3> QED
      BY <2>1, <2>2, <2>4, <3>1, IdleStep
  <2>5. \A known : Recover(known) => Traced'
    BY RecoverTraces
  <2>6. \A ends : Leave(ends, FALSE) => Traced'
    BY <2>1, <2>2, LeaveTraces
  <2> QED
    BY <1>2, <2>3, <2>4, <2>5, <2>6 DEF ParseRequestSections
<1>3. CASE ParseRequestHeaders
  <2>1. stack # <<>> /\ Top.task = "requestHeaders"
    BY <1>3 DEF ParseRequestHeaders, Doing
  <2>2. Top.task \in Loops \ {"test", "array", "object", "fields", "core", "pipeline"}
    BY <2>1 DEF Loops
  <2>3. CASE /\ Keep(FALSE)
             /\ Then(<<Consume("string"), Consume("="), Value(ObjectEntryStops), Task("comma"), Top>>)
    <3>1. /\ Idle(Consume("string")) /\ Idle(Consume("=")) /\ Idle(Value(ObjectEntryStops))
          /\ Idle(Task("comma")) /\ Carries(Top) /\ Quiet
      BY <2>3, IdleNames, PushedAreIdle, IdleCarries, QuietSteps
    <3> QED
      BY <2>1, <2>2, <2>3, <3>1, IdleStep
  <2>4. \A ends : Leave(ends, FALSE) => Traced'
    BY <2>1, <2>2, LeaveTraces
  <2> QED
    BY <1>3, <2>3, <2>4 DEF ParseRequestHeaders
<1> QED
  BY <1>1, <1>2, <1>3

\* The functions of an expectation, but for its fields.
LEMMA ExpectationsTrace ==
  ASSUME ParserInv, Traced,
         \/ ParseExpectation \/ ParseStatusValue \/ ParseResponseHeaders \/ ParseHeaderTest
         \/ ParseBodyAssertion
  PROVE  Traced'
<1> SUFFICES ASSUME ~ failed'
             PROVE  Traced'
  BY FailureEndsTrace
<1>1. CASE ParseExpectation
  <2>1. stack # <<>> /\ Top.task = "expect"
    BY <1>1 DEF ParseExpectation, Doing
  <2>2. Top.task \in Loops \ {"test", "array", "object", "fields", "core", "pipeline"}
    BY <2>1 DEF Loops
  <2>3. /\ Idle(Consume("status")) /\ Idle(Consume("=")) /\ Idle(Consume("body"))
        /\ Idle(Task("statusValue")) /\ Idle(Task("comma")) /\ Idle(Task("bodyAssertion"))
        /\ Carries(Top) /\ (Keep(FALSE) => Quiet)
    BY IdleNames, IdleCarries, QuietSteps
  <2>4. CASE /\ Keep(FALSE)
             /\ Then(<<Consume("status"), Consume("="), Task("statusValue"), Task("comma"), Top>>)
    BY <2>1, <2>2, <2>3, <2>4, IdleStep
  <2>5. CASE Keep(FALSE) /\ Then(<<Consume("headers"), Consume("{"), Task("responseHeaders"), Top>>)
    BY <2>1, <2>5, HeadersTrace
  <2>6. CASE Keep(FALSE) /\ Then(<<Consume("body"), Task("bodyAssertion"), Top>>)
    BY <2>1, <2>2, <2>3, <2>6, IdleStep
  <2>7. \A known : Recover(known) => Traced'
    BY RecoverTraces
  <2>8. \A ends : Leave(ends, FALSE) => Traced'
    BY <2>1, <2>2, LeaveTraces
  <2> QED
    BY <1>1, <2>4, <2>5, <2>6, <2>7, <2>8 DEF ParseExpectation
<1>2. CASE ParseStatusValue
  <2>1. stack # <<>> /\ Top.task \in Idlers /\ Then(<<>>)
    BY <1>2, IdleNames DEF ParseStatusValue, Doing
  <2>2. Bump("used", FALSE) /\ look = "integer"
    BY <1>2, QuietSteps DEF ParseStatusValue, Use
  <2>3. Quiet
    BY <2>2, QuietSteps
  <2> QED
    BY <2>1, <2>3, IdleStep
<1>3. CASE ParseResponseHeaders
  <2>1. stack # <<>> /\ Top.task = "responseHeaders"
    BY <1>3 DEF ParseResponseHeaders, Doing
  <2>2. Top.task \in Loops \ {"test", "array", "object", "fields", "core", "pipeline"}
    BY <2>1 DEF Loops
  <2>3. CASE Keep(FALSE) /\ Then(<<Consume("string"), Task("headerTest"), Task("comma"), Top>>)
    <3>1. /\ Idle(Consume("string")) /\ Idle(Task("headerTest")) /\ Idle(Task("comma"))
          /\ Carries(Top) /\ Quiet
      BY <2>3, IdleNames, IdleCarries, QuietSteps
    <3> QED
      BY <2>1, <2>2, <2>3, <3>1, IdleStep
  <2>4. \A ends : Leave(ends, FALSE) => Traced'
    BY <2>1, <2>2, LeaveTraces
  <2> QED
    BY <1>3, <2>3, <2>4 DEF ParseResponseHeaders
<1>4. CASE ParseHeaderTest
  <2>1. stack # <<>> /\ Top.task \in Idlers
    BY <1>4, IdleNames DEF ParseHeaderTest, Doing
  <2>2. /\ look \in {":", "=", "contains"} /\ Bump("used", FALSE)
        /\ Then(<<Consume("tstring")>>) \/ Then(<<Consume("string")>>)
    BY <1>4, QuietSteps DEF ParseHeaderTest, Use
  <2>3. Quiet
    BY <2>2, QuietSteps
  <2>4. Carries(Consume("tstring")) /\ Carries(Consume("string"))
    BY <2>1, IdleNames, IdleCarries
  <2> QED
    BY <2>1, <2>2, <2>3, <2>4, IdleStep
<1>5. CASE ParseBodyAssertion
  <2>1. stack # <<>> /\ Top.task \in Idlers
    BY <1>5, IdleNames DEF ParseBodyAssertion, Doing
  <2>2. \/ Keep(FALSE)
        \/ look \in {"empty", "=", "contains", "exact"} /\ Bump("used", FALSE)
    BY <1>5 DEF ParseBodyAssertion, Use
  <2>3. Quiet
    BY <2>2, QuietSteps
  <2>4. \/ Then(<<Task("comma")>>) \/ Then(<<Consume("string"), Task("comma")>>)
        \/ Then(<<Task("objectAssertion")>>)
    BY <1>5 DEF ParseBodyAssertion
  <2>5. Idle(Consume("string")) /\ Carries(Task("comma")) /\ Carries(Task("objectAssertion"))
    BY <2>1, IdleNames, IdleCarries
  <2> QED
    BY <2>1, <2>3, <2>4, <2>5, IdleStep
<1> QED
  BY <1>1, <1>2, <1>3, <1>4, <1>5

\* The parts of a field.
LEMMA FieldPartsTrace ==
  ASSUME ParserInv, Traced,
         \/ ParseFieldType \/ ParseAssertionType \/ ParseComparison \/ ParseCapture
         \/ ParseCaptureName
  PROVE  Traced'
<1> SUFFICES ASSUME ~ failed'
             PROVE  Traced'
  BY FailureEndsTrace
<1>1. stack # <<>> /\ Top.task \in Idlers
  BY IdleNames
     DEF ParseFieldType, ParseAssertionType, ParseComparison, ParseCapture, ParseCaptureName, Doing
<1>2. Quiet
  <2>1. ~ DiscardTerminal
    BY QuietSteps
  <2>2. \/ \E fails : Keep(fails)
        \/ /\ \E fails : Bump("used", fails)
           /\ look \in Identifiers \cup Types \cup {":", "=", "->"}
    BY <2>1 DEF ParseFieldType, ParseAssertionType, ParseComparison, ParseCapture,
                ParseCaptureName, Use
  <2> QED
    BY <2>2, QuietSteps
<1> DEFINE untyped == FieldEnd("comparison", "none", FALSE)
           typed == FieldEnd("comparison", look, FALSE)
           compared == FieldEnd("capture", Top.type, TRUE)
           present == FieldEnd("capture", Top.type, FALSE)
<1>3. /\ Carries(untyped) /\ Carries(typed) /\ Carries(compared) /\ Carries(present)
      /\ Carries(Task("assertionType")) /\ Carries(Task("captureName"))
      /\ Idle(Value(Tokens)) /\ Idle(Task("objectAssertion"))
  BY <1>1, PushedAreIdle, IdleNames, IdleCarries
<1>4. \/ Then(<<>>) \/ Then(<<Task("assertionType")>>) \/ Then(<<untyped>>) \/ Then(<<typed>>)
      \/ Then(<<Value(Tokens), compared>>) \/ Then(<<present>>)
      \/ Then(<<Task("objectAssertion"), compared>>) \/ Then(<<Task("captureName")>>)
  BY DEF ParseFieldType, ParseAssertionType, ParseComparison, ParseCapture, ParseCaptureName
<1> HIDE DEF untyped, typed, compared, present
<1> QED
  BY <1>1, <1>2, <1>3, <1>4, IdleStep

\* The entries of objects and arrays, and the fields of an assertion.
LEMMA ContainersTrace ==
  ASSUME ParserInv, Traced, ParseObjectEntries \/ ParseArray \/ ParseFields
  PROVE  Traced'
<1> SUFFICES ASSUME ~ failed'
             PROVE  Traced'
  BY FailureEndsTrace
<1>1. stack # <<>> /\ Top.task \in {"object", "array", "fields"}
  BY DEF ParseObjectEntries, ParseArray, ParseFields, Doing
<1>2. Top.task \in Loops \ {"test"}
  BY <1>1 DEF Loops
<1>3. /\ Idle(Consume("=")) /\ Idle(Task("comma")) /\ Idle(Value(ObjectEntryStops))
      /\ Idle(Value(ArrayItemStops)) /\ Idle(Task("arraySeparator")) /\ Idle(Task("fieldType"))
      /\ Carries(Top) /\ ~ DiscardTerminal
  BY IdleNames, PushedAreIdle, IdleCarries, QuietSteps
<1>4. Keep(FALSE) \/ (Bump("used", FALSE) /\ look \in ObjectKeys) => Quiet
  BY QuietSteps
<1>5. CASE ParseObjectEntries
  <2>1. Top.task = "object"
    BY <1>5 DEF ParseObjectEntries, Doing
  <2>2. Close("}", ContainerBoundary) => Traced'
    BY <1>1, <2>1, CloseTraces
  <2>3. CASE /\ Bump("used", FALSE) /\ look \in ObjectKeys
             /\ Then(<<Consume("="), Value(ObjectEntryStops), Task("comma"), Top>>)
    BY <1>1, <1>2, <1>3, <1>4, <2>3, IdleStep
  <2> QED
    BY <1>3, <1>5, <2>2, <2>3 DEF ParseObjectEntries, Use
<1>6. CASE ParseArray
  <2>1. Top.task = "array"
    BY <1>6 DEF ParseArray, Doing
  <2>2. Close("]", ContainerBoundary) => Traced'
    BY <1>1, <2>1, CloseTraces
  <2>3. CASE Keep(FALSE) /\ Then(<<Value(ArrayItemStops), Task("arraySeparator"), Top>>)
    BY <1>1, <1>2, <1>3, <1>4, <2>3, IdleStep
  <2> QED
    BY <1>3, <1>6, <2>2, <2>3 DEF ParseArray
<1>7. CASE ParseFields
  <2>1. Top.task = "fields"
    BY <1>7 DEF ParseFields, Doing
  <2>2. Close("}", ContainerBoundary) => Traced'
    BY <1>1, <2>1, CloseTraces
  <2>3. CASE /\ Bump("used", FALSE) /\ look \in ObjectKeys
             /\ Then(<<Task("fieldType"), Task("comma"), Top>>)
    BY <1>1, <1>2, <1>3, <1>4, <2>3, IdleStep
  <2> QED
    BY <1>3, <1>7, <2>2, <2>3 DEF ParseFields, Use
<1> QED
  BY <1>5, <1>6, <1>7

\* Where a container may begin.
LEMMA ValuesTrace ==
  ASSUME ParserInv, Traced,
         ParseValue \/ ParseObjectValue \/ ParseObjectAssertion \/ ParseArraySeparator
  PROVE  Traced'
<1> SUFFICES ASSUME ~ failed'
             PROVE  Traced'
  BY FailureEndsTrace
<1>1. stack # <<>> /\ Top.task \in Idlers
  BY IdleNames
     DEF ParseValue, ParseObjectValue, ParseObjectAssertion, ParseArraySeparator, Doing
<1>2. /\ Open("[", "array") => Traced'
      /\ \A name \in {"object", "fields"} : Open("{", name) => Traced'
  BY <1>1, OpenTraces
<1>3. ~ Keep(TRUE)
  BY QuietSteps
<1>4. CASE Then(<<>>) /\ (Keep(FALSE) \/ (Bump("used", FALSE) /\ look \in Scalars \cup {","}))
  <2>1. Quiet
    BY <1>4, QuietSteps
  <2> QED
    BY <1>1, <1>4, <2>1, IdleStep
<1> QED
  BY <1>2, <1>3, <1>4
     DEF ParseValue, ParseObjectValue, ParseObjectAssertion, ParseArraySeparator, OpenBraces, Use

\* Single tokens; nothing is discarded before the first error.
LEMMA TokensTrace ==
  ASSUME ParserInv, Traced,
         ParseComma \/ Synchronize \/ ExitNesting \/ SkipBalancedContainer
  PROVE  Traced'
<1> SUFFICES ASSUME ~ failed'
             PROVE  Traced'
  BY FailureEndsTrace
<1>1. stack # <<>> /\ Top.task \in {"comma", "sync", "exit", "skip"}
  BY DEF ParseComma, Synchronize, ExitNesting, SkipBalancedContainer, Doing
<1>2. CASE Top.task \in {"sync", "skip"}
  <2>1. failed
    BY <1>1, <1>2, TopFields
  <2>2. failed'
    BY <1>2, <2>1 DEF ParseComma, Synchronize, ExitNesting, SkipBalancedContainer, Doing, Keep, Bump
  <2> QED
    BY <2>2, FailureEndsTrace
<1>3. CASE Top.task \in {"comma", "exit"}
  <2>1. Then(<<>>) /\ (Keep(FALSE) \/ (Bump("used", FALSE) /\ look = ","))
    BY <1>3 DEF ParseComma, Synchronize, ExitNesting, SkipBalancedContainer, Doing, Use
  <2>2. Quiet
    BY <2>1, QuietSteps
  <2>3. Top.task \in Idlers
    BY <1>3, IdleNames
  <2> QED
    BY <1>1, <2>1, <2>2, <2>3, IdleStep
<1> QED
  BY <1>1, <1>2, <1>3

\* Every step goes on along the path.
LEMMA NextTraced ==
  ParserInv /\ Balanced /\ Traced /\ [ParserNext]_parserVars => Traced'
<1>1. ParserInv /\ Traced /\ UNCHANGED parserVars => Traced'
  BY DEF parserVars, Traced
<1>2. ParserInv /\ Traced /\ ParseCoreBlock => Traced'
  BY BlockTraces DEF ParseCoreBlock
<1>3. ParserInv /\ Traced /\ ParsePipelineBlock => Traced'
  BY BlockTraces DEF ParsePipelineBlock
<1> QED
  BY <1>1, <1>2, <1>3, SuiteTraces, TestTraces, OptionsTrace, RequestsTrace, ExpectationsTrace,
     FieldPartsTrace, ContainersTrace, ValuesTrace, ConsumeTraces, TokensTrace DEF ParserNext

\* At the beginning, a suite is to come.
LEMMA FirstIsTraced == ParserInit => Traced
<1> SUFFICES ASSUME ParserInit
             PROVE  Traced
  OBVIOUS
<1> DEFINE begin == [kind |-> "suite", seen |-> {}]
           end == [kind |-> "suite", seen |-> {"core"}]
           goal == Outline(<<end>>, "none")
           t == Suite(FALSE, FALSE)
<1>1. begin \in Blocks /\ end \in Blocks
  BY DEF Blocks, TestBoundary, SuiteBoundary, OuterBlockBoundary, MayContain
<1>2. begin.kind = "suite" /\ begin.seen = {} /\ end.seen = {"core"}
  OBVIOUS
<1>3. t.task = "suite" /\ ~ t.hasBlocks
  BY DEF Suite
<1>4. EmptyOutline = Outline(<<begin>>, "none")
  BY DEF EmptyOutline
<1> HIDE DEF begin, end, t
<1>5. ASSUME NEW b \in Blocks
      PROVE  /\ Outline(<<b>>, "none") \in Outlines
             /\ Outline(<<b>>, "none").keyword = "none"
             /\ Outline(<<b>>, "none").blocks = <<b>>
             /\ Len(<<b>>) = 1 /\ <<b>>[1] = b
             /\ Innermost(Outline(<<b>>, "none")) = b
  <2>1. <<b>> \in Seq(Blocks) /\ Len(<<b>>) = 1 /\ <<b>>[1] = b /\ <<b>> # <<>>
    OBVIOUS
  <2> QED
    BY <2>1 DEF Outlines, Outline, Innermost
<1>6. goal \in Outlines /\ IsEnd(goal)
  BY <1>1, <1>2, <1>5 DEF IsEnd
<1>7. EmptyOutline \in Outlines /\ EmptyOutline.keyword = "none"
      /\ Innermost(EmptyOutline).kind = "suite" /\ Innermost(EmptyOutline).seen = {}
      /\ Len(EmptyOutline.blocks) = 1
  BY <1>1, <1>2, <1>4, <1>5
<1> HIDE DEF goal
<1>8. Leads(t, EmptyOutline, goal)
  BY <1>3, <1>7 DEF Leads, Accepts, Loops, Idlers, Names
<1>9. Path(<<t>>, EmptyOutline, goal)
  BY <1>6, <1>7, <1>8, ShortPath
<1>10. stack = <<t>> /\ outline = EmptyOutline /\ Agrees(outline, EmptyOutline)
  BY <1>7 DEF ParserInit, Agrees, t
<1> QED
  BY <1>6, <1>7, <1>9, <1>10 DEF Traced

\* Where the path ends, a suite has been read.
LEMMA TracedIsAccepted == Traced => AcceptsOnlySuites
<1> SUFFICES ASSUME Traced, ~ failed
             PROVE  /\ outline # Malformed
                    /\ stack = <<>> => /\ Len(outline.blocks) = 1
                                       /\ outline.blocks[1].seen # {}
  BY DEF AcceptsOnlySuites
<1>1. PICK o \in Outlines, p \in Outlines :
        Agrees(outline, o) /\ Path(stack, o, p) /\ IsEnd(p)
  BY DEF Traced
<1>2. outline \in Outlines /\ outline.blocks = o.blocks
  BY <1>1, AgreeingOutlines
<1>3. stack = <<>> => o = p
  BY <1>1, EmptyPath
<1> QED
  BY <1>1, <1>2, <1>3, OutlineParts DEF IsEnd

\* For any nesting limit and any text: what is parsed without an error is a
\* suite.  The tokens used never leave the grammar of blocks, and at the end
\* every block is closed, no pipeline is without a test, no test without a
\* request before an expectation (parse_suite and the parsers of blocks).
THEOREM SuitesAreAccepted == ParserSpec => []AcceptsOnlySuites
<1>1. Balanced /\ Traced /\ ParserInv /\ [ParserNext]_parserVars => (Balanced /\ Traced)'
  BY NextBalanced, NextTraced
<1> QED
  BY <1>1, FirstIsBalanced, FirstIsTraced, TracedIsAccepted, ParserInvariance, PTL DEF ParserSpec

-----------------------------------------------------------------------------
(***************************************************************************)
(* The lexer.  The invariant adds to NoTextIsLost where the tokens end and *)
(* what the loops over comments and broken strings have passed.            *)
(***************************************************************************)
Kinds == {"delimiter", "arrow", "word", "integer", "number", "string", "eof",
          "character", "unterminated", "escape"}
Lexemes == [kind : Kinds, start : Nat, end : Nat]

LexerLoops == {"identifier", "integer", "fraction", "string", "comment", "recover"}

LexerTypes ==
  /\ start \in Nat /\ current \in Nat /\ start <= current
  /\ mode \in LexerLoops \cup {"token", "done"}
  /\ tokens \in Seq(Lexemes)
  /\ errors \in Seq(Lexemes)

TokensAreBehind == \A i \in DOMAIN tokens : tokens[i].end <= Decided

CommentIsOpen ==
  mode = "comment" => OpensComment(start) /\ Without({"newline"}, start, current - 1)

StringIsReported ==
  mode = "recover" =>
    \E i \in DOMAIN errors :
      /\ errors[i].start = start /\ errors[i].end <= current
      /\ Without({"quote", "newline"}, errors[i].end, current - 1)

Accounted ==
  {p \in Nat : InToken(p) \/ Peek(p) \in Blanks \/ InComment(p) \/ IsReported(p)}

LexerInv ==
  LexerTypes /\ TokensAreBehind /\ CommentIsOpen /\ StringIsReported /\ NothingIsLost

-----------------------------------------------------------------------------
\* How a list of lexemes changes: not at all, or by one at its end.
Grows(list, listNext) ==
  \/ listNext = list
  \/ \E l \in Lexemes : listNext = Append(list, l)

\* The bounds of a lexeme of a list.
LEMMA BoundsAreNatural ==
  ASSUME NEW list \in Seq(Lexemes), NEW i \in DOMAIN list
  PROVE  list[i].start \in Nat /\ list[i].end \in Nat
  <1>1. list[i] \in Lexemes
    OBVIOUS
  <1> QED BY <1>1 DEF Lexemes

\* A list that grows keeps its members.
LEMMA GrowthKeeps ==
  ASSUME NEW list \in Seq(Lexemes), NEW listNext, Grows(list, listNext)
  PROVE  /\ listNext \in Seq(Lexemes)
         /\ \A i \in DOMAIN list : i \in DOMAIN listNext /\ listNext[i] = list[i]
  BY DEF Grows

\* What was accounted for stays so, if a new token starts where the lexer has
\* come to.
LEMMA AccountsAreKept ==
  ASSUME LexerInv, source' = source, Grows(tokens, tokens'), Grows(errors, errors'),
         \A i \in DOMAIN tokens' : i \notin DOMAIN tokens => tokens'[i].start >= Decided,
         NEW p \in 0 .. Decided - 1
  PROVE  p \in Accounted'
  <1> USE DEF LexerInv, LexerTypes
  <1>1. /\ \A i \in DOMAIN tokens : i \in DOMAIN tokens' /\ tokens'[i] = tokens[i]
        /\ \A i \in DOMAIN errors : i \in DOMAIN errors' /\ errors'[i] = errors[i]
    BY GrowthKeeps
  <1>2. Decided \in Nat
    BY DEF Decided
  <1>3. \A q : Peek(q)' = Peek(q)
    BY DEF Peek
  <1>4. \A stops, a, b : Without(stops, a, b)' <=> Without(stops, a, b)
    BY <1>3 DEF Without
  <1>5. p \in Accounted
    BY DEF NothingIsLost, Accounted
  <1>6. CASE InToken(p)
    BY <1>1, <1>6 DEF Accounted, InToken, Covers
  <1>7. CASE Peek(p) \in Blanks
    BY <1>3, <1>7 DEF Accounted
  <1>8. CASE IsReported(p)
    BY <1>1, <1>3, <1>4, <1>8 DEF Accounted, IsReported
  <1>9. CASE InComment(p)
    <2>1. PICK q \in 0 .. p : OpensComment(q) /\ ~ InToken(q) /\ Without({"newline"}, q, p)
      BY <1>9 DEF InComment
    <2>2. OpensComment(q)' /\ Without({"newline"}, q, p)'
      BY <1>3, <1>4, <2>1 DEF OpensComment
    <2>3. ~ InToken(q)'
      <3>1. SUFFICES ASSUME NEW i \in DOMAIN tokens', Covers(tokens'[i], q)
                     PROVE  FALSE
        BY DEF InToken
      <3>2. CASE i \in DOMAIN tokens
        BY <1>1, <2>1, <3>1, <3>2 DEF InToken
      <3>3. CASE i \notin DOMAIN tokens
        <4>1. tokens'[i].start >= Decided
          BY <3>3
        <4>2. tokens'[i].start <= q
          BY <3>1 DEF Covers
        <4>3. tokens'[i].start \in Nat
          <5>1. tokens' \in Seq(Lexemes)
            BY GrowthKeeps
          <5> QED BY <5>1, BoundsAreNatural
        <4> QED BY <4>1, <4>2, <4>3, <1>2
      <3> QED BY <3>2, <3>3
    <2> QED BY <2>1, <2>2, <2>3 DEF Accounted, InComment
  <1> QED BY <1>5, <1>6, <1>7, <1>8, <1>9 DEF Accounted

\* Enough for NothingIsLost to be kept: a new token starts where the lexer has
\* come to, and what it goes on over is accounted for.
LEMMA NothingIsLostIsKept ==
  ASSUME LexerInv, source' = source, Grows(tokens, tokens'), Grows(errors, errors'),
         NEW reached \in Nat, Decided' = reached,
         \A i \in DOMAIN tokens' : i \notin DOMAIN tokens => tokens'[i].start >= Decided,
         (Decided .. reached - 1) \subseteq Accounted'
  PROVE  NothingIsLost'
  <1> USE DEF LexerInv, LexerTypes
  <1>1. Decided \in Nat
    BY DEF Decided
  <1>2. \A i \in DOMAIN tokens : i \in DOMAIN tokens' /\ tokens'[i] = tokens[i]
    BY GrowthKeeps
  <1>3. ASSUME NEW i \in DOMAIN tokens', NEW j \in DOMAIN tokens', i < j
        PROVE  tokens'[i].end <= tokens'[j].start
    <2>1. i \in DOMAIN tokens
      BY <1>3 DEF Grows
    <2>2. tokens'[i].end \in Nat /\ tokens'[j].start \in Nat
      <3>1. tokens' \in Seq(Lexemes)
        BY GrowthKeeps
      <3> QED BY <3>1, BoundsAreNatural
    <2>3. CASE j \in DOMAIN tokens
      BY <1>2, <1>3, <2>1, <2>3 DEF NothingIsLost
    <2>4. CASE j \notin DOMAIN tokens
      <3>1. tokens'[i].end <= Decided
        BY <1>2, <2>1 DEF TokensAreBehind
      <3>2. tokens'[j].start >= Decided
        BY <2>4
      <3> QED BY <3>1, <3>2, <2>2, <1>1
    <2> QED BY <2>3, <2>4
  <1>4. ASSUME NEW p \in 0 .. reached - 1
        PROVE  p \in Accounted'
    <2>1. CASE p < Decided
      BY <1>1, <2>1, AccountsAreKept
    <2>2. CASE p >= Decided
      <3>1. p \in Decided .. reached - 1
        BY <1>1, <2>2
      <3> QED BY <3>1
    <2> QED BY <1>1, <2>1, <2>2
  <1> QED BY <1>3, <1>4 DEF NothingIsLost, Accounted

-----------------------------------------------------------------------------
(***************************************************************************)
(* The ways in which a step ends.                                          *)
(***************************************************************************)
\* A token over everything up to the next character.
LEMMA TokenStep ==
  ASSUME LexerInv, NEW kind \in Kinds, NEW next \in Nat, next >= current,
         AddToken(kind, Decided, next), source' = source, start' \in {start, current}
  PROVE  LexerInv'
  <1> USE DEF LexerInv, LexerTypes, AddToken
  <1>1. Decided \in Nat /\ Decided <= current /\ Decided' = next
    BY DEF Decided
  <1>2. Lexeme(kind, Decided, next) \in Lexemes
    BY <1>1 DEF Lexeme, Lexemes
  <1>3. Grows(tokens, tokens') /\ Grows(errors, errors')
    BY <1>2 DEF Grows
  <1>4. LexerTypes'
    BY <1>2
  <1>5. \A i \in DOMAIN tokens' :
          \/ i \in DOMAIN tokens /\ tokens'[i] = tokens[i]
          \/ i \notin DOMAIN tokens /\ tokens'[i] = Lexeme(kind, Decided, next)
    BY <1>2
  <1>6. Len(tokens) + 1 \in DOMAIN tokens'
         /\ tokens'[Len(tokens) + 1] = Lexeme(kind, Decided, next)
    BY <1>2
  <1>7. TokensAreBehind'
    <2> SUFFICES ASSUME NEW i \in DOMAIN tokens' PROVE tokens'[i].end <= next
      BY <1>1 DEF TokensAreBehind
    <2>1. CASE i \in DOMAIN tokens
      <3>1. tokens[i].end \in Nat
        BY <2>1, BoundsAreNatural
      <3> QED BY <1>1, <1>5, <2>1, <3>1 DEF TokensAreBehind
    <2>2. CASE i \notin DOMAIN tokens
      BY <1>5, <2>2 DEF Lexeme
    <2> QED BY <2>1, <2>2
  <1>8. ASSUME NEW p \in Decided .. Decided' - 1
        PROVE  p \in Accounted'
    BY <1>1, <1>6 DEF Accounted, InToken, Covers, Lexeme
  <1>9. \A i \in DOMAIN tokens' : i \notin DOMAIN tokens => tokens'[i].start >= Decided
    BY <1>1, <1>5 DEF Lexeme
  <1>10. NothingIsLost'
    BY <1>1, <1>3, <1>8, <1>9, NothingIsLostIsKept
  <1>11. CommentIsOpen' /\ StringIsReported'
    BY DEF CommentIsOpen, StringIsReported
  <1> QED BY <1>4, <1>7, <1>10, <1>11

\* An error over everything up to the next character, or over the beginning of
\* a string that is then discarded.
LEMMA ErrorStep ==
  ASSUME LexerInv, NEW kind \in Kinds, NEW next \in Nat, next >= current,
         NEW loop \in {"token", "recover"},
         AddError(kind, Decided, next, loop), source' = source,
         start' \in {start, current}, loop = "recover" => start' = Decided
  PROVE  LexerInv'
  <1> USE DEF LexerInv, LexerTypes, AddError
  <1>1. Decided \in Nat /\ Decided <= current
    BY DEF Decided
  <1>2. Lexeme(kind, Decided, next) \in Lexemes
    BY <1>1 DEF Lexeme, Lexemes
  <1>3. Grows(tokens, tokens') /\ Grows(errors, errors')
    BY <1>2 DEF Grows
  <1>4. LexerTypes'
    BY <1>2 DEF LexerLoops
  <1>5. Len(errors) + 1 \in DOMAIN errors'
         /\ errors'[Len(errors) + 1] = Lexeme(kind, Decided, next)
    BY <1>2
  <1>6. Decided' = IF loop = "token" THEN next ELSE Decided
    BY DEF Decided
  <1>7. TokensAreBehind'
    <2> SUFFICES ASSUME NEW i \in DOMAIN tokens PROVE tokens[i].end <= Decided'
      BY DEF TokensAreBehind
    <2>1. tokens[i].end \in Nat
      BY BoundsAreNatural
    <2> QED BY <1>1, <1>6, <2>1 DEF TokensAreBehind
  <1>8. ASSUME NEW p \in Decided .. Decided' - 1
        PROVE  p \in Accounted'
    <2>1. p \in Nat /\ Decided <= p /\ p < next
      BY <1>1, <1>6
    <2> QED BY <1>5, <2>1 DEF Accounted, IsReported, Lexeme
  <1>9. NothingIsLost'
    BY <1>1, <1>3, <1>6, <1>8, NothingIsLostIsKept
  <1>10. CommentIsOpen'
    BY DEF CommentIsOpen
  <1>11. StringIsReported'
    <2>1. CASE loop = "token"
      BY <2>1 DEF StringIsReported
    <2>2. CASE loop = "recover"
      <3>1. /\ errors'[Len(errors) + 1].start = start'
            /\ errors'[Len(errors) + 1].end = current'
        BY <1>5, <2>2 DEF Lexeme
      <3> QED BY <1>4, <1>5, <3>1 DEF StringIsReported, Without
    <2> QED BY <2>1, <2>2
  <1> QED BY <1>4, <1>7, <1>9, <1>10, <1>11

\* One more round of a loop.
LEMMA LoopStep ==
  ASSUME LexerInv, NEW loop \in LexerLoops, NEW next \in Nat, next >= current,
         Continue(loop, next), source' = source, start' = Decided,
         CommentIsOpen', StringIsReported'
  PROVE  LexerInv'
  <1> USE DEF LexerInv, LexerTypes, Continue
  <1>1. Decided \in Nat /\ Decided <= current /\ Decided' = Decided
    BY DEF Decided, LexerLoops
  <1>2. LexerTypes'
    BY <1>1
  <1>3. TokensAreBehind'
    BY <1>1 DEF TokensAreBehind
  <1>4. NothingIsLost'
    BY <1>1, NothingIsLostIsKept DEF Grows
  <1> QED BY <1>2, <1>3, <1>4

\* The end of something that is neither a token nor an error.
LEMMA SkipStep ==
  ASSUME LexerInv, NEW next \in Nat, next >= current,
         Continue("token", next), source' = source, start' \in {start, current},
         (Decided .. next - 1) \subseteq Accounted
  PROVE  LexerInv'
  <1> USE DEF LexerInv, LexerTypes, Continue
  <1>1. Decided \in Nat /\ Decided <= current /\ Decided' = next
    BY DEF Decided
  <1>2. LexerTypes'
    OBVIOUS
  <1>3. TokensAreBehind'
    <2> SUFFICES ASSUME NEW i \in DOMAIN tokens PROVE tokens[i].end <= next
      BY <1>1 DEF TokensAreBehind
    <2>1. tokens[i].end \in Nat
      BY BoundsAreNatural
    <2> QED BY <1>1, <2>1 DEF TokensAreBehind
  <1>4. (Decided .. Decided' - 1) \subseteq Accounted'
    BY <1>1 DEF Accounted, InToken, InComment, OpensComment, IsReported, Without, Peek
  <1>5. NothingIsLost'
    BY <1>1, <1>4, NothingIsLostIsKept DEF Grows
  <1>6. CommentIsOpen' /\ StringIsReported'
    BY DEF CommentIsOpen, StringIsReported
  <1> QED BY <1>2, <1>3, <1>5, <1>6
-----------------------------------------------------------------------------
\* Before the first character there is nothing to lose.
LEMMA LexerInitial == LexerInit => LexerInv
  BY DEF LexerInit, LexerInv, LexerTypes, TokensAreBehind, CommentIsOpen,
         StringIsReported, NothingIsLost, Decided, LexerLoops

\* The start of a lexeme.
LEMMA ScanTokenStep ==
  ASSUME LexerInv, ScanToken
  PROVE  LexerInv'
  <1>1. /\ Decided = current /\ start' = current /\ source' = source
        /\ current \in Nat /\ current + 1 \in Nat /\ current + 2 \in Nat
    BY DEF ScanToken, Decided, LexerInv, LexerTypes
  <1>2. ASSUME NEW kind \in Kinds, NEW next \in {current + 1, current + 2},
               AddToken(kind, current, next)
        PROVE  LexerInv'
    BY <1>1, <1>2, TokenStep DEF AddToken, Kinds
  <1>3. ASSUME NEW next \in {current + 1}, AddError("character", current, next, "token")
        PROVE  LexerInv'
    BY <1>1, <1>3, ErrorStep DEF AddError, Kinds
  <1>4. ASSUME NEW loop \in {"identifier", "integer", "fraction", "string"},
               Continue(loop, current + 1)
        PROVE  LexerInv'
    <2>1. CommentIsOpen' /\ StringIsReported'
      BY <1>4 DEF Continue, CommentIsOpen, StringIsReported
    <2>2. loop \in LexerLoops
      BY DEF LexerLoops
    <2> QED BY <1>1, <1>4, <2>1, <2>2, LoopStep
  <1>5. ASSUME NEW next \in {current + 1, current + 2}, Continue("comment", next),
               \A p \in current .. next - 1 : Peek(p) \in {"hash", "slash"},
               OpensComment(current)
        PROVE  LexerInv'
    <2>1. CommentIsOpen' /\ StringIsReported'
      BY <1>1, <1>5 DEF Continue, CommentIsOpen, StringIsReported, OpensComment, Without, Peek
    <2>2. "comment" \in LexerLoops
      BY DEF LexerLoops
    <2> QED BY <1>1, <1>5, <2>1, <2>2, LoopStep
  <1>6. CASE Peek(current) \in Blanks /\ Continue("token", current + 1)
    <2>1. (current .. (current + 1) - 1) \subseteq Accounted
      BY <1>1, <1>6 DEF Accounted
    <2> QED BY <1>1, <1>6, <2>1, SkipStep
  <1>7. CASE ScanMinus
    BY <1>2, <1>3, <1>4, <1>7 DEF Kinds, ScanMinus, AddToken, AddError, Continue
  <1>8. CASE ScanSlash
    <2>1. CASE Peek(current + 1) = "slash" /\ Continue("comment", current + 2)
      <3>1. \A p \in current .. (current + 2) - 1 : p = current \/ p = current + 1
        BY <1>1
      <3> QED BY <1>5, <1>8, <2>1, <3>1 DEF ScanSlash, OpensComment, Continue
    <2> QED BY <1>3, <1>8, <2>1 DEF ScanSlash, AddError
  <1>9. CASE Peek(current) = "hash" /\ Continue("comment", current + 1)
    <2>1. \A p \in current .. (current + 1) - 1 : p = current
      BY <1>1
    <2> QED BY <1>5, <1>9, <2>1 DEF OpensComment
  <1> QED BY <1>2, <1>3, <1>4, <1>6, <1>7, <1>8, <1>9 DEF Kinds, ScanToken, AddToken, AddError, Continue

\* The rounds and ends of the loops over words and numbers.
LEMMA ScanWordStep ==
  ASSUME LexerInv, ScanIdentifier \/ ScanInteger \/ ScanFraction
  PROVE  LexerInv'
  <1>1. /\ Decided = start /\ start' = start /\ source' = source
        /\ start \in Nat /\ start <= current
        /\ current \in Nat /\ current + 1 \in Nat
    BY DEF ScanIdentifier, ScanInteger, ScanFraction, Decided, LexerInv, LexerTypes
  <1>2. ASSUME NEW loop \in {"identifier", "integer", "fraction"}, Continue(loop, current + 1)
        PROVE  LexerInv'
    <2>1. CommentIsOpen' /\ StringIsReported'
      BY <1>2 DEF Continue, CommentIsOpen, StringIsReported
    <2>2. loop \in LexerLoops
      BY DEF LexerLoops
    <2> QED BY <1>1, <1>2, <2>1, <2>2, LoopStep
  <1>3. ASSUME NEW kind \in Kinds, AddToken(kind, start, current)
        PROVE  LexerInv'
    BY <1>1, <1>3, TokenStep DEF AddToken, Kinds
  <1>4. ASSUME NEW kind \in Kinds, AddError(kind, start, current, "token")
        PROVE  LexerInv'
    BY <1>1, <1>4, ErrorStep DEF AddError, Kinds
  <1>5. CASE ScanIdentifier
    BY <1>2, <1>3, <1>5 DEF Kinds, ScanIdentifier, AddToken, Continue
  <1>6. CASE ScanInteger
    BY <1>2, <1>3, <1>4, <1>6 DEF Kinds, ScanInteger, ParseNumber, AddToken, AddError, Continue
  <1>7. CASE ScanFraction
    BY <1>2, <1>3, <1>4, <1>7 DEF Kinds, ScanFraction, ParseNumber, AddToken, AddError, Continue
  <1> QED BY <1>5, <1>6, <1>7

\* A round of scan_string keeps the invariant.
LEMMA ScanStringStep ==
  ASSUME LexerInv, ScanString
  PROVE  LexerInv'
  <1>1. /\ Decided = start /\ start' = start /\ source' = source
        /\ start \in Nat /\ start <= current
        /\ current \in Nat /\ current + 1 \in Nat /\ current + 2 \in Nat
    BY DEF ScanString, Decided, LexerInv, LexerTypes
  <1>2. ASSUME NEW next \in {current + 1, current + 2}, Continue("string", next)
        PROVE  LexerInv'
    <2>1. CommentIsOpen' /\ StringIsReported'
      BY <1>2 DEF Continue, CommentIsOpen, StringIsReported
    <2>2. "string" \in LexerLoops
      BY DEF LexerLoops
    <2> QED BY <1>1, <1>2, <2>1, <2>2, LoopStep
  <1>3. ASSUME NEW next \in {current + 1}, AddToken("string", start, next)
        PROVE  LexerInv'
    BY <1>1, <1>3, TokenStep DEF AddToken, Kinds
  <1>4. ASSUME NEW kind \in Kinds, NEW next \in {current, current + 1, current + 2},
               NEW loop \in {"token", "recover"}, AddError(kind, start, next, loop)
        PROVE  LexerInv'
    BY <1>1, <1>4, ErrorStep DEF AddError, Kinds
  <1>5. CASE ScanEscape
    BY <1>2, <1>4, <1>5 DEF Kinds, ScanEscape, AddError, Continue
  <1> QED BY <1>2, <1>3, <1>4, <1>5 DEF Kinds, ScanString, AddToken, AddError, Continue

\* A round of the recovery of a string keeps it, and the error covers what is passed over.
LEMMA RecoverStringStep ==
  ASSUME LexerInv, RecoverString
  PROVE  LexerInv'
  <1>1. /\ Decided = start /\ start' = start /\ source' = source
        /\ start \in Nat /\ start <= current
        /\ current \in Nat /\ current + 1 \in Nat
    BY DEF RecoverString, Decided, LexerInv, LexerTypes
  <1>2. PICK i \in DOMAIN errors :
          /\ errors[i].start = start /\ errors[i].end <= current
          /\ Without({"quote", "newline"}, errors[i].end, current - 1)
    BY DEF StringIsReported, RecoverString, LexerInv
  <1>3. errors[i].end \in Nat
    BY BoundsAreNatural DEF LexerInv, LexerTypes
  <1>4. ASSUME NEW p \in start .. current, p < current \/ Peek(current) # "newline"
        PROVE  IsReported(p)
    <2>1. CASE p < errors[i].end
      BY <1>2, <2>1 DEF IsReported
    <2>2. CASE p >= errors[i].end
      <3>1. Peek(p) # "newline"
        BY <1>1, <1>2, <1>3, <1>4, <2>2 DEF Without
      <3>2. Without({"quote", "newline"}, errors[i].end, p - 1)
        BY <1>1, <1>2, <1>3, <1>4 DEF Without
      <3> QED BY <1>1, <1>2, <2>2, <3>1, <3>2 DEF IsReported
    <2> QED BY <1>3, <2>1, <2>2
  <1>5. CASE Peek(current) = "quote" /\ Continue("token", current + 1)
    <2>1. (start .. (current + 1) - 1) \subseteq Accounted
      BY <1>1, <1>4, <1>5 DEF Accounted
    <2> QED BY <1>1, <1>5, <2>1, SkipStep
  <1>6. CASE Continue("token", current)
    <2>1. (start .. current - 1) \subseteq Accounted
      BY <1>1, <1>4 DEF Accounted
    <2> QED BY <1>1, <1>6, <2>1, SkipStep
  <1>7. CASE /\ Peek(current) \notin {"eof", "newline", "quote"}
             /\ Continue("recover", current + 1)
    <2>1. Without({"quote", "newline"}, errors[i].end, current)
      BY <1>1, <1>2, <1>3, <1>7 DEF Without
    <2>2. CommentIsOpen' /\ StringIsReported'
      BY <1>1, <1>2, <1>3, <1>7, <2>1
         DEF Continue, CommentIsOpen, StringIsReported, Without, Peek
    <2>3. "recover" \in LexerLoops
      BY DEF LexerLoops
    <2> QED BY <1>1, <1>7, <2>2, <2>3, LoopStep
  <1> QED BY <1>5, <1>6, <1>7 DEF RecoverString

\* A round of the skipping of a comment keeps it.
LEMMA SkipLineCommentStep ==
  ASSUME LexerInv, SkipLineComment
  PROVE  LexerInv'
  <1>1. /\ Decided = start /\ start' = start /\ source' = source
        /\ start \in Nat /\ start <= current
        /\ current \in Nat /\ current + 1 \in Nat
    BY DEF SkipLineComment, Decided, LexerInv, LexerTypes
  <1>2. OpensComment(start) /\ Without({"newline"}, start, current - 1)
    BY DEF SkipLineComment, CommentIsOpen, LexerInv
  <1>3. CASE Continue("token", current)
    <2>1. ~ InToken(start)
      <3>1. SUFFICES ASSUME NEW i \in DOMAIN tokens, Covers(tokens[i], start)
                     PROVE  FALSE
        BY DEF InToken
      <3>2. tokens[i].end <= start /\ tokens[i].end \in Nat
        BY <1>1, BoundsAreNatural DEF TokensAreBehind, LexerInv, LexerTypes
      <3> QED BY <1>1, <3>1, <3>2 DEF Covers
    <2>2. ASSUME NEW p \in start .. current - 1
          PROVE  p \in Accounted
      <3>1. Without({"newline"}, start, p)
        BY <1>1, <1>2, <2>2 DEF Without
      <3> QED BY <1>1, <1>2, <2>1, <2>2, <3>1 DEF Accounted, InComment
    <2> QED BY <1>1, <1>3, <2>2, SkipStep
  <1>4. CASE Peek(current) \notin {"eof", "newline"} /\ Continue("comment", current + 1)
    <2>1. Without({"newline"}, start, current)
      BY <1>1, <1>2, <1>4 DEF Without
    <2>2. CommentIsOpen' /\ StringIsReported'
      BY <1>1, <1>2, <1>4, <2>1
         DEF Continue, CommentIsOpen, StringIsReported, OpensComment, Without, Peek
    <2>3. "comment" \in LexerLoops
      BY DEF LexerLoops
    <2> QED BY <1>1, <1>4, <2>2, <2>3, LoopStep
  <1> QED BY <1>3, <1>4 DEF SkipLineComment

\* At the end of the text the lexer stops with all of it decided.
LEMMA EndOfFileStep ==
  ASSUME LexerInv, EndOfFile
  PROVE  LexerInv'
  <1> USE DEF LexerInv, LexerTypes
  <1>1. Decided = current /\ Decided' = current
    BY DEF EndOfFile, Decided, LexerInv, LexerTypes
  <1>2. /\ Lexeme("eof", current, current) \in Lexemes
        /\ tokens' = Append(tokens, Lexeme("eof", current, current))
    BY DEF EndOfFile, Kinds, Lexeme, Lexemes
  <1>3. LexerTypes'
    BY <1>2 DEF EndOfFile
  <1>4. TokensAreBehind'
    BY <1>1, <1>2 DEF TokensAreBehind, Lexeme
  <1>5. NothingIsLost'
    <2>1. \A i \in DOMAIN tokens' : i \notin DOMAIN tokens => tokens'[i].start >= Decided
      BY <1>1, <1>2 DEF Lexeme
    <2> QED BY <1>1, <1>2, <2>1, NothingIsLostIsKept DEF EndOfFile, Grows
  <1>6. CommentIsOpen' /\ StringIsReported'
    BY DEF EndOfFile, CommentIsOpen, StringIsReported
  <1> QED BY <1>3, <1>4, <1>5, <1>6

\* The invariant is about the variables of the lexer only.
LEMMA LexerStutters ==
  ASSUME LexerInv, UNCHANGED lexerVars
  PROVE  LexerInv'
  BY DEF lexerVars, LexerInv, LexerTypes, TokensAreBehind, CommentIsOpen, StringIsReported,
         NothingIsLost, Decided, InToken, InComment, IsReported, OpensComment, Without, Peek

-----------------------------------------------------------------------------
\* Whatever the text, its tokens are in order and disjoint, and the lexer has
\* put every character that it has passed into a token, unless it is blank, in
\* a comment, or covered by an error that check_source reports (Lexer::scan).
THEOREM NoTextIsLost == LexerSpec => []NothingIsLost
  <1>1. LexerInit => LexerInv
    BY LexerInitial
  <1>2. LexerInv /\ [LexerNext]_lexerVars => LexerInv'
    BY ScanTokenStep, EndOfFileStep, ScanWordStep, ScanStringStep, RecoverStringStep,
       SkipLineCommentStep, LexerStutters DEF LexerNext
  <1>3. LexerInv => NothingIsLost
    BY DEF LexerInv
  <1> QED BY <1>1, <1>2, <1>3, PTL DEF LexerSpec
=============================================================================
