--------------------------- MODULE ParserRecovery ---------------------------
(***************************************************************************)
(* The recursive-descent parser of rettp-parser and its error recovery.    *)
(* The call stack is explicit: `stack' holds what remains to be done, the  *)
(* innermost call first.  A token is the class the parser tells apart, and *)
(* the token after the current one is any token at all, so that every      *)
(* source text, valid or not, is a behaviour.  Of the AST only what a      *)
(* later decision reads is kept; of the diagnostics, whether there is one. *)
(***************************************************************************)
EXTENDS Naturals, Sequences

CONSTANTS
  MaxNesting,  \* max_nesting_depth
  MaxSkip      \* bound: containers open at once in a skipped container

ASSUME LimitsAssumption == MaxNesting \in Nat /\ MaxSkip \in Nat \ {0}

VARIABLES
  stack,    \* the tasks that remain
  look,     \* the class of the current token
  depth,    \* nesting_depth
  failed,   \* ~ errors.is_empty()
  taken,    \* what the last step did with a token: "none", "used", "discarded"
  outline   \* the blocks that the used tokens opened, while there is no error

parserVars == <<stack, look, depth, failed, taken, outline>>

-----------------------------------------------------------------------------
(***************************************************************************)
(* Tokens.  "tstring" and "tobject" are the types string and object, and   *)
(* "type" any other; "empty" and "contains" are identifiers.  Literals     *)
(* that are neither strings nor integers are "true" (also a key) and       *)
(* "number" (not a key).                                                   *)
(***************************************************************************)
OuterBlockBoundary == {"core", "pipeline"}
SuiteBoundary == OuterBlockBoundary \cup {"test"}
TestBoundary == SuiteBoundary \cup {"request", "expect"}
ExpectationSections == {"status", "headers", "body"}
RequestSections == {"headers", "query", "body"}
ContainerBoundary == TestBoundary \cup RequestSections
RecoveryBoundary ==
  ContainerBoundary \cup
  {"status", "exact", "{", "}", "[", "]", ":", "=", "->", ",", "eof"}

Identifiers == {"identifier", "empty", "contains"}
Types == {"tstring", "tobject", "type", "null"}
Scalars == {"string", "integer", "number", "true", "null"}
ObjectKeys == Identifiers \cup Types \cup {"string", "status", "exact", "method", "true"}

Tokens == RecoveryBoundary \cup ObjectKeys \cup Scalars

-----------------------------------------------------------------------------
(***************************************************************************)
(* The blocks that the used tokens open and close, by a grammar of its own *)
(* that knows no recovery: the open blocks, each with the keywords seen in *)
(* it, and the keyword whose brace is to come.  The properties compare the *)
(* parser with it; the program has nothing like it.                        *)
(***************************************************************************)
Outline(blocks, keyword) == [blocks |-> blocks, keyword |-> keyword]
Malformed == Outline(<<>>, "none")
EmptyOutline == Outline(<<[kind |-> "suite", seen |-> {}]>>, "none")

MayContain(kind) ==
  CASE kind = "suite" -> SuiteBoundary
    [] kind \in {"core", "pipeline"} -> {"test"}
    [] kind = "test" -> {"request", "expect"}
    [] OTHER -> {}

MustContain(kind) ==
  CASE kind = "pipeline" -> {"test"}
    [] kind = "test" -> {"request", "expect"}
    [] OTHER -> {}

Innermost(o) == o.blocks[Len(o.blocks)]
Outer(o) == SubSeq(o.blocks, 1, Len(o.blocks) - 1)

\* A second core, or a request after an expectation.
Misplaced(keyword, block) ==
  \/ keyword = "core" /\ "core" \in block.seen
  \/ keyword = "request" /\ "expect" \in block.seen

ReadKeyword(o, keyword) ==
  LET block == Innermost(o)
  IN IF keyword \in MayContain(block.kind) /\ ~ Misplaced(keyword, block)
     THEN Outline(Append(Outer(o), [block EXCEPT !.seen = @ \cup {keyword}]), keyword)
     ELSE Malformed

ReadOpening(o, bracket) ==
  Outline(Append(o.blocks, [kind |-> IF o.keyword = "none" THEN bracket ELSE o.keyword,
                            seen |-> {}]), "none")

ReadClosing(o, bracket) ==
  LET block == Innermost(o)
  IN IF (block.kind = "[" <=> bracket = "]") /\ MustContain(block.kind) \subseteq block.seen
     THEN Outline(Outer(o), "none")
     ELSE Malformed

Read(o, token) ==
  CASE o = Malformed -> Malformed
    [] o # Malformed /\ token \in TestBoundary -> ReadKeyword(o, token)
    [] o # Malformed /\ token \in {"{", "["} -> ReadOpening(o, token)
    [] o # Malformed /\ token \in {"}", "]"} -> ReadClosing(o, token)
    [] OTHER -> o

-----------------------------------------------------------------------------
(***************************************************************************)
(* Tasks and steps.                                                        *)
(***************************************************************************)
Task(name) == [task |-> name]
Suite(hasCore, hasBlocks) == [task |-> "suite", hasCore |-> hasCore, hasBlocks |-> hasBlocks]
Items(name, seen) == [task |-> name, seen |-> seen]
Consume(token) == [task |-> "consume", token |-> token]
Value(stops) == [task |-> "value", stops |-> stops]
Sync(stops) == [task |-> "sync", stops |-> stops]
FieldEnd(name, type, compared) == [task |-> name, type |-> type, compared |-> compared]
Skip(open) == [task |-> "skip", open |-> open]

Top == stack[1]
Doing(name) == stack # <<>> /\ Top.task = name
Then(tasks) == stack' = tasks \o Tail(stack)

\* The current token stays.
Keep(fails) ==
  /\ failed' = (failed \/ fails)
  /\ taken' = "none"
  /\ outline' = IF failed' THEN Malformed ELSE outline
  /\ UNCHANGED look

\* Parser::bump; the end of the text stays.
Bump(how, fails) ==
  /\ failed' = (failed \/ fails)
  /\ IF look = "eof"
     THEN taken' = "none" /\ UNCHANGED look
     ELSE taken' = how /\ look' \in Tokens
  /\ outline' = IF failed' THEN Malformed ELSE Read(outline, look)

Use == Bump("used", FALSE)

\* Faulty: a boundary is discarded as well.
DiscardAnyTerminal == Bump("discarded", TRUE)

\* expected, then discard_unexpected_terminal.
DiscardTerminal == IF look \in RecoveryBoundary THEN Keep(TRUE) ELSE Bump("discarded", TRUE)

\* Parser::consume and string_literal: a missing token is an error, no more.
ParseConsume ==
  /\ Doing("consume")
  /\ IF look = Top.token THEN Use ELSE Keep(TRUE)
  /\ Then(<<>>)
  /\ UNCHANGED depth

\* Faulty: the comma is left for the next entry.
ParseCommaLater ==
  /\ Doing("comma")
  /\ Keep(FALSE)
  /\ Then(<<>>)
  /\ UNCHANGED depth

\* skip_optional_comma
ParseComma ==
  /\ Doing("comma")
  /\ IF look = "," THEN Use ELSE Keep(FALSE)
  /\ Then(<<>>)
  /\ UNCHANGED depth

\* The loops called synchronize_..., one round each step.
Synchronize ==
  /\ Doing("sync")
  /\ IF look \in Top.stops \cup {"eof"}
     THEN Keep(FALSE) /\ Then(<<>>)
     ELSE Bump("discarded", FALSE) /\ UNCHANGED stack
  /\ UNCHANGED depth

-----------------------------------------------------------------------------
(***************************************************************************)
(* Suites, blocks and tests: a loop over items, each with a keyword of its *)
(* own.  Anything else is an error; it is discarded with what follows, up  *)
(* to the next item or the end of the loop.                                *)
(***************************************************************************)
Start(keyword) ==
  CASE keyword = "core" ->
         <<Consume("core"), Consume("{"), Items("core", {})>>
    [] keyword = "pipeline" ->
         <<Consume("pipeline"), Consume("string"), Consume("{"), Items("pipeline", {})>>
    [] keyword = "test" ->
         <<Consume("test"), Consume("string"), Consume("{"), Items("test", {})>>
    [] keyword = "request" ->
         <<Consume("request"), Task("method"), Consume("string"), Task("options")>>
    [] keyword = "expect" ->
         <<Consume("expect"), Consume("{"), Task("expect")>>

\* Faulty: nothing is reported.
RecoverSilently(known) ==
  /\ look \notin known \cup {"eof"}
  /\ Bump("discarded", FALSE)
  /\ Then(<<Sync(known), Top>>)

Recover(known) ==
  /\ look \notin known \cup {"eof"}
  /\ Bump("discarded", TRUE)
  /\ Then(<<Sync(known), Top>>)

Leave(ends, fails) ==
  /\ look \in ends \cup {"eof"}
  /\ Keep(fails)
  /\ Then(<<Consume("}")>>)

ParseSuite ==
  /\ Doing("suite")
  /\ \/ /\ look = "eof"
        /\ Keep(~ Top.hasBlocks /\ ~ failed)
        /\ Then(<<>>)
     \/ /\ look \in SuiteBoundary
        /\ Keep(look = "core" /\ Top.hasCore)
        /\ Then(Append(Start(look), Suite(Top.hasCore \/ look = "core", TRUE)))
     \/ Recover(SuiteBoundary)
  /\ UNCHANGED depth

ParseBlock(kind, fails) ==
  LET ends == {"}"} \cup OuterBlockBoundary
  IN /\ Doing(kind)
     /\ \/ /\ look = "test"
           /\ Keep(FALSE)
           /\ Then(Append(Start("test"), Items(kind, {"test"})))
        \/ Recover(ends \cup {"test"})
        \/ Leave(ends, fails)
     /\ UNCHANGED depth

ParseCoreBlock == ParseBlock("core", FALSE)
ParsePipelineBlock == ParseBlock("pipeline", Top.seen = {})

\* Faulty: the order of requests and expectations is not looked at.
ParseTestInAnyOrder ==
  LET ends == {"}"} \cup SuiteBoundary
  IN /\ Doing("test")
     /\ \/ /\ look \in {"request", "expect"}
           /\ Keep(FALSE)
           /\ Then(Append(Start(look), Items("test", Top.seen \cup {look})))
        \/ Recover(ends \cup {"request", "expect"})
        \/ Leave(ends, Top.seen # {"request", "expect"})
     /\ UNCHANGED depth

ParseTest ==
  LET ends == {"}"} \cup SuiteBoundary
  IN /\ Doing("test")
     /\ \/ /\ look \in {"request", "expect"}
           /\ Keep(look = "request" /\ "expect" \in Top.seen)
           /\ Then(Append(Start(look), Items("test", Top.seen \cup {look})))
        \/ Recover(ends \cup {"request", "expect"})
        \/ Leave(ends, Top.seen # {"request", "expect"})
     /\ UNCHANGED depth

-----------------------------------------------------------------------------
(***************************************************************************)
(* Containers with a nesting limit.  At the limit the opening bracket is   *)
(* taken, and the whole container is skipped.                              *)
(***************************************************************************)

\* Faulty: the comparison with the limit is off by one.
OpenOneDeeper(bracket, name) ==
  /\ look = bracket
  /\ IF depth > MaxNesting
     THEN Bump("used", TRUE) /\ Then(<<Skip(1)>>) /\ UNCHANGED depth
     ELSE Use /\ Then(<<Task(name)>>) /\ depth' = depth + 1

Open(bracket, name) ==
  /\ look = bracket
  /\ IF depth >= MaxNesting
     THEN Bump("used", TRUE) /\ Then(<<Skip(1)>>) /\ UNCHANGED depth
     ELSE Use /\ Then(<<Task(name)>>) /\ depth' = depth + 1

\* The brace may be missing altogether.
OpenBraces(name) ==
  \/ Open("{", name)
  \/ look # "{" /\ Keep(TRUE) /\ Then(<<>>) /\ UNCHANGED depth

ExitNesting ==
  /\ Doing("exit")
  /\ Keep(FALSE)
  /\ Then(<<>>)
  /\ depth' = IF depth = 0 THEN 0 ELSE depth - 1

\* Faulty: the closing bracket is taken, the level is not given back.
CloseForGood(bracket, ends) ==
  /\ look \in ends \cup {bracket, "eof"}
  /\ Keep(FALSE)
  /\ Then(<<Consume(bracket)>>)

Close(bracket, ends) ==
  /\ look \in ends \cup {bracket, "eof"}
  /\ Keep(FALSE)
  /\ Then(<<Consume(bracket), Task("exit")>>)

\* skip_balanced_container: every bracket counts as every other.
SkipBalancedContainer ==
  /\ Doing("skip")
  /\ IF look = "eof" \/ Top.open = 0
     THEN Keep(FALSE) /\ Then(<<>>)
     ELSE LET open == CASE look \in {"{", "["} -> Top.open + 1
                        [] look \in {"}", "]"} -> Top.open - 1
                        [] OTHER -> Top.open
          IN /\ Bump("discarded", FALSE)
             /\ Then(<<Skip(open)>>)
             /\ open = MaxSkip => look' \notin {"{", "["}
  /\ UNCHANGED depth

-----------------------------------------------------------------------------
(***************************************************************************)
(* Values.  When there is none, the error is followed by a synchronization *)
(* on `stops'.                                                             *)
(***************************************************************************)
StartsValue == look \in Scalars \cup {"[", "{"}

ParseValue ==
  /\ Doing("value")
  /\ \/ look \in Scalars /\ Use /\ Then(<<>>) /\ UNCHANGED depth
     \/ Open("[", "array")
     \/ Open("{", "object")
     \/ ~ StartsValue /\ Keep(TRUE) /\ Then(<<Sync(Top.stops)>>) /\ UNCHANGED depth

ParseObjectValue == Doing("objectValue") /\ OpenBraces("object")

ObjectEntryStops == ContainerBoundary \cup {",", "}"}
ArrayItemStops == ContainerBoundary \cup {",", "]"}

ParseObjectEntries ==
  /\ Doing("object")
  /\ \/ Close("}", ContainerBoundary)
     \/ /\ look \in ObjectKeys
        /\ Use
        /\ Then(<<Consume("="), Value(ObjectEntryStops), Task("comma"), Top>>)
     \/ /\ look \notin ObjectKeys \cup ContainerBoundary \cup {"}", "eof"}
        /\ DiscardTerminal
        /\ Then(<<Sync(ObjectEntryStops), Task("comma"), Top>>)
  /\ UNCHANGED depth

ParseArray ==
  /\ Doing("array")
  /\ \/ Close("]", ContainerBoundary)
     \/ /\ StartsValue
        /\ Keep(FALSE)
        /\ Then(<<Value(ArrayItemStops), Task("arraySeparator"), Top>>)
     \/ /\ ~ StartsValue /\ look \notin ContainerBoundary \cup {"]", "eof"}
        /\ DiscardTerminal
        /\ Then(<<Sync(ArrayItemStops), Task("comma"), Top>>)
  /\ UNCHANGED depth

ParseArraySeparator ==
  /\ Doing("arraySeparator")
  /\ \/ look = "," /\ Use /\ Then(<<>>)
     \/ look = "]" /\ Keep(FALSE) /\ Then(<<>>)
     \/ look \notin {",", "]"} /\ Keep(TRUE) /\ Then(<<Sync(ArrayItemStops), Task("comma")>>)
  /\ UNCHANGED depth

-----------------------------------------------------------------------------
(***************************************************************************)
(* Requests.                                                               *)
(***************************************************************************)
ParseHttpMethod ==
  /\ Doing("method")
  /\ CASE look = "method" -> Use
       [] look = "string" -> Keep(TRUE)
       [] OTHER -> DiscardTerminal
  /\ Then(<<>>)
  /\ UNCHANGED depth

ParseRequestOptions ==
  /\ Doing("options")
  /\ IF look = "{" THEN Use /\ Then(<<Task("request")>>) ELSE Keep(FALSE) /\ Then(<<>>)
  /\ UNCHANGED depth

ParseRequestSections ==
  LET ends == {"}"} \cup TestBoundary
  IN /\ Doing("request")
     /\ \/ /\ look = "headers"
           /\ Keep(FALSE)
           /\ Then(<<Consume("headers"), Consume("{"), Task("requestHeaders"), Top>>)
        \/ /\ look \in {"query", "body"}
           /\ Keep(FALSE)
           /\ Then(<<Consume(look), Task("objectValue"), Top>>)
        \/ Recover(ends \cup RequestSections)
        \/ Leave(ends, FALSE)
     /\ UNCHANGED depth

ParseRequestHeaders ==
  LET ends == {"}"} \cup ContainerBoundary
  IN /\ Doing("requestHeaders")
     /\ \/ /\ look \notin ends \cup {"eof"}
           /\ Keep(FALSE)
           /\ Then(<<Consume("string"), Consume("="), Value(ObjectEntryStops), Task("comma"), Top>>)
        \/ Leave(ends, FALSE)
     /\ UNCHANGED depth

-----------------------------------------------------------------------------
(***************************************************************************)
(* Expectations.                                                           *)
(***************************************************************************)
ExpectationEntryStops == TestBoundary \cup {",", "}"}

ParseExpectation ==
  LET ends == {"}"} \cup TestBoundary
  IN /\ Doing("expect")
     /\ \/ /\ look = "status"
           /\ Keep(FALSE)
           /\ Then(<<Consume("status"), Consume("="), Task("statusValue"), Task("comma"), Top>>)
        \/ /\ look = "headers"
           /\ Keep(FALSE)
           /\ Then(<<Consume("headers"), Consume("{"), Task("responseHeaders"), Top>>)
        \/ look = "body" /\ Keep(FALSE) /\ Then(<<Consume("body"), Task("bodyAssertion"), Top>>)
        \/ Recover(ends \cup ExpectationSections)
        \/ Leave(ends, FALSE)
     /\ UNCHANGED depth

ParseStatusValue ==
  /\ Doing("statusValue")
  /\ IF look = "integer" THEN Use ELSE DiscardTerminal
  /\ Then(<<>>)
  /\ UNCHANGED depth

ParseResponseHeaders ==
  LET ends == {"}"} \cup ExpectationSections \cup TestBoundary
  IN /\ Doing("responseHeaders")
     /\ \/ /\ look \notin ends \cup {"eof"}
           /\ Keep(FALSE)
           /\ Then(<<Consume("string"), Task("headerTest"), Task("comma"), Top>>)
        \/ Leave(ends, FALSE)
     /\ UNCHANGED depth

ParseHeaderTest ==
  /\ Doing("headerTest")
  /\ \/ look = ":" /\ Use /\ Then(<<Consume("tstring")>>)
     \/ look \in {"=", "contains"} /\ Use /\ Then(<<Consume("string")>>)
     \/ /\ look \notin {":", "=", "contains"}
        /\ Keep(TRUE)
        /\ Then(<<Sync(ExpectationEntryStops)>>)
  /\ UNCHANGED depth

ParseBodyAssertion ==
  /\ Doing("bodyAssertion")
  /\ \/ look = "empty" /\ Use /\ Then(<<Task("comma")>>)
     \/ look \in {"=", "contains"} /\ Use /\ Then(<<Consume("string"), Task("comma")>>)
     \/ look = "exact" /\ Use /\ Then(<<Task("objectAssertion")>>)
     \/ /\ look \notin {"empty", "=", "contains", "exact"}
        /\ Keep(FALSE)
        /\ Then(<<Task("objectAssertion")>>)
  /\ UNCHANGED depth

ParseObjectAssertion == Doing("objectAssertion") /\ OpenBraces("fields")

ParseFields ==
  /\ Doing("fields")
  /\ \/ Close("}", ContainerBoundary)
     \/ look \in ObjectKeys /\ Use /\ Then(<<Task("fieldType"), Task("comma"), Top>>)
     \/ /\ look \notin ObjectKeys \cup ContainerBoundary \cup {"}", "eof"}
        /\ DiscardTerminal
        /\ Then(<<Sync(ExpectationEntryStops), Task("comma"), Top>>)
  /\ UNCHANGED depth

ParseFieldType ==
  /\ Doing("fieldType")
  /\ IF look = ":"
     THEN Use /\ Then(<<Task("assertionType")>>)
     ELSE Keep(FALSE) /\ Then(<<FieldEnd("comparison", "none", FALSE)>>)
  /\ UNCHANGED depth

ParseAssertionType ==
  /\ Doing("assertionType")
  /\ \/ look \in Types /\ Use /\ Then(<<FieldEnd("comparison", look, FALSE)>>)
     \/ /\ look \notin Types
        /\ DiscardTerminal
        /\ Then(<<FieldEnd("comparison", "none", FALSE)>>)
  /\ UNCHANGED depth

\* A missing value is not synchronized on.  It counts as a comparison here:
\* its error is reported anyway.
ParseComparison ==
  /\ Doing("comparison")
  /\ \/ /\ look = "="
        /\ Use
        /\ Then(<<Value(Tokens), FieldEnd("capture", Top.type, TRUE)>>)
     \/ /\ look = "{" /\ Top.type = "tobject"
        /\ Keep(FALSE)
        /\ Then(<<Task("objectAssertion"), FieldEnd("capture", Top.type, TRUE)>>)
     \/ /\ look # "=" /\ ~ (look = "{" /\ Top.type = "tobject")
        /\ Keep(FALSE)
        /\ Then(<<FieldEnd("capture", Top.type, FALSE)>>)
  /\ UNCHANGED depth

\* CaptureRequiresType and MissingFieldAssertion
ParseCapture ==
  /\ Doing("capture")
  /\ \/ look = "->" /\ Bump("used", Top.type = "none") /\ Then(<<Task("captureName")>>)
     \/ look # "->" /\ Keep(Top.type = "none" /\ ~ Top.compared) /\ Then(<<>>)
  /\ UNCHANGED depth

ParseCaptureName ==
  /\ Doing("captureName")
  /\ IF look \in Identifiers THEN Use ELSE DiscardTerminal
  /\ Then(<<>>)
  /\ UNCHANGED depth

-----------------------------------------------------------------------------
ParserInit ==
  /\ stack = <<Suite(FALSE, FALSE)>>
  /\ look \in Tokens
  /\ depth = 0
  /\ failed = FALSE
  /\ taken = "none"
  /\ outline = EmptyOutline

ParserNext ==
  \/ ParseSuite \/ ParseCoreBlock \/ ParsePipelineBlock \/ ParseTest
  \/ ParseHttpMethod \/ ParseRequestOptions \/ ParseRequestSections \/ ParseRequestHeaders
  \/ ParseExpectation \/ ParseStatusValue \/ ParseResponseHeaders \/ ParseHeaderTest
  \/ ParseBodyAssertion \/ ParseObjectAssertion \/ ParseFields
  \/ ParseFieldType \/ ParseAssertionType \/ ParseComparison \/ ParseCapture \/ ParseCaptureName
  \/ ParseValue \/ ParseObjectValue \/ ParseObjectEntries \/ ParseArray \/ ParseArraySeparator
  \/ ParseConsume \/ ParseComma \/ Synchronize \/ ExitNesting \/ SkipBalancedContainer

\* The parser is a loop of one thread: while it has work, it goes on.
ParserSpec == ParserInit /\ [][ParserNext]_parserVars /\ WF_parserVars(ParserNext)

-----------------------------------------------------------------------------
(***************************************************************************)
(* Properties.                                                             *)
(***************************************************************************)

\* The variables keep their types, and recursion is bounded: containers never
\* nest deeper than the limit (enter_nesting), each of them adds at most three
\* pending tasks, and blocks, tests and sections at most nine.
ParserTypeOK ==
  /\ look \in Tokens
  /\ depth \in 0 .. MaxNesting
  /\ failed \in BOOLEAN
  /\ taken \in {"none", "used", "discarded"}
  /\ Len(stack) <= 9 + 3 * MaxNesting

\* What the parser accepts is a suite: the tokens it has used without an error
\* never leave the grammar of blocks, and at the end every block is closed, no
\* pipeline is without a test, no test without a request before an expectation.
AcceptsOnlySuites ==
  ~ failed => /\ outline # Malformed
              /\ stack = <<>> => /\ Len(outline.blocks) = 1
                                 /\ outline.blocks[1].seen # {}

\* Nesting is given back on every path out of a container, after errors too:
\* between two blocks of the suite the whole limit is available again.
NestingIsReleased == stack # <<>> /\ Top.task = "suite" => depth = 0

\* Recovery never swallows a block: outside of a container that is skipped as
\* a whole, `core', `pipeline' and `test' are always taken as keywords, so a
\* valid test after a malformed entry is preserved.
KeywordsOpenBlocks ==
  [][taken' = "discarded" /\ look \in SuiteBoundary => Doing("skip")]_parserVars

\* A token is discarded only in a text that has been reported as invalid.
NothingSkippedSilently == [][taken' = "discarded" => failed']_parserVars

\* Every loop of the parser goes on to the next token or ends, and at the end of
\* the text the parser returns: no text, however malformed, keeps it busy for ever.
RecoveryProgresses == []<>(stack = <<>> \/ taken # "none")
=============================================================================
