# Rettp in TLA+

A verification project for Rettp, a command-line tester of HTTP APIs written in
Rust. `rettp check` compiles a `.rettp` source; `rettp run` compiles it, runs the
suite against a base URL, prints a report, optionally writes a JSON and a JUnit
report, and ends with an exit code that CI relies on.

The modules model the code under `src/crates/`; every definition that stands for
code is listed in `PROJECT.json` under "map" with its lines.

## 1. Inventory

| Component (crate) | State it keeps | Operations | What makes it correct |
|---|---|---|---|
| Execution engine (`rettp-application/execution.rs`) | results by block index, `post_core_variables`, the clone of it for each block, `suite_failed` | `execute`, `execute_core`, `execute_pipeline`, `execute_test` | core first; scopes isolated; every test one truthful result; nothing sent twice or without its dependencies |
| Semantic validator (`rettp-parser/semantic`) | the scope being built, the captures of the test, errors | `validate_suite` and below | its static scopes are the engine's dynamic ones; an accepted suite cannot fail for a reason that was visible in the source |
| Variables, captures (`rettp-runtime/variable.rs`, `capture.rs`) | `VariableStore`, `PendingCaptures` | `commit`, `apply_cli`, `evaluate` | a commit is all or nothing and never replaces a visible name; a structured capture stays readable |
| Resolution (`resolver.rs`, `interpolation.rs`) | none | `resolve_request`, `resolve_expectation` | errors come before traffic; byte and depth limits hold at the limit |
| Assertion engine (`rettp-assertion`) | failures, `truncated` | `evaluate` | no failure is lost at the cap; number equality is exact |
| HTTP adapter (`rettp-http`) | configuration | `execute` | every request ends; bodies are bounded; one request, no redirects or retries |
| `check_source` (`check.rs`) | diagnostics | lexer, parser, validator, conversion | a suite comes out only if there is no diagnostic |
| Commands (`rettp-cli/command.rs`) | what was read, checked and produced so far | `check`, `run`, `emit_run_report` | exit codes tell the truth |
| Ctrl+C race (`interrupt.rs`) | whether the handler is installed, the two futures | `run_until_ctrl_c` | Ctrl+C beats an answer that is ready at the same time |
| Report files (`output.rs`) | a temporary file | `atomic_file` | old content or a complete report, never a part of one |
| Input (`args.rs`, `input.rs`, `env_file.rs`) | none | parsing and bounded reading | layering of variables; limits; no overflow |
| Lexer and parser (`rettp-parser`) | position, `nesting_depth`, errors | scanning, recursive descent, recovery | terminates on every input; depth is balanced |
| Reporters (`rettp-reporter`) | none | JSON, JUnit, terminal | counts agree with the results; an aborted suite does not look passed |
| Conversion, domain, diagnostics | none | copies and layout | structure is preserved |

How they interact: `run` calls `prepare_source`, `check_source`, builds an HTTP
client, and blocks on a race between the engine's future and Ctrl+C. The engine
calls the resolver, awaits the client (its **only** await), lets the capture
engine evaluate the assertions and stage captures, and commits them to the store
of the block. The result goes to the reporters, and the rendered text to stdout
and the files. There is no shared mutable state between tasks; what is
concurrent is the server's answer, the signal, and the death of the process.

What is hard here: the validator and the engine compute scopes separately (static
and dynamic); the core runs first wherever it stands while results keep source
order; a failure must be turned into the right set of skips; a signal races an
answer inside one poll; reports are published step by step while the process
may die. The list of hazards, at their lines, is in `PROJECT.json`.

## 2. Modules

The engine and the command:

* **Suites** - the shape of a suite and the validator's rules as operators
  (`ScopeAt`, `Accepts`). Constants: `Names` and `Predefined`.
* **SuiteVerdict** - the abstract specification: tests are *decided* when all
  they depend on passed, a failure skips exactly its dependents, the suite's
  status summarises its tests. No variables, requests or order.
* **Execution** - the engine. A test is two steps: before the request leaves
  (`FailResolution`, `BeginTest`) and with the answer (`AnswerFails`,
  `CaptureFails`, `TestPasses`).
* **RunCommand** - extends Execution with the command around it: arguments,
  input, check, configuration, the race, the two reports, the exit code, and an
  environment that answers, presses Ctrl+C or kills the process.
* **Reports** - extends Execution with `emit_run_report`: the `RunReport`, which is
  the JSON document, the terminal lines and the JUnit document, each as what a
  reader tallies in it, and the exit code.

What the engine calls:

* **HttpPort** - the abstract promise of one call of `HttpClient`: one request at
  most, one end, a bounded body, a response only to a request that left.
* **HttpAdapter** - `ReqwestHttpClient`: configuration, the refusal and encoding of
  a request, the deadline, the body in chunks. Implements HttpPort.
* **Resolution** - `RequestResolver` and `Interpolator`, location by location up to
  the first error, with the byte limit of texts and the depth limit of values.
* **JsonValues** - JSON as serde_json keeps it, equality of its numbers, paths.
* **Assertions** - `AssertionEngine::evaluate` as operators: every check in its
  order, the failure cap, the depth limit. A check is a function on reports, and
  a sequence of checks stops at the one that truncates the report (`InTurn`).
* **CaptureEngine** - `CaptureEngine::evaluate`: the assertions, then the walk that
  stages captures, each as the root it shares and the path below it. Execution
  abstracts this module to a verdict of the answer and to `StagingFails`.

What comes before a suite is run:

* **Inputs** - `--timeout`, the bounded read of a source that another process
  appends to, and the three layers of variables.
* **Lexer** - `Lexer::scan`, one action for each arm of `scan_token` and one for
  each round of its loops, over character classes.
* **ParserRecovery** - the recursive-descent parser with an explicit call stack.
  Each step is one decision of a parser function; each round of a synchronization
  or of `skip_balanced_container` is a step.
* **Semantics** - the walk of the `Validator` over syntax trees (`FindCores`, then
  `EnterBlock` and `ValidateTest` for each block and test in the order of its two
  loops), the conversion of a tree without errors, and the resolution of a test of
  the result. It extends Resolution and is compared with `Suites!Accepts`
  (`Abstract`).

Each `MC*` module gives one of these its constants for TLC.

Theorems, one module per subject: **ExecutionProofs** (the engine: types, scopes,
requests and captures, the result, SuiteVerdict), **RunProofs** (the command and the
reports; extends the former), **CaptureProofs** (assertions and captures),
**ResolutionProofs**, **SemanticsProofs** (validation and conversion; extends the
former), **HttpProofs**, **InputProofs**, **SyntaxProofs** (the lexer and the parser).

The recursive methods of Resolution, Assertions, CaptureEngine and Semantics are
functions on the height of a value, an assertion or a tree, so that they can be
reasoned about.

Correspondence of the state:

| Variable | Code |
|---|---|
| `at` | the two loop indices (`execute`, and `execute_core` or `execute_pipeline`) |
| `postCore`, `scope` | `post_core_variables` and the clone `variables` |
| `verdict`, `slot` | the `TestResult`s pushed and `results[index]`; a verdict keeps apart the error kinds that share a status |
| `suiteFailed`, `outcome` | `suite_failed`, the status and error of `SuiteResult` |
| `sends` | a history variable: requests handed to `HttpClient::execute` |
| `stage`, `exit` | the point `run` or `check` has come to, and the `ExitCode` |
| `handled`, `polling`, `answered`, `ctrlC` | tokio's signal handler, whether `block_on` is inside a poll, whether the request's future is ready, and when the signal came |
| `temp`, `disk`, `before` | the `NamedTempFile`, the report files, and a copy of what they held at the start |
| `report`, `terminal`, `junit`, `exitCode` (Reports) | `RunReport`, the printed lines, the XML, `execution_exit_code` |
| `base`, `request`, `timeout`, `wire` (HttpAdapter) | `HttpClientConfig`, the argument of `execute`, the deadline, the requests built |
| `declared`, `mime`, `delivered`, `body`, `result` | the head of the response, what the server sent (history), the `Vec` of `read_body`, the `Result` |
| `spec`, `store`, `output`, `error` (Resolution) | `RequestSpec` and `Expectation`, the `VariableStore`, the resolved parts, the `RuntimeError` |
| `exchange`, `limit`, `report` (CaptureEngine) | the arguments of `evaluate`, `max_failures`, the `AssertionReport` |
| `staged`, `error` | `PendingCaptures` (root and path of each `SharedJsonValue`), the `RuntimeError` |
| `source`, `buffer` (Inputs) | the file, and the `Vec` that `take` filled |
| `start`, `current`, `mode`, `tokens`, `errors` (Lexer) | the fields of `Lexer`; `mode` is the loop that runs |
| `stack`, `look` | the Rust call stack of the parser and the token at `current` |
| `depth`, `failed` | `nesting_depth`, `!errors.is_empty()` |
| `taken`, `outline` | history: what the last step did with a token; the blocks that the used tokens opened, by a grammar that knows no recovery |
| `todo`, `block`, `walked` (Semantics) | the loops of `validate_suite`: the blocks ahead, the current one, the tests of it that were validated |
| `scope`, `withCore`, `diagnostics` | the scope of the block being walked, `global_with_core`, the errors |

Abstractions. A test keeps the names it reads and captures; a response is its
effect (transport error, mismatch, success), so the server may say anything. A
value is its JSON kind and its origin. Limits depend on values that are not kept,
so any test may hit one. In `FailResolution` any of the errors of the failing
part may be the first. `Crash` lets a rename be undone or data not synced be lost;
the directory is not synced by `atomic_file`, so a rename may be undone after the
exit code was decided, which is why the model compares with `before`.

Reports: the JSON document is the `RunReport`; names, texts, durations and
redaction are left out.

HttpAdapter: a body of bytes is its length, a value what the encoders ask of it, a
path the list of its segments. URL parsing, percent encoding, TLS and the
connection are reqwest's. The server declares any length, delivers any chunks,
breaks off, or never answers.

Resolution: a text is a list of fragments, each with its length; arrays and objects
are alike. A placeholder whose name is longer than the limit counts as too large.

Assertions: a text is the set of its fragments, a float a number of halves, and
a failure its path and kind: previews and wording are left out. Members of an
object are taken in one fixed order; the code takes them in insertion order.

Inputs: 64 bits are the word 31, seconds and minutes 5 and 6 milliseconds, so that
products overflow within reach. The env file is read in one step, its limit counts
lines, and a line is an assignment, blank or broken; its quoting is left out.

Lexer: a character is its class and an offset counts characters. The values of
literals and the keyword table are left out; a number overflows by its digits.

ParserRecovery: a token is its class, and the token after the current one is
any class, so a behaviour is a parse of some text. The AST is gone but for what
the parser reads back (which items a loop has seen, the type of a field). The
stream ends with `Eof`, as the lexer's always does.

Semantics: a name is what it is apart from case, and its spelling; the errors are
a set of kinds, without spans.

## 3. Runs

* **engine** - `MCExecution`: every suite of at most three blocks drawn from four
  cores (empty, capturing, capturing an object and expecting it, capturing a name
  twice), four pipelines (capture then use; use of a name from the core; a
  collision followed by a malformed test; empty) and three standalone tests; the
  third block is a core or a standalone test. Suites with no core, a core that
  comes last, two cores and rejected suites are among them. Three blocks are
  enough to have a core, a block and a sibling of it in every order; two names
  are enough for a capture that collides and one that does not. It checks:
  * `ScopeIsolation`, `CapturesAreAtomic` - who may see which capture, and that a
    failed commit leaves nothing;
  * `ScopesAgree`, `AcceptedSuitesResolve` - the validator predicts the engine;
  * `VerdictsMatchTraffic`, `DependenciesPassFirst` - what was sent and when;
  * `ReportIsComplete` - results, statuses and skip reasons;
  * `ImplementsVerdict` - the refinement of `SuiteVerdict`;
  * `EventuallyReported` - every run ends.
* **command** - `MCRunCommand`: five suites (empty, one with an undefined
  variable, one with the core last, a pipeline before a standalone test, a
  collision), both commands, three path spellings for two files, both contents of
  the disk, all failures, a Ctrl+C at any step and a crash at any step. It checks
  `ExitContract`, `NothingRunsUnchecked`, `ReportsNeverTorn`,
  `InterruptStopsTraffic` and `EventuallyExits`. One Ctrl+C is enough: the handler
  of tokio is never removed, so a later one has no further effect.
* **late_interrupt** - a disagreement. README.md:333 of the repository says that
  Ctrl+C writes no new reports. The select of `race` looks at the signal once in a
  poll and then runs the engine; if the engine completes in that poll, the select
  returns `Completed`, and a Ctrl+C that came after the look is lost.
* **reports** - `MCReports`: 259 suites of up to three blocks, refused and aborted
  ones included, with every result the engine can give them. `TalliesAgree`: the
  counts of each document are those of its own elements and of the results.
  `VerdictsAgree`: exit code, JSON, JUnit and terminal agree on success; in
  particular a suite that preflight refused has no failed test, and its JUnit
  report still has an error.
* **http** - `MCHttpAdapter`: every way to be refused once, base URLs with and without a
  final slash, paths with dot segments, repeated headers, and JSON bodies at and
  over the depth limit. `Limit` is
  4 and `MaxChunk` 3, so that a body is over the limit after one more chunk, at
  exactly the limit, and in empty chunks; the length header says anything up to
  `Limit + MaxChunk`. It checks `BodiesAreWhole`, `WireCarriesRequest`,
  `ImplementsPort` and `EveryCallEnds`.
* **resolution** - `MCResolution`: every text of up to two fragments in every
  location, values and assertions of up to one level more than `MaxDepth` 2, seven
  stores; `MaxBytes` is 3, so that two fragments are below, at and over it.
  `MaxHeight` 4 is more than the height of anything in it; it only gives the
  recursive functions a domain.
  * `ResolvesExactly` - resolution fails exactly when a text, value or name does,
    by a definition that measures results instead of walking;
  * `AbstractionAgrees` - the first error is one that `Suites` allows `Execution`;
  * `AcceptedNestingResolves` - what the parser accepts is never too deep here.
* **capture** - `MCCaptureEngine`: one value of every kind against one of every
  kind, with and without a type; three levels of nested assertions with captures
  at each level, names used twice, nested assertions under a field that is no
  object; and status, headers and body together, so that failures add up to more
  than the caps 1, 2 and 4. Floats have a mantissa of three bits: 7 is the last
  exact integer, 8 is exact but unsafe, 9 rounds. The depth limit is 3, and there
  are values and assertions of that depth and deeper. It checks:
  * `SuccessMeansSatisfied` - success is what a reference definition over paths
    says, in both directions;
  * `RetainsFirstFailures` - the report is a prefix of all failures, truncated
    exactly if there are more;
  * `CapturesReadBack` - a staged value is the captured one, however it is shared;
  * `WalkFailsStatically` - after a success the walk fails only for a name captured
    twice or a misplaced nested assertion: this is what `StagingFails` assumes.

  `MaxHeight` 5 is the height of the highest value; it only gives the recursive
  functions a domain.
* **inputs** - `MCInputs`: durations at and around every limit of the word, a
  source of at most 3 pieces that grows to 4 around the limit 2, and environment,
  env file and options with assignments, repeated names and malformed entries.
  `PreparedAsWritten`: a command starts with the timeout and the variables that
  its inputs mean, and is refused if one of them means nothing.
  `AcceptedSourceIsWhole`: what is accepted is the whole file, and at most one
  byte over the limit is ever held.
* **lexer** - `MCLexer`: every text of four characters over all classes and of six
  over those of strings, numbers and comments. `NothingIsLost`: every character is
  in a token, a blank, a comment or an error.
* **lexer_newline** - a disagreement between the code and docs/CODEX_HANDOFF_LEXER.md:1974
  (recovery up to the closing quote or the newline), stated by `LinesStartAfresh`: a
  backslash at the end of a line is taken for an
  escape together with the line feed, and recovery then discards the next line.
* **parser** - `ParserRecovery`: every sequence of the 31 token classes, with
  `MaxNesting` 2, so that there is a container inside a container inside the limit
  and one beyond it. `MaxSkip` 2 bounds the containers open at once in a skipped
  one. Nothing else is bounded: the stack is finite because blocks do not nest. It
  checks:
  * `AcceptsOnlySuites` - a text without errors has the block structure of a suite,
    by the independent grammar of `outline`;
  * `NestingIsReleased` - the nesting depth is zero between blocks, after errors too;
  * `KeywordsOpenBlocks`, `NothingSkippedSilently` - what recovery may discard;
  * `RecoveryProgresses` - the parser never stays at one token, and returns at the
    end of the text.
* **semantics** - `MCSemantics`: 2,205 trees with one or two things wrong in them,
  names that differ in case, and values and assertions one level deeper than
  `MaxSemanticDepth` 2.
  * `AcceptedExactly` - the walk, which goes on after errors and carries sets from
    test to test, finds no error exactly if each test is sound by itself and
    `Suites!Accepts`, on which Execution rests, accepts the suite;
  * `AcceptedMeansExecutable` - an accepted tree converts without a panic, and in a
    run its tests fail to resolve only for the types and sizes of values.

`CHECK_DEADLOCK FALSE` is set because all of these stop: the engine at `done`, a
command when it has exited or was refused, a call, an evaluation or a resolution
at its result, the lexer and the parser at the end of the text.

`ExitContract` promises a published report only for options that denote
different files: `run` compares paths, so `report.json` and a link to it pass,
and the second report replaces the first.

Fairness. `Execution` asks for weak fairness of `Next`: the future is polled until
it completes, and every request ends because `ReqwestHttpClient` always sets a
timeout (30 s by default, and zero is refused). That this is enough is
`EveryCallEnds` of HttpAdapter, which asks for weak fairness of the adapter's own
steps (`Prepare`) and of the clock (`Expire`), and for nothing of the server.
`RunCommand` asks for weak fairness of the process and of `Respond`, separately.
Nothing is asked of Ctrl+C or of crashes. `ParserRecovery` asks for weak fairness of
the parser's only thread.

An observation without a run: semantic/context.rs:67 says that a limit of zero
permits only the root level, while validator.rs:463 refuses depth 0 under it, as
tests/semantic.rs:761 expects. No caller sets zero.

## 4. Proofs

Every safety property that a run of `Execution`, `RunCommand`, `Reports`,
`HttpAdapter`, `Resolution`, `Semantics`, `CaptureEngine`, `Inputs`, `Lexer` and
`ParserRecovery` checks is also a theorem, for **any** values of the constants within their
assumptions: that names, suites, base URLs, specifications, stores, expectations and
responses are of their types, that paths denote files, that limits are numbers, that
no variable is named "" (`VariableName::new` refuses it), that syntax trees are built
as `ast/nodes.rs` says and a standalone test block holds its test (`TreesAssumption`),
that the validator allows no deeper nesting than the resolver
(`SemanticDepthAssumption`; both defaults are 128), and that every integer up
to MAX_EXACT_FLOAT_INTEGER is a float (`NumbersAssumption`).

Recursive definitions are functions, whose existence is proved, and every induction
is from the least number for which the statement would fail (`LeastNumber`, from the
well-foundedness of the naturals): such a number leads to a smaller one. The bound
`MaxHeight` is any number, so that these theorems are about values of any height.

*Types and scopes* (ExecutionProofs). `TypeCorrect`: `TypeOK` is inductive; the
delicate part is the cursor: `Following` and `Enter` never leave the suite.
`StaticScopesAreDynamic`: the inductive invariant is `TypeOK /\ FreshStart /\
ScopesAgree`; a passing test moves the cursor and extends the store by the captures
that `ScopeAt` of the next position adds (`ScopeGrows`, `SettlePass`), entering a
block drops to `ScopeAt` of its first test (`ScopeAtEntry`, `EnterOther`,
`LeaveBlock`). `ValidationIsSound` follows: a name the validator found in `ScopeAt`
is in the store, and a name that is fresh there does not collide.

*Requests and captures* (ExecutionProofs). All rest on `Pending`: the tests without a
result are exactly those *ahead* of the cursor. It is not a property of one step:
the core runs before blocks that precede it in the file, so "ahead" is the order of
the loops (`Following`), and each way to move the cursor needs an argument
(`SettlePending`, `NextBlockPending`). From it, a result is never replaced
(`ResultsStay`), a passed test stays passed, and with `CorePassed` the theorems
`TrafficIsTruthful`, `RequestsWaitForDependencies`, `ScopesAreIsolated` and
`CommitsAreAtomic` follow.

*The result* (ExecutionProofs). `ReportInv` adds what the loops have established so
far: a block that is broken has a failure before the cursor (`Broken`), `suite_failed`
is true exactly if a closed block did not pass (`Flag`), exactly the closed blocks
have a result and it is a summary (`Slots`), every skip has its reason
(`SkipReasons`). There are three ways to end, each with a lemma. `ReportsAreComplete`
and the refinement `EngineKeepsPromise` follow; in the refinement the step that
settles a test decides it, and the steps in between change nothing that SuiteVerdict
sees.

*The command* (RunProofs). `EngineInside`: a step of the command is a step of the
engine or leaves it alone, so the invariants of the engine hold inside the command.
`RunInv` says how far the engine is at each stage and what the temporary file and
the disk hold. `UncheckedNeverRuns` and `ReportFilesAreWhole` need no more;
`InterruptStops` needs `Signal` (a Ctrl+C that found the race suspended leaves only
the ways out), and `ExitCodesAreTrue` needs `InPlace` (a report that was persisted
is still there, since the second one goes to another file) and `Endings`.

*The reports* (RunProofs), for any suite and result. The engine's half of the
argument is `ReportsAreComplete`; the other half is about lengths of filtered
sequences: each document lists the same tests, whose statuses are partitioned by the
counters. `ReportsTally` and `ReportsAgree` follow; the delicate case is a suite that
was refused, which has no failed test and must still not look passed.

*The HTTP adapter* (HttpProofs), for any limits, base URLs and requests.
`HttpInv == HttpTypeOK /\ BodiesAreWhole /\ TrafficFollowsPhase`. Theorems:
`CallTypeCorrect`, `ResponsesAreBoundedAndWhole`, `AdapterKeepsPromise` (the
refinement of HttpPort), and `WireIsFaithful`, which needs that the base path of a
client is never empty (`BasesAssumption`) and that filtering headers keeps their
order.

*Resolution* (ResolutionProofs), for any limits, requests, expectations and stores.
The nodes of a value are all values below it, each with its depth. A result
`Decides` a set of nodes if it is an error exactly when a node does not fit, and if
the error has a reason among them. `InterpolateDecides` compares the running,
cut-off length with the total size; `TextDecides`, `CloneDecides`, `ValueDecides` and
`ObjectDecides` go up the heights, with `CollectDecides` for the first error of
several results. `ResolutionInv` says that the locations before the current one fit
and that an error is that of the first location that does not. Theorems:
`ResolutionIsExact`, `AbstractionIsSound` (an error of the expectation means that the
request has none, as `PossibleErrors` assumes) and `NestingResolves`.

An error other than one of size, nesting or type needs a node that static validation
would have refused (`Ill`), which is what the last theorem about validation uses.

*Validation and conversion* (SemanticsProofs), for any trees, stores and limits. A site
is a part of a tree with its depth.

* *What the walk reports of a tree.* Going up the heights, the errors of a value or of an
  assertion are none exactly if all its sites are clean (`ValueIsClean`,
  `WholeAssertionIsClean`). The walk does not go below the depth limit, so the converse
  needs that the limit itself is reported. `RequestDecides`, `ExpectationDecides` and
  `TestDecides` put them together: a test has no error in a scope exactly if it is sound
  and every name it reads or captures is, or is not, in that scope.
* *The walk.* `WalkInv` (inductive) says which blocks and tests were visited, in an order
  that is not that of the file. If there is at most one core, the scope that is carried
  is `ScopeAt` of Suites at the next test (`ScopesAreStatic`), and the errors found so
  far are those of the visited tests in their static scopes (`ErrorsAreStatic`). With
  several cores the scopes of the walk and of Suites differ, but then there is an error.
  `ValidatorDecides` follows from both.
* *Conversion.* Entries of one name are merged, so that what is left are some of the
  sites, never others: the nodes of the conversion of clean sites are tame
  (`ConversionIsTame`, `AssertionIsTame`, `ConvertedIsTame`), which means that none of
  them is ill in the scope of the test.
* *The run.* `RunInv` adds to `WalkInv` and `ResolutionInv` that what is resolved is the
  conversion of an accepted test with a store that has the names of its static scope.
  `AcceptedRuns` follows.

*Assertions and captures* (CaptureProofs), for any expectation and response, any
failure cap of at least one, any depth limit and any set of floats.

* A check *adds one list* of failures to whatever report it gets, as far as the list
  fits (`Adds`); `Check` is closed under `InTurn` (`InTurnIsCheck`), although a check
  that truncates makes the rest be skipped, because lists that are added one after
  the other add up (`ExtendsMore`). So the report with a cap is a prefix of the one
  without (`FromEmpty`), which is `LimitsOnlyTruncate`.
* A check *passes* if its list is empty, and `InTurn` passes if each does. Going up
  the heights, `CompareJson` passes exactly if every path of the expected value leads
  to its counterpart (`CompareMatches`), and `AssertObject` exactly if each scope holds
  wherever there is an object (`AssertMatches`). `NumbersAgree` is the case of integers
  against floats. `SuccessIsSatisfaction` follows.
* `Evaluated` (the inductive invariant of these two theorems) says that the report is
  that of an evaluation from the first step on.
* The walk keeps every staged value readable, since the shared root of a site is an
  ancestor of it at the depth that was noted (`RootsFit`, `StageReads`, `ExtractReads`):
  `CapturesAreReadable`.
* After a success nothing that the walk looks for is missing; it takes names in turn
  (`NamesInTurn`, `SiteTakes`) and fails exactly if one is taken already, or at a
  nested assertion under a type that is no object (`ExtractFails`):
  `WalkFailureIsStatic`. `Extracted` (the inductive invariant of the last two) adds to
  `Evaluated` what each phase leaves in `staged` and `error`: a walk takes place only
  after a success, with the one body assertion there is.

*Input* (InputProofs). `SourcesAreWhole`: the buffer is always a beginning of the
file, which only grows, and holds at most one byte more than the limit; that byte is
what tells a file at the limit from a longer one. `CommandsArePrepared`
(`PreparedAsWritten`): the loop over entries keeps the layers it has read, and the
reading of a duration by cases never overflows where its meaning does not.

*The lexer* (SyntaxProofs). `NoTextIsLost`, for any texts: `LexerInv` says that tokens
lie behind the current position (`TokensAreBehind`), that a comment being skipped was
opened by two slashes or a hash (`CommentIsOpen`), and that a string in recovery was
reported (`StringIsReported`).

*The parser* (SyntaxProofs), for any nesting limit and text. `ParserInv` types every
pending task on the stack, and says that every synchronization stops at the keywords
of blocks and that there is none before the first error. It has to speak of the whole
stack: a task is used long after the step that put it there. One lemma per parser
function shows its step to be `InOrder`. Theorems: `BlocksSurviveRecovery`,
`DiscardsAreReported`. `NestingIsBalanced` needs to count: `nesting_depth` is the
number of pending tasks that hold a level (a container, then its exit), which
`Balanced` states by running totals over the stack, so that a step only has to look
at the tasks it replaces (`ExchangeBalances`). The same totals bound the stack
(`Room`), which gives `RecursionIsBounded`, the type invariant with its bound on the
recursion of the Rust parser. `SuitesAreAccepted` relates the stack to the grammar
of `outline`, which the parser never reads: while there is no error, each pending
task leads from the outline it begins in to the one in which the next begins, and
the last ends in a finished suite (`Traced`).

Model-checked only: liveness under fairness, which is out of reach of the prover
(`EventuallyReported`, `EventuallyExits`, `EveryCallEnds`, `RecoveryProgresses`).

## 5. Not modelled

* Diagnostics and source text: wording, spans, lines and columns; JSON escaping, XML
  escaping and redaction of reports; layout; durations of tests.
* clap's own argument errors (exit 4, or 0 for help, before `dispatch`).
* The keyword table and the values of literals in the lexer; the AST that the parser
  builds. For this reason the three stages of `check_source` are not composed: the
  inputs of Lexer, ParserRecovery and Semantics are characters, token classes and
  trees, and RunCommand uses only the verdict.
* The quoting rules of env files.
* reqwest: TLS, DNS, URL parsing, percent encoding, the pool of connections.
* The getters and constructors of the domain model, which copy.

## 6. Plan

What is left, in this order:

1. The stages of `check_source` composed: a small set of texts through Lexer,
   ParserRecovery with a tree, and Semantics.
2. The quoting rules of env files in Inputs.
