------------------------------ MODULE Execution -----------------------------
(***************************************************************************)
(* ExecutionEngine::execute: one suite run to its SuiteResult against an   *)
(* HTTP client.  The only await of the engine is client.execute, so a test *)
(* is two actions: what happens before the request leaves (BeginTest, or   *)
(* FailResolution) and what happens with the answer.  The server may       *)
(* answer anything.                                                        *)
(***************************************************************************)
EXTENDS Suites

CONSTANT Suites    \* the suites considered, validated or built by a program

ASSUME SuitesAssumption == Suites \subseteq Suite

VARIABLES
  suite,        \* the suite being run; never changes
  pc,           \* "start", "run", "await" or "done"
  at,           \* position of the current test; one past the last at block end
  postCore,     \* post_core_variables
  scope,        \* the clone of postCore that a pipeline or a test works on
  verdict,      \* position -> result of the test, "none" until it is pushed
  slot,         \* block index -> status of the block's result, or "none"
  suiteFailed,  \* the flag suite_failed
  outcome,      \* SuiteResult: status and error kind
  sends         \* position -> number of requests handed to the client

engineVars == <<suite, pc, at, postCore, scope, verdict, slot, suiteFailed,
                outcome, sends>>

(***************************************************************************)
(* A stored value is known by its JSON kind and by where it came from:     *)
(* <<0, 0>> for predefined text, else the position of the capturing test.  *)
(***************************************************************************)
Host == <<0, 0>>
Value == [structured : BOOLEAN, by : Nat \X Nat]
IsStore(f) == DOMAIN f \subseteq Names /\ f \in [DOMAIN f -> Value]
PredefinedStore == [n \in Predefined |-> [structured |-> FALSE, by |-> Host]]

(***************************************************************************)
(* Test results.  "mismatch" is a failed assertion report, "transport" any *)
(* HttpError, the resolution errors are kept apart, and so are the reasons *)
(* a skipped test carries.                                                 *)
(***************************************************************************)
Skips == {"skipped_core", "skipped_pipeline", "skipped_invalid"}
Verdicts == {"none", "passed", "mismatch", "transport", "aborted"}
              \cup ResolutionErrors \cup Skips

StatusOf(v) ==
  CASE v = "none"    -> "Pending"
    [] v = "passed"  -> "Passed"
    [] v = "aborted" -> "Aborted"
    [] v \in Skips   -> "Skipped"
    [] OTHER         -> "Failed"

Statuses == {"Passed", "Failed", "Aborted", "Skipped"}
Running == [status |-> "running", error |-> "none"]
Outcomes == [status : {"running", "Passed", "Failed", "Aborted"},
             error  : {"none", "Internal", "DependencyFailed"}]

(***************************************************************************)
(* Captures of a test whose response satisfied every assertion.            *)
(***************************************************************************)
StagingFails(test) ==
  /\ test.captures # <<>>
  /\ test.malformed \/ ~ CapturesAreDistinct(test)

Staged(test, p) ==
  [n \in CaptureNames(test) |->
     [structured |-> \E i \in DOMAIN test.captures :
                        test.captures[i].name = n /\ test.captures[i].structured,
      by |-> p]]

\* Faulty: commit replaces visible variables like insert_predefined does.
CommitOverwrites(store, pending) == FALSE

CommitFails(store, pending) == DOMAIN pending \cap DOMAIN store # {}

Merge(store, pending) ==
  [n \in DOMAIN store \cup DOMAIN pending |->
     IF n \in DOMAIN pending THEN pending[n] ELSE store[n]]

(***************************************************************************)
(* The core is run on postCore itself, every other block on a clone of it. *)
(***************************************************************************)
InCore == suite[at[1]].kind = "core"
Visible == IF InCore THEN postCore ELSE scope

Current == TestAt(suite, at)
BlockOver == at[2] > Len(suite[at[1]].tests)

\* Faulty: the cursor moves to the next index without looking at the end.
FollowingUnbounded(b) == {b + 1}

\* The core comes first, then the other blocks in source order.
Following(b) == {c \in DOMAIN suite : /\ suite[c].kind # "core"
                                      /\ suite[b].kind = "core" \/ b < c}

Enter(blocks) ==
  \E b \in blocks : /\ \A c \in blocks : b <= c
                    /\ at' = <<b, 1>>

Results(b) == {StatusOf(verdict[p]) : p \in {q \in Positions(suite) : q[1] = b}}

BlockStatus(b) ==
  IF Results(b) \subseteq {"Passed"} THEN "Passed"
  ELSE IF "Aborted" \in Results(b) /\ suite[b].kind # "pipeline" THEN "Aborted"
  ELSE "Failed"

PreflightPasses ==
  /\ suite # <<>>
  /\ \A b, c \in Cores(suite) : b = c
  /\ \A b \in DOMAIN suite : suite[b].kind = "pipeline" => suite[b].tests # <<>>

\* What the exit code of an aborted suite depends on.
CoreFailed == \E b \in Cores(suite) : slot[b] \in {"Failed", "Aborted"}

-----------------------------------------------------------------------------
Init ==
  /\ suite \in Suites
  /\ pc = "start"
  /\ at = <<1, 1>>
  /\ postCore = PredefinedStore
  /\ scope = PredefinedStore
  /\ verdict = [p \in Positions(suite) |-> "none"]
  /\ slot = [b \in DOMAIN suite |-> "none"]
  /\ suiteFailed = FALSE
  /\ outcome = Running
  /\ sends = [p \in Positions(suite) |-> 0]

\* A suite that fails preflight is reported as skipped, block by block.
Reject ==
  /\ pc = "start"
  /\ ~ PreflightPasses
  /\ verdict' = [p \in Positions(suite) |-> "skipped_invalid"]
  /\ slot' = [b \in DOMAIN suite |-> "Skipped"]
  /\ outcome' = [status |-> "Aborted", error |-> "Internal"]
  /\ pc' = "done"
  /\ UNCHANGED <<suite, at, postCore, scope, suiteFailed, sends>>

\* Faulty: blocks are entered in source order, wherever the core is.
StartInSourceOrder ==
  /\ pc = "start"
  /\ PreflightPasses
  /\ Enter(DOMAIN suite)
  /\ pc' = "run"
  /\ UNCHANGED <<suite, postCore, scope, verdict, slot, suiteFailed, outcome, sends>>

\* Faulty: a suite is started at its core although it may have none.
StartNeedsCore ==
  /\ pc = "start"
  /\ PreflightPasses
  /\ Enter(Cores(suite))
  /\ pc' = "run"
  /\ UNCHANGED <<suite, postCore, scope, verdict, slot, suiteFailed, outcome, sends>>

Start ==
  /\ pc = "start"
  /\ PreflightPasses
  /\ Enter(IF Cores(suite) # {} THEN Cores(suite) ELSE DOMAIN suite)
  /\ pc' = "run"
  /\ UNCHANGED <<suite, postCore, scope, verdict, slot, suiteFailed, outcome, sends>>

\* Faulty: the loop over the tests goes on after a failure (a missing break).
SettleWithoutBreak(v) ==
  /\ verdict' = [verdict EXCEPT ![at] = v]
  /\ at' = <<at[1], at[2] + 1>>
  /\ pc' = "run"
  /\ UNCHANGED <<suite, slot, suiteFailed, outcome, sends>>

\* Push the result of the current test; a failure ends a core or a pipeline
\* and pushes a skipped result for each of its remaining tests.
Settle(v) ==
  /\ verdict' = [p \in Positions(suite) |->
                   IF p = at THEN v
                   ELSE IF v # "passed" /\ at \in Earlier(suite, p)
                   THEN IF InCore THEN "skipped_core" ELSE "skipped_pipeline"
                   ELSE verdict[p]]
  /\ at' = <<at[1], IF v = "passed" THEN at[2] + 1
                    ELSE Len(suite[at[1]].tests) + 1>>
  /\ pc' = "run"
  /\ UNCHANGED <<suite, slot, suiteFailed, outcome, sends>>

\* The request or the expectation cannot be resolved: nothing is sent.
FailResolution ==
  /\ pc = "run"
  /\ ~ BlockOver
  /\ \E e \in PossibleErrors(Current, Visible) : Settle(e)
  /\ UNCHANGED <<postCore, scope>>

BeginTest ==
  /\ pc = "run"
  /\ ~ BlockOver
  /\ Resolves(Current, Visible)
  /\ sends' = [sends EXCEPT ![at] = @ + 1]
  /\ pc' = "await"
  /\ UNCHANGED <<suite, at, postCore, scope, verdict, slot, suiteFailed, outcome>>

\* Faulty: a transport error is retried once, behind the report's back.
AnswerRetries ==
  /\ pc = "await"
  /\ sends[at] = 1
  /\ sends' = [sends EXCEPT ![at] = @ + 1]
  /\ UNCHANGED <<suite, pc, at, postCore, scope, verdict, slot, suiteFailed, outcome>>

\* client.execute returns an error, or a response that breaks an assertion.
AnswerFails ==
  /\ pc = "await"
  /\ \E v \in {"transport", "mismatch"} : Settle(v)
  /\ UNCHANGED <<postCore, scope>>

\* The response satisfies every assertion, but its captures cannot be staged
\* or name a variable that is already visible.
CaptureFails ==
  /\ pc = "await"
  /\ StagingFails(Current) \/ CommitFails(Visible, Staged(Current, at))
  /\ Settle("aborted")
  /\ UNCHANGED <<postCore, scope>>

TestPasses ==
  /\ pc = "await"
  /\ ~ StagingFails(Current)
  /\ ~ CommitFails(Visible, Staged(Current, at))
  /\ LET committed == Merge(Visible, Staged(Current, at))
     IN /\ postCore' = IF InCore THEN committed ELSE postCore
        /\ scope' = IF InCore THEN scope ELSE committed
  /\ Settle("passed")

\* Faulty: only the result of the core is filled in.
AbandonWithoutSkips ==
  /\ pc = "run"
  /\ BlockOver
  /\ InCore
  /\ BlockStatus(at[1]) # "Passed"
  /\ slot' = [slot EXCEPT ![at[1]] = BlockStatus(at[1])]
  /\ outcome' = [status |-> "Aborted", error |-> "DependencyFailed"]
  /\ pc' = "done"
  /\ UNCHANGED <<suite, at, postCore, scope, verdict, suiteFailed, sends>>

\* The core did not pass: every block without a result is skipped.
AbandonSuite ==
  /\ pc = "run"
  /\ BlockOver
  /\ InCore
  /\ BlockStatus(at[1]) # "Passed"
  /\ verdict' = [p \in Positions(suite) |->
                   IF verdict[p] = "none" THEN "skipped_core" ELSE verdict[p]]
  /\ slot' = [b \in DOMAIN suite |->
                IF b = at[1] THEN BlockStatus(b)
                ELSE IF slot[b] = "none" THEN "Skipped" ELSE slot[b]]
  /\ outcome' = [status |-> "Aborted", error |-> "DependencyFailed"]
  /\ pc' = "done"
  /\ UNCHANGED <<suite, at, postCore, scope, suiteFailed, sends>>

\* A block got its result and the suite goes on.
CloseBlock ==
  /\ pc = "run"
  /\ BlockOver
  /\ InCore => BlockStatus(at[1]) = "Passed"
  /\ slot' = [slot EXCEPT ![at[1]] = BlockStatus(at[1])]
  /\ suiteFailed' = (suiteFailed \/ BlockStatus(at[1]) # "Passed")

\* Faulty: one scope is shared by the blocks instead of a clone for each.
NextBlockSharedScope ==
  /\ CloseBlock
  /\ Following(at[1]) # {}
  /\ Enter(Following(at[1]))
  /\ scope' = IF InCore THEN postCore ELSE scope
  /\ UNCHANGED <<suite, pc, postCore, verdict, outcome, sends>>

NextBlock ==
  /\ CloseBlock
  /\ Following(at[1]) # {}
  /\ Enter(Following(at[1]))
  /\ scope' = postCore
  /\ UNCHANGED <<suite, pc, postCore, verdict, outcome, sends>>

Finish ==
  /\ CloseBlock
  /\ Following(at[1]) = {}
  /\ outcome' = [status |-> IF suiteFailed' THEN "Failed" ELSE "Passed",
                 error |-> "none"]
  /\ pc' = "done"
  /\ UNCHANGED <<suite, at, postCore, scope, verdict, sends>>

\* Steps the engine takes on its own, and steps that consume an answer.
Advance == Reject \/ Start \/ FailResolution \/ BeginTest
             \/ AbandonSuite \/ NextBlock \/ Finish
Answer == AnswerFails \/ CaptureFails \/ TestPasses

Next == Advance \/ Answer

(***************************************************************************)
(* The engine is polled until it completes, and every request ends: the    *)
(* client always sets a timeout.                                           *)
(***************************************************************************)
Fairness == WF_engineVars(Next)

Spec == Init /\ [][Next]_engineVars /\ Fairness

-----------------------------------------------------------------------------
(***************************************************************************)
(* Properties.                                                             *)
(***************************************************************************)

\* Every variable of the engine ranges over the values its Rust type allows.
TypeOK ==
  /\ suite \in Suites
  /\ pc \in {"start", "run", "await", "done"}
  /\ at \in (Nat \ {0}) \X (Nat \ {0})
  /\ pc \in {"run", "await"} => at[1] \in DOMAIN suite
  /\ pc = "await" => at \in Positions(suite)
  /\ IsStore(postCore)
  /\ IsStore(scope)
  /\ verdict \in [Positions(suite) -> Verdicts]
  /\ slot \in [DOMAIN suite -> Statuses \cup {"none"}]
  /\ suiteFailed \in BOOLEAN
  /\ outcome \in Outcomes
  /\ sends \in [Positions(suite) -> Nat]

\* A variable is visible only if it is predefined or was captured by a test
\* that passed and is in scope: a core test, or an earlier test of the block
\* being run.  execute clones post_core_variables for each block, so nothing
\* leaks from a failed test, a sibling pipeline or a standalone test.
BelongsTo(store, sources) ==
  \A n \in DOMAIN store :
     IF store[n].by = Host THEN n \in Predefined
     ELSE /\ store[n].by \in sources
          /\ verdict[store[n].by] = "passed"
          /\ n \in CaptureNames(TestAt(suite, store[n].by))

ScopeIsolation ==
  /\ BelongsTo(postCore, CoreTests(suite))
  /\ BelongsTo(scope, CoreTests(suite) \cup Earlier(suite, at))

\* The static scopes of the validator are the dynamic scopes of the engine:
\* wherever the run has come, and whatever the server answered, the variables
\* visible to the next test are those that validate_suite computed for it.
EarlierPassed == \A q \in Earlier(suite, at) : verdict[q] = "passed"

ScopesAgree ==
  pc \in {"run", "await"} =>
    /\ PreflightPasses
    /\ ~ BlockOver => EarlierPassed
    /\ EarlierPassed => DOMAIN Visible = ScopeAt(suite, at)
    /\ ~ InCore => DOMAIN postCore = Predefined \cup Captured(suite, CoreTests(suite))

\* A suite that check_source accepts never meets an undefined variable, a
\* capture it cannot stage or a name collision at run time: the static
\* scopes of the validator and the dynamic scopes of the engine agree.
AcceptedSuitesResolve ==
  Accepts(suite) =>
    \A p \in Positions(suite) : verdict[p] \notin {"undefined", "aborted", "skipped_invalid"}

\* A request is sent at most once, and the result of a test says truthfully
\* whether its request was sent: nothing skipped or unresolved was sent, and
\* nothing passed or mismatched without being sent.
VerdictsMatchTraffic ==
  \A p \in Positions(suite) :
     sends[p] = IF \/ verdict[p] \in {"passed", "mismatch", "transport", "aborted"}
                   \/ pc = "await" /\ p = at
                THEN 1 ELSE 0

\* No request leaves before every test of the core, wherever the core stands
\* in the file, and every earlier test of the same pipeline has passed.
DependenciesPassFirst ==
  \A p \in Positions(suite) : sends[p] > 0 =>
     /\ \A q \in Earlier(suite, p) : verdict[q] = "passed"
     /\ KindAt(suite, p) # "core" =>
          \A q \in CoreTests(suite) : verdict[q] = "passed"

\* The final report leaves no block and no test without a result (the expect
\* in collect_results cannot fail), its block and suite statuses summarise
\* the tests, and each skip reason names the failure that caused the skip.
BlockPassed(b) == \A p \in Positions(suite) : p[1] = b => verdict[p] = "passed"

ReportIsComplete ==
  pc = "done" =>
    /\ \A p \in Positions(suite) : verdict[p] # "none"
    /\ \A b \in DOMAIN suite : slot[b] # "none" /\ (slot[b] = "Passed" => BlockPassed(b))
    /\ outcome.status = "Passed" <=>
         suite # <<>> /\ \A b \in DOMAIN suite : slot[b] = "Passed"
    /\ outcome.error = "DependencyFailed" <=>
         \E b \in Cores(suite) : slot[b] \in {"Failed", "Aborted"}
    /\ \A p \in Positions(suite) :
         /\ verdict[p] = "skipped_pipeline" =>
              \E q \in Earlier(suite, p) : StatusOf(verdict[q]) \in {"Failed", "Aborted"}
         /\ verdict[p] = "skipped_core" <=>
              /\ StatusOf(verdict[p]) = "Skipped"
              /\ \E q \in CoreTests(suite) : StatusOf(verdict[q]) \in {"Failed", "Aborted"}

\* Captures commit all at once, only in the step in which their test passes,
\* and never replace a visible variable (VariableStore::commit).
CommitsAtomically ==
  LET added == (DOMAIN postCore' \cup DOMAIN scope')
                 \ (DOMAIN postCore \cup DOMAIN scope)
      passes == {p \in Positions(suite) : verdict[p] # "passed" /\ verdict'[p] = "passed"}
  IN /\ added = UNION {CaptureNames(TestAt(suite, p)) : p \in passes}
     /\ \A n \in DOMAIN postCore : n \in DOMAIN postCore' /\ postCore'[n] = postCore[n]
     /\ at'[1] = at[1] =>
          \A n \in DOMAIN scope : n \in DOMAIN scope' /\ scope'[n] = scope[n]

CapturesAreAtomic == [][CommitsAtomically]_engineVars

\* The engine implements the promise of module SuiteVerdict: what it adds
\* (scopes, requests, the order of the blocks) only narrows the choices.
Promise == INSTANCE SuiteVerdict WITH
             status <- [p \in Positions(suite) |-> StatusOf(verdict[p])],
             outcome <- outcome.status

ImplementsVerdict == Promise!Init /\ [][Promise!Next]_(Promise!vars)

\* Every run ends with a report.
EventuallyReported == <>(pc = "done")
=============================================================================
