------------------------------- MODULE Reports ------------------------------
(***************************************************************************)
(* emit_run_report: the result of a run of Execution is copied into a      *)
(* RunReport, and the report is rendered for the terminal, as JSON and as  *)
(* JUnit XML.  Each document is modelled by what a reader tallies in it:   *)
(* statuses, counts and the elements under a testcase; durations, names    *)
(* and texts are left out.  JSON is the RunReport itself.                  *)
(***************************************************************************)
EXTENDS Execution, Integers, FiniteSets

VARIABLES
  report,    \* the RunReport, which is also the JSON document
  terminal,  \* the lines printed
  junit,     \* the JUnit document
  exitCode   \* what the process exits with, -1 before it does

reportVars == <<report, terminal, junit, exitCode>>

Unwritten == [blocks |-> <<>>]

-----------------------------------------------------------------------------
(***************************************************************************)
(* RunReport::from_suite_result.                                           *)
(***************************************************************************)
ErrorOf(v) ==
  CASE v \in ResolutionErrors -> "variable_resolution"
    [] v = "transport" -> "http"
    [] v = "aborted" -> "internal"
    [] v \in Skips -> "dependency_failed"
    [] OTHER -> "none"

ReportTest(v) ==
  [status |-> StatusOf(v), failures |-> v = "mismatch", error |-> ErrorOf(v)]

ReportBlock(b) ==
  [status |-> slot[b],
   tests |-> [i \in DOMAIN suite[b].tests |-> ReportTest(verdict[<<b, i>>])]]

Summary(blocks) ==
  LET Has(status) == Cardinality({p \in Positions(blocks) : TestAt(blocks, p).status = status})
  IN [total |-> Cardinality(Positions(blocks)), passed |-> Has("Passed"),
      failed |-> Has("Failed"), skipped |-> Has("Skipped"), aborted |-> Has("Aborted")]

RunReport ==
  LET blocks == [b \in DOMAIN suite |-> ReportBlock(b)]
  IN [status |-> outcome.status, error |-> outcome.error,
      blocks |-> blocks, summary |-> Summary(blocks)]

-----------------------------------------------------------------------------
(***************************************************************************)
(* JunitReporter.  Elements and counts come from two separate matches over *)
(* the status of a test.                                                   *)
(***************************************************************************)
IsAssertionFailure(test) == test.status = "Failed" /\ test.error = "none" /\ test.failures

Element(test) ==
  CASE test.status = "Passed" -> "none"
    [] test.status = "Skipped" -> "skipped"
    [] IsAssertionFailure(test) -> "failure"
    [] OTHER -> "error"

\* Faulty: every failed test is counted as a failure.
IsCountedFailureByStatus(test) == test.status = "Failed"

IsCountedFailure(test) == test.status = "Failed" /\ test.error = "none" /\ test.failures

IsCountedError(test) == test.status \in {"Failed", "Aborted"} /\ ~ IsCountedFailure(test)

BlockCounts(block) ==
  LET tests == DOMAIN block.tests
  IN [tests |-> Cardinality(tests),
      failures |-> Cardinality({i \in tests : IsCountedFailure(block.tests[i])}),
      errors |-> Cardinality({i \in tests : IsCountedError(block.tests[i])}),
      skipped |-> Cardinality({i \in tests : block.tests[i].status = "Skipped"})]

RenderBlock(block) ==
  [counts |-> BlockCounts(block),
   cases |-> [i \in DOMAIN block.tests |-> Element(block.tests[i])]]

\* Faulty: a suite-level error adds nothing to the document.
SyntheticNever(r) == <<>>

Synthetic(r) ==
  IF r.error = "none" THEN <<>>
  ELSE <<[counts |-> [tests |-> 1, failures |-> 0, errors |-> 1, skipped |-> 0],
          cases |-> <<"error">>]>>

\* The total of a sequence of numbers.
Sum(numbers) ==
  LET total[n \in 0 .. Len(numbers)] == IF n = 0 THEN 0 ELSE total[n - 1] + numbers[n]
  IN total[Len(numbers)]

ReportCounts(r) ==
  LET Total(field) == Sum([b \in DOMAIN r.blocks |-> BlockCounts(r.blocks[b])[field]])
      synthetic == Len(Synthetic(r))
  IN [tests |-> Total("tests") + synthetic, failures |-> Total("failures"),
      errors |-> Total("errors") + synthetic, skipped |-> Total("skipped")]

RenderJunit(r) ==
  [counts |-> ReportCounts(r),
   blocks |-> [b \in DOMAIN r.blocks |-> RenderBlock(r.blocks[b])] \o Synthetic(r)]

(***************************************************************************)
(* TerminalReporter.                                                       *)
(***************************************************************************)
Label(status) ==
  CASE status = "Passed" -> "PASS" [] status = "Failed" -> "FAIL"
    [] status = "Skipped" -> "SKIP" [] status = "Aborted" -> "ABORT"

RenderTerminal(r) ==
  [status |-> Label(r.status),
   blocks |-> [b \in DOMAIN r.blocks |->
                 [status |-> Label(r.blocks[b].status),
                  tests |-> [i \in DOMAIN r.blocks[b].tests |->
                               Label(r.blocks[b].tests[i].status)]]],
   summary |-> r.summary,
   error |-> r.error]

-----------------------------------------------------------------------------
ExecutionExitCode ==
  CASE outcome.status = "Passed" -> 0
    [] outcome.status = "Failed" -> 1
    [] outcome.status = "Aborted" /\ CoreFailed -> 2
    [] OTHER -> 5

ReportsInit ==
  /\ Init
  /\ report = Unwritten
  /\ terminal = Unwritten
  /\ junit = Unwritten
  /\ exitCode = -1

EmitRunReport ==
  /\ pc = "done"
  /\ exitCode = -1
  /\ report' = RunReport
  /\ terminal' = RenderTerminal(report')
  /\ junit' = RenderJunit(report')
  /\ exitCode' = ExecutionExitCode
  /\ UNCHANGED engineVars

ReportsNext == (Next /\ UNCHANGED reportVars) \/ EmitRunReport

ReportsSpec == ReportsInit /\ [][ReportsNext]_<<engineVars, reportVars>>

-----------------------------------------------------------------------------
(***************************************************************************)
(* Properties.                                                             *)
(***************************************************************************)
Emitted == exitCode # -1

\* The counts of every document are the counts of what the document contains,
\* for each testsuite and for the whole, and no test of the suite is missing:
\* render_test and block_counts decide alike (JunitReporter::render).
Holds(counts, cases) ==
  LET Has(element) == Cardinality({i \in DOMAIN cases : cases[i] = element})
  IN counts = [tests |-> Cardinality(DOMAIN cases), failures |-> Has("failure"),
               errors |-> Has("error"), skipped |-> Has("skipped")]

Cases == [p \in UNION {{b} \X DOMAIN junit.blocks[b].cases : b \in DOMAIN junit.blocks} |->
            junit.blocks[p[1]].cases[p[2]]]

Labels == [p \in Positions(terminal.blocks) |-> TestAt(terminal.blocks, p)]

TalliesAgree ==
  Emitted =>
    /\ \A b \in DOMAIN junit.blocks : Holds(junit.blocks[b].counts, junit.blocks[b].cases)
    /\ Holds(junit.counts, Cases)
    /\ LET Has(label) == Cardinality({p \in DOMAIN Labels : Labels[p] = label})
       IN /\ DOMAIN Labels = Positions(suite)
          /\ terminal.summary = [total |-> Cardinality(DOMAIN Labels), passed |-> Has("PASS"),
                                 failed |-> Has("FAIL"), skipped |-> Has("SKIP"),
                                 aborted |-> Has("ABORT")]

\* The process, the JSON report, the JUnit report and the terminal tell the
\* same story: they show success together, and only if every test passed.  A
\* suite refused by preflight or abandoned after its core shows an error even
\* though no test of it may have failed (junit.rs: "so CI cannot treat an
\* executor invariant failure as success").
Succeeds == [code     |-> exitCode = 0,
             json     |-> report.status = "Passed",
             tests    |-> report.error = "none" /\ report.summary.passed = report.summary.total,
             junit    |-> junit.counts.failures + junit.counts.errors = 0,
             terminal |-> terminal.status = "PASS" /\ terminal.error = "none"]

VerdictsAgree ==
  Emitted => \A one, other \in DOMAIN Succeeds : Succeeds[one] = Succeeds[other]
=============================================================================
