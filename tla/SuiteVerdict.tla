---------------------------- MODULE SuiteVerdict ----------------------------
(***************************************************************************)
(* What running a suite promises, whatever order the independent blocks    *)
(* are run in and however a test comes to its result: every test gets one  *)
(* final status; a test runs only after everything it depends on passed; a *)
(* failure skips exactly the tests that depend on it; the suite's status   *)
(* is a summary of its tests.  Variables, captures, requests and the       *)
(* network do not appear.                                                  *)
(***************************************************************************)
EXTENDS Suites

CONSTANT Suites    \* the suites considered

VARIABLES
  suite,     \* the suite being run
  status,    \* position of a test -> its status
  outcome    \* status of the suite, "running" until it is decided

vars == <<suite, status, outcome>>

Final == {"Passed", "Failed", "Aborted", "Skipped"}

(***************************************************************************)
(* A test depends on the whole core and on the earlier tests of its block. *)
(***************************************************************************)
DependsOn(s, p) == 
  Earlier(s, p) \cup (IF KindAt(s, p) = "core" THEN {} ELSE CoreTests(s))

Init ==
  /\ suite \in Suites
  /\ status = [p \in Positions(suite) |-> "Pending"]
  /\ outcome = "running"

\* A suite of an impossible shape is refused before anything runs.
Refuse ==
  /\ outcome = "running"
  /\ ~ WellShaped(suite)
  /\ status' = [p \in Positions(suite) |-> "Skipped"]
  /\ outcome' = "Aborted"
  /\ UNCHANGED suite

\* A test whose dependencies passed is decided.  If it does not pass, the
\* rest of its block is skipped with it.
Decide(p, v) ==
  /\ outcome = "running"
  /\ WellShaped(suite)
  /\ status[p] = "Pending"
  /\ \A q \in DependsOn(suite, p) : status[q] = "Passed"
  /\ status' = [q \in Positions(suite) |->
                  IF q = p THEN v
                  ELSE IF v # "Passed" /\ p \in Earlier(suite, q) THEN "Skipped"
                  ELSE status[q]]
  /\ UNCHANGED <<suite, outcome>>

\* A test of the core did not pass: nothing else will run.
Abandon ==
  /\ outcome = "running"
  /\ \E p \in CoreTests(suite) : status[p] \in {"Failed", "Aborted"}
  /\ status' = [p \in Positions(suite) |->
                  IF status[p] = "Pending" THEN "Skipped" ELSE status[p]]
  /\ outcome' = "Aborted"
  /\ UNCHANGED suite

Conclude ==
  /\ outcome = "running"
  /\ WellShaped(suite)
  /\ \A p \in Positions(suite) : status[p] # "Pending"
  /\ \A p \in CoreTests(suite) : status[p] = "Passed"
  /\ outcome' = IF \A p \in Positions(suite) : status[p] = "Passed"
                THEN "Passed" ELSE "Failed"
  /\ UNCHANGED <<suite, status>>

Next ==
  \/ Refuse
  \/ \E p \in Positions(suite), v \in {"Passed", "Failed", "Aborted"} : Decide(p, v)
  \/ Abandon
  \/ Conclude

Spec == Init /\ [][Next]_vars
=============================================================================
