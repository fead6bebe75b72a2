----------------------------- MODULE RunCommand -----------------------------
(***************************************************************************)
(* `rettp check' and `rettp run' around one suite: argument check, input,  *)
(* the mandatory check, configuration, the engine raced against Ctrl+C,    *)
(* the reports and the exit code.  The engine of module Execution advances *)
(* only while the race is being polled.                                    *)
(***************************************************************************)
EXTENDS Execution

CONSTANTS
  Paths,       \* spellings of report paths, equal when PathBuf says so
  Files,       \* what a path can denote
  FileOf,      \* the file that each spelling denotes
  NoPath       \* the option was not given

ASSUME PathsAssumption == NoPath \notin Paths /\ FileOf \in [Paths -> Files]

VARIABLES
  command,     \* "check" or "run"
  paths,       \* the options --json-file and --junit-file
  stage,       \* the step `run' is at: arguments, prepare, check, configure, race, render,
               \* stdout, json, junit, status; or exited, or killed
  exit,        \* exit code, 0 until the process exits
  handled,     \* tokio's SIGINT handler is installed; it is never removed
  polling,     \* block_on is inside a poll of the race
  answered,    \* the future of the request in flight is ready
  ctrlC,       \* when Ctrl+C was pressed, see Interrupt
  printed,     \* the terminal report or the `valid' line was written
  temp,        \* the temporary file of the report being written
  disk,        \* file -> its content
  before,      \* the disk when the command started; never changes
  ioFailed     \* some operation of the operating system failed

fixedVars == <<command, paths, before>>
raceVars == <<handled, polling, answered, ctrlC>>
outputVars == <<printed, temp, disk>>
endVars == <<exit, ioFailed>>
runVars == <<engineVars, stage, fixedVars, raceVars, outputVars, endVars>>

Reports == {"json", "junit"}
Ended == stage \in {"exited", "killed"}

(***************************************************************************)
(* A file is known by what it holds and by how much of it is safe.         *)
(***************************************************************************)
Absent == [holds |-> "nothing", data |-> "synced"]
Old    == [holds |-> "old", data |-> "synced"]
Torn   == [holds |-> "torn", data |-> "partial"]
Contents == [holds : {"nothing", "old", "torn"} \cup Reports,
             data  : {"partial", "whole", "synced"}]

\* Faulty: an aborted suite counts as a failed one.
ExitCodeWithoutAbort == IF outcome.status = "Passed" THEN 0 ELSE 1

\* execution_exit_code
ExitCode ==
  CASE outcome.status = "Passed" -> 0
    [] outcome.status = "Failed" -> 1
    [] outcome.status = "Aborted" /\ CoreFailed -> 2
    [] OTHER -> 5

-----------------------------------------------------------------------------
RunInit ==
  /\ Init
  /\ command \in {"check", "run"}
  /\ paths \in [Reports -> Paths \cup {NoPath}]
  /\ command = "check" => \A r \in Reports : paths[r] = NoPath
  /\ stage = "arguments"
  /\ exit = 0
  /\ handled = FALSE
  /\ polling = FALSE
  /\ answered = FALSE
  /\ ctrlC = "never"
  /\ printed = FALSE
  /\ temp = "none"
  /\ disk \in [Files -> {Absent, Old}]
  /\ before = disk
  /\ ioFailed = FALSE

Exit(code) == stage' = "exited" /\ exit' = code

\* Go to stage s, touching nothing else of the command.
Proceed(s) ==
  /\ stage' = s
  /\ UNCHANGED <<engineVars, fixedVars, raceVars, outputVars, endVars>>

\* Leave with this code before anything was printed or written.
Refused(code, failed) ==
  /\ Exit(code)
  /\ ioFailed' = failed
  /\ UNCHANGED <<engineVars, fixedVars, raceVars, outputVars>>

\* The two options are compared as paths, not as files.
SamePath == paths["json"] # NoPath /\ paths["json"] = paths["junit"]

CheckArguments ==
  /\ stage = "arguments"
  /\ IF SamePath THEN Refused(4, FALSE) ELSE Proceed("prepare")

\* prepare_source: an unreadable or oversized source, env file or --var.
Prepare ==
  /\ stage = "prepare"
  /\ Proceed("check") \/ Refused(4, FALSE)

\* Faulty: diagnostics do not stop `run'.
CheckLeniently ==
  /\ stage = "check"
  /\ Proceed(IF command = "check" THEN "stdout" ELSE "configure")

\* Rendering a diagnostic may fail and then hides code 3.
Check ==
  /\ stage = "check"
  /\ IF Accepts(suite)
     THEN Proceed(IF command = "check" THEN "stdout" ELSE "configure")
     ELSE Refused(3, FALSE) \/ Refused(5, TRUE)

\* Base URL and timeout; then the HTTP client and the tokio runtime.
Configure ==
  /\ stage = "configure"
  /\ Proceed("race") \/ Refused(4, FALSE) \/ Refused(5, TRUE)

(***************************************************************************)
(* The race.  block_on polls the select when it is first entered and when  *)
(* the signal or the answer in flight wakes it; the select is biased and   *)
(* asks the signal first.  The first poll installs the signal handler.     *)
(***************************************************************************)
\* Faulty: the select is not biased and may poll the operation first.
PollUnbiased ==
  /\ stage = "race"
  /\ ~ polling
  /\ ~ handled \/ answered
  /\ handled' = TRUE
  /\ polling' = TRUE
  /\ UNCHANGED <<engineVars, fixedVars, outputVars, endVars, stage, answered, ctrlC>>

\* Faulty: the answer does not wake the select.
PollOnce ==
  /\ stage = "race"
  /\ ~ handled
  /\ ctrlC = "never"
  /\ handled' = TRUE
  /\ polling' = TRUE
  /\ UNCHANGED <<engineVars, fixedVars, outputVars, endVars, stage, answered, ctrlC>>

Poll ==
  /\ stage = "race"
  /\ ~ polling
  /\ ctrlC = "never"
  /\ ~ handled \/ answered
  /\ handled' = TRUE
  /\ polling' = TRUE
  /\ UNCHANGED <<engineVars, fixedVars, outputVars, endVars, stage, answered, ctrlC>>

HandlerFails ==
  /\ stage = "race"
  /\ ~ handled
  /\ Refused(5, TRUE)

\* The engine's future is dropped where it is suspended.
Interrupted ==
  /\ stage = "race"
  /\ ~ polling
  /\ ctrlC \in {"suspended", "polling"}
  /\ Refused(130, ioFailed)

Suspend ==
  /\ stage = "race"
  /\ polling
  /\ pc = "await"
  /\ ~ answered
  /\ polling' = FALSE
  /\ UNCHANGED <<engineVars, fixedVars, outputVars, endVars, stage, handled, answered, ctrlC>>

\* The operation completed within this poll, whatever was pressed meanwhile.
Completed ==
  /\ stage = "race"
  /\ polling
  /\ pc = "done"
  /\ polling' = FALSE
  /\ stage' = "render"
  /\ UNCHANGED <<engineVars, fixedVars, outputVars, endVars, handled, answered, ctrlC>>

RunEngine ==
  /\ stage = "race"
  /\ polling
  /\ \/ Advance /\ UNCHANGED answered
     \/ answered /\ Answer /\ answered' = FALSE
  /\ UNCHANGED <<fixedVars, outputVars, endVars, stage, handled, polling, ctrlC>>

\* Response, error or timeout of the request in flight.
Respond ==
  /\ stage = "race"
  /\ pc = "await"
  /\ ~ answered
  /\ answered' = TRUE
  /\ UNCHANGED <<engineVars, fixedVars, outputVars, endVars, stage, handled, polling, ctrlC>>

(***************************************************************************)
(* Reports.  All text is rendered before anything is written.              *)
(***************************************************************************)
IoFails ==
  /\ Exit(5)
  /\ ioFailed' = TRUE
  /\ temp' = "none"
  /\ UNCHANGED <<engineVars, fixedVars, raceVars, printed, disk>>

Render ==
  /\ stage = "render"
  /\ Proceed("stdout") \/ (paths["json"] # NoPath /\ IoFails)

Stdout ==
  /\ stage = "stdout"
  /\ \/ /\ printed' = TRUE
        /\ stage' = IF command = "check" THEN "exited" ELSE "json"
        /\ UNCHANGED <<engineVars, fixedVars, raceVars, endVars, temp, disk>>
     \/ IoFails

\* What follows the report of this kind.
NextStage == [json |-> "junit", junit |-> "status"]

SkipReport ==
  /\ stage \in Reports
  /\ paths[stage] = NoPath
  /\ Proceed(NextStage[stage])

\* Create the directories and the temporary file, write it, sync it.
TempSteps == [none |-> "partial", partial |-> "whole", whole |-> "synced"]

FillTemp ==
  /\ stage \in Reports
  /\ paths[stage] # NoPath
  /\ temp \in DOMAIN TempSteps
  /\ \/ /\ temp' = TempSteps[temp]
        /\ UNCHANGED <<engineVars, fixedVars, raceVars, endVars, stage, printed, disk>>
     \/ IoFails

\* Faulty: the temporary file is renamed before it is synced.
PersistUnsynced ==
  /\ stage \in Reports
  /\ temp = "whole"
  /\ disk' = [disk EXCEPT ![FileOf[paths[stage]]] = [holds |-> stage, data |-> temp]]
  /\ temp' = "none"
  /\ stage' = NextStage[stage]
  /\ UNCHANGED <<engineVars, fixedVars, raceVars, endVars, printed>>

Persist ==
  /\ stage \in Reports
  /\ temp = "synced"
  /\ \/ /\ disk' = [disk EXCEPT ![FileOf[paths[stage]]] =
                      [holds |-> stage, data |-> temp]]
        /\ temp' = "none"
        /\ stage' = NextStage[stage]
        /\ UNCHANGED <<engineVars, fixedVars, raceVars, endVars, printed>>
     \/ IoFails

Status ==
  /\ stage = "status"
  /\ Exit(ExitCode)
  /\ UNCHANGED <<engineVars, fixedVars, raceVars, outputVars, ioFailed>>

(***************************************************************************)
(* The environment.  One Ctrl+C is enough: later ones find the handler of  *)
(* the first.  Without the handler it kills the process, with it it is     *)
(* remembered by the race and by nobody else.                              *)
(***************************************************************************)
Interrupt ==
  /\ ctrlC = "never"
  /\ ~ Ended
  /\ ctrlC' = IF ~ handled THEN "early"
              ELSE IF stage # "race" \/ pc = "done" THEN "late"
              ELSE IF polling THEN "polling" ELSE "suspended"
  /\ stage' = IF handled THEN stage ELSE "killed"
  /\ UNCHANGED <<engineVars, fixedVars, outputVars, endVars, handled, polling, answered>>

\* The process dies at any point; after a power loss a rename whose directory
\* was not synced may be undone, and data that was not synced is lost.
Survivors(f) ==
  {disk[f], before[f], IF disk[f].data = "synced" THEN disk[f] ELSE Torn}

Crash ==
  /\ ~ Ended
  /\ stage' = "killed"
  /\ disk' \in {d \in [Files -> Contents] : \A f \in Files : d[f] \in Survivors(f)}
  /\ UNCHANGED <<engineVars, fixedVars, raceVars, endVars, printed, temp>>

Process ==
  \/ CheckArguments \/ Prepare \/ Check \/ Configure
  \/ Poll \/ HandlerFails \/ Interrupted \/ RunEngine \/ Suspend \/ Completed
  \/ Render \/ Stdout \/ SkipReport \/ FillTemp \/ Persist \/ Status

RunNext == Process \/ Respond \/ Interrupt \/ Crash

\* The process is scheduled, and every request ends: ReqwestHttpClient always
\* sets a timeout.  Nobody has to press Ctrl+C, and nothing has to crash.
RunFairness == WF_runVars(Process) /\ WF_runVars(Respond)

RunSpec == RunInit /\ [][RunNext]_runVars /\ RunFairness

-----------------------------------------------------------------------------
(***************************************************************************)
(* Properties.                                                             *)
(***************************************************************************)

Untouched == disk = before
Silent == \A p \in Positions(suite) : sends[p] = 0

\* The file of a requested report holds it.
Published(r) == paths[r] # NoPath => disk[FileOf[paths[r]]].holds = r

\* `run' compares the two options as paths: two spellings of one file pass, and
\* then the second report replaces the first.
DistinctFiles ==
  \A r, q \in Reports : 
     r # q /\ paths[r] # NoPath /\ paths[q] # NoPath => FileOf[paths[r]] # FileOf[paths[q]]

\* The exit code tells a CI job the truth: 0, 1 and 2 agree with the results
\* of the tests and are given only when everything requested was printed and
\* published; 3 and 4 mean that nothing was sent or written; 5 means that an
\* operation of the system failed, never a verdict of the engine; and 130
\* that no report was touched.
ExitContract ==
  stage = "exited" =>
    CASE exit = 0 -> /\ Accepts(suite) /\ printed
                     /\ command = "run" =>
                          \A p \in Positions(suite) : verdict[p] = "passed"
                     /\ DistinctFiles => \A r \in Reports : Published(r)
      [] exit = 1 -> /\ \E p \in Positions(suite) : StatusOf(verdict[p]) = "Failed"
                     /\ \A p \in CoreTests(suite) : verdict[p] = "passed"
                     /\ DistinctFiles => \A r \in Reports : Published(r)
      [] exit = 2 -> /\ \E p \in CoreTests(suite) : StatusOf(verdict[p]) = "Failed"
                     /\ \A p \in Positions(suite) \ CoreTests(suite) : verdict[p] = "skipped_core"
                     /\ DistinctFiles => \A r \in Reports : Published(r)
      [] exit = 3 -> ~ Accepts(suite) /\ Silent /\ Untouched
      [] exit = 4 -> Silent /\ Untouched
      [] exit = 5 -> ioFailed
      [] exit = 130 -> Untouched /\ ~ printed /\ ctrlC # "never"

\* No request leaves for a suite that was not accepted by check_source.
NothingRunsUnchecked ==
  ~ Silent => /\ command = "run" /\ Accepts(suite)
              /\ \A p \in Positions(suite) :
                   verdict[p] \notin {"undefined", "aborted", "skipped_invalid"}

\* Once Ctrl+C is pressed while the engine waits for an answer, it sends
\* nothing more, decides nothing more and no report is replaced, even if the
\* answer arrives at the same instant (the select is biased to the signal).
StopsTraffic ==
  ctrlC = "suspended" => UNCHANGED <<sends, verdict, printed>> /\ disk' = disk

InterruptStopsTraffic == [][StopsTraffic]_runVars

\* Whatever fails, and wherever the process dies, a report file holds what it
\* held before or one complete report that was asked for under that name, and
\* a report is never published before the terminal output (atomic_file).
ReportsNeverTorn ==
  \A f \in Files :
     \/ disk[f] = before[f]
     \/ /\ disk[f].holds \in Reports /\ disk[f].data # "partial"
        /\ paths[disk[f].holds] # NoPath
        /\ FileOf[paths[disk[f].holds]] = f
        /\ printed

\* The command ends: no request and no wake-up is lost.
EventuallyExits == <>Ended

(***************************************************************************)
(* What the documentation says and the code does not do.                   *)
(***************************************************************************)

\* README: Ctrl+C cancels in-flight execution and writes no new reports.  A
\* Ctrl+C in the poll in which the engine finishes is never looked at.
InterruptPreservesReports == ctrlC \in {"suspended", "polling"} => disk = before
=============================================================================
