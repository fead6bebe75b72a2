------------------------------ MODULE RunProofs -----------------------------
(***************************************************************************)
(* Theorems about the two modules around the engine, for every suite.      *)
(*                                                                         *)
(* RunCommand, for any report paths and any disk, with a server, a user    *)
(* and a power supply that may do anything: what the exit code promises    *)
(* (ExitContract), what may be sent (NothingRunsUnchecked), what a report  *)
(* file holds (ReportsNeverTorn) and what Ctrl+C stops                     *)
(* (InterruptStopsTraffic).  Every step of the command is a step of the    *)
(* engine or leaves the engine alone, so that what is proved of the engine *)
(* holds inside the command.                                               *)
(*                                                                         *)
(* Reports: the counts of each document are those of what it contains      *)
(* (TalliesAgree), and exit code, JSON, JUnit and terminal agree on        *)
(* success (VerdictsAgree).                                                *)
(***************************************************************************)
EXTENDS RunCommand, Reports, ExecutionProofs, FiniteSetTheorems, SequenceTheorems

(***************************************************************************)
(* The command.                                                            *)
(***************************************************************************)
Early == {"arguments", "prepare", "check", "configure"}
Late == {"json", "junit", "status"}
Stages == Early \cup {"race", "render", "stdout"} \cup Late \cup {"exited", "killed"}

\* What the proofs need of the types of the variables.
OptionTypes ==
  /\ command \in {"check", "run"}
  /\ paths \in [Reports -> Paths \cup {NoPath}]
  /\ command = "check" => \A r \in Reports : paths[r] = NoPath

(***************************************************************************)
(* The engine inside the command.                                          *)
(***************************************************************************)

\* Every step of the command is a step of the engine or leaves it alone.
LEMMA EngineInside == [RunNext]_runVars => [Next]_engineVars
  BY DEF RunNext, Process, CheckArguments, Prepare, Check, Configure, Poll, HandlerFails,
         Interrupted, RunEngine, Suspend, Completed, Render, Stdout, SkipReport, FillTemp,
         Persist, Status, Respond, Interrupt, Crash, Proceed, Refused, IoFails, Next, runVars

\* What the theorems use of the engine.
EngineInv == ReportInv /\ Endings /\ ReportIsComplete /\ AcceptedSuitesResolve

\* The engine has not started when the command has not.
LEMMA InitEngine == RunInit => EngineInv
  BY InitReport DEF RunInit, EngineInv, Endings, ReportIsComplete,
                     AcceptedSuitesResolve, Init

\* What holds of the engine alone holds of it inside the command.
LEMMA NextEngine == EngineInv /\ [Next]_engineVars => EngineInv'
  <1>1. ReportInv => TypeOK /\ ScopesAgree
    BY DEF ReportInv, TrafficInv
  <1> QED
    BY <1>1, NextReport, NextEndings, NextComplete, NextResolves DEF EngineInv

(***************************************************************************)
(* The command, action by action: what moves and what stays.               *)
(***************************************************************************)

\* The arguments and the first content of the disk are fixed.
LEMMA FixedStay == [RunNext]_runVars => UNCHANGED fixedVars
  BY DEF RunNext, Process, CheckArguments, Prepare, Check, Configure, Poll, HandlerFails,
         Interrupted, RunEngine, Suspend, Completed, Render, Stdout, SkipReport, FillTemp,
         Persist, Status, Respond, Interrupt, Crash, Proceed, Refused, IoFails, runVars,
         fixedVars

\* Only a report that is published and a crash change the disk.
LEMMA DiskStays ==
  ASSUME [RunNext]_runVars
  PROVE  disk' = disk \/ Persist \/ Crash
  BY DEF RunNext, Process, CheckArguments, Prepare, Check, Configure, Poll, HandlerFails,
         Interrupted, RunEngine, Suspend, Completed, Render, Stdout, SkipReport, FillTemp,
         Status, Respond, Interrupt, Proceed, Refused, IoFails, runVars, outputVars

\* The suite is fixed, too.
LEMMA SuiteStays == [Next]_engineVars => suite' = suite
  BY DEF Next, Advance, Answer, Reject, Start, FailResolution, BeginTest, AnswerFails,
         CaptureFails, TestPasses, AbandonSuite, NextBlock, Finish, CloseBlock, Settle,
         engineVars

(***************************************************************************)
(* How far the command has come.                                           *)
(***************************************************************************)
Stage ==
  /\ stage \in Stages
  /\ stage \in Early => pc = "start"
  /\ stage \in {"configure", "race", "render"} \cup Late => command = "run" /\ Accepts(suite)
  /\ stage = "stdout" => Accepts(suite) /\ (command = "run" => pc = "done")
  /\ stage \in {"render"} \cup Late => pc = "done"
  /\ pc # "start" => command = "run" /\ Accepts(suite)

\* The stage tells how far the engine is.
LEMMA NextStages == OptionTypes /\ Stage /\ [RunNext]_runVars => Stage'
  <1> SUFFICES ASSUME OptionTypes, Stage, [RunNext]_runVars
               PROVE  Stage'
    OBVIOUS
  <1>0. suite' = suite /\ command' = command
    BY EngineInside, SuiteStays, FixedStay DEF fixedVars
  <1> USE DEF Stages, Early, Late
  <1>1. CASE CheckArguments \/ Prepare
    BY <1>0, <1>1 DEF CheckArguments, Prepare, Proceed, Refused, Exit, Stage, engineVars
  <1>2. CASE Check
    BY <1>0, <1>2 DEF Check, Proceed, Refused, Exit, Stage, OptionTypes, engineVars
  <1>3. CASE Configure
    BY <1>0, <1>3 DEF Configure, Proceed, Refused, Exit, Stage, engineVars
  <1>4. CASE Poll \/ HandlerFails \/ Interrupted \/ Suspend \/ Completed
    BY <1>0, <1>4 DEF Poll, HandlerFails, Interrupted, Suspend, Completed, Refused, Exit,
                      Stage, engineVars
  <1>5. CASE RunEngine
    BY <1>0, <1>5 DEF RunEngine, Stage
  <1>6. CASE Render \/ Stdout
    BY <1>0, <1>6 DEF Render, Stdout, Proceed, IoFails, Exit, Stage, OptionTypes, engineVars
  <1>7. CASE SkipReport \/ FillTemp \/ Persist
    BY <1>0, <1>7 DEF SkipReport, FillTemp, Persist, Proceed, IoFails, Exit, NextStage, Reports,
                      Stage, engineVars
  <1>8. CASE Status \/ Respond \/ Interrupt \/ Crash \/ UNCHANGED runVars
    BY <1>0, <1>8 DEF Status, Respond, Interrupt, Crash, Exit, Stage, runVars, engineVars
  <1> QED
    BY <1>1, <1>2, <1>3, <1>4, <1>5, <1>6, <1>7, <1>8 DEF RunNext, Process

\* No request leaves for a suite that was not accepted by check_source,
\* whatever the server answers and wherever the process dies.
THEOREM UncheckedNeverRuns == RunSpec => []NothingRunsUnchecked
  <1>1. RunInit => OptionTypes /\ Stage
    BY DEF RunInit, Init, OptionTypes, Stage, Stages, Early, Late
  <1>2. OptionTypes /\ [RunNext]_runVars => OptionTypes'
    BY FixedStay DEF OptionTypes, fixedVars
  <1>3. EngineInv /\ Stage => NothingRunsUnchecked
    BY DEF EngineInv, ReportInv, TrafficInv, Fresh, Stage, NothingRunsUnchecked, Silent,
           AcceptedSuitesResolve
  <1> QED
    BY <1>1, <1>2, <1>3, NextStages, InitEngine, NextEngine, EngineInside, PTL DEF RunSpec

(***************************************************************************)
(* What a report file holds.                                               *)
(***************************************************************************)

\* Before the first report nothing is on disk or in a temporary file, and
\* everything on disk is synced.
Output ==
  /\ stage \in Early \cup {"race", "render", "stdout"} =>
       disk = before /\ temp = "none" /\ printed = FALSE
  /\ stage \in Late => printed
  /\ stage \in Late /\ temp # "none" => stage \in Reports /\ paths[stage] # NoPath
  /\ disk \in [Files -> Contents] /\ before \in [Files -> Contents]
  /\ \A f \in Files : disk[f].data = "synced" /\ before[f].data = "synced"

\* Nothing is written at the start.
LEMMA InitOutput == RunInit => Output
  <1> SUFFICES ASSUME RunInit PROVE Output
    OBVIOUS
  <1>1. {Absent, Old} \subseteq Contents
    BY DEF Absent, Old, Contents
  <1>2. Absent.data = "synced" /\ Old.data = "synced"
    BY DEF Absent, Old
  <1> QED
    BY <1>1, <1>2 DEF RunInit, Output, Early, Late

\* The steps that leave the disk alone.
LEMMA NextOutput == OptionTypes /\ Stage /\ Output /\ [RunNext]_runVars => Output'
  <1> SUFFICES ASSUME OptionTypes, Stage, Output, [RunNext]_runVars
               PROVE  Output'
    OBVIOUS
  <1>0. before' = before /\ paths' = paths /\ command' = command
    BY FixedStay DEF fixedVars
  <1> USE DEF Early, Late
  <1>1. CASE CheckArguments \/ Prepare \/ Check \/ Configure
    BY <1>0, <1>1 DEF CheckArguments, Prepare, Check, Configure, Proceed, Refused, Exit,
                      outputVars, Output
  <1>2. CASE Poll \/ HandlerFails \/ Interrupted \/ RunEngine \/ Suspend \/ Completed
    BY <1>0, <1>2 DEF Poll, HandlerFails, Interrupted, RunEngine, Suspend, Completed, Refused,
                      Exit, outputVars, Output
  <1>3. CASE Render \/ Stdout
    BY <1>0, <1>3 DEF Render, Stdout, Proceed, IoFails, Exit, outputVars, Output
  <1>4. CASE SkipReport \/ FillTemp
    BY <1>0, <1>4 DEF SkipReport, FillTemp, Proceed, IoFails, Exit, NextStage, Reports,
                      outputVars, Output
  <1>5. CASE Persist
    <2>1. CASE IoFails
      BY <1>0, <2>1 DEF IoFails, Exit, Output
    <2>2. CASE ~ IoFails
      <3>1. /\ disk' = [disk EXCEPT ![FileOf[paths[stage]]] = [holds |-> stage, data |-> temp]]
            /\ temp' = "none" /\ stage' = NextStage[stage] /\ stage \in Reports
            /\ temp = "synced" /\ printed' = printed
        BY <1>5, <2>2 DEF Persist
      <3>2. /\ [holds |-> stage, data |-> temp] \in Contents
            /\ [holds |-> stage, data |-> temp].data = "synced"
        BY <3>1 DEF Contents
      <3>3. /\ disk' \in [Files -> Contents]
            /\ \A f \in Files : disk'[f].data = "synced"
        BY <3>1, <3>2 DEF Output
      <3>4. stage' \in {"junit", "status"} /\ stage \in Late
        BY <3>1 DEF NextStage, Reports
      <3> QED
        BY <1>0, <3>1, <3>3, <3>4 DEF Output
    <2> QED
      BY <2>1, <2>2
  <1>6. CASE Crash
    <2>1. stage' = "killed" /\ disk' \in [Files -> Contents]
      BY <1>6 DEF Crash
    <2>2. ASSUME NEW f \in Files
          PROVE  disk'[f].data = "synced"
      BY <1>6 DEF Crash, Survivors, Output
    <2> QED
      BY <1>0, <2>1, <2>2 DEF Output
  <1>7. CASE Status \/ Respond \/ Interrupt \/ UNCHANGED runVars
    BY <1>0, <1>7 DEF Status, Respond, Interrupt, Exit, runVars, outputVars, Output
  <1> QED
    BY <1>1, <1>2, <1>3, <1>4, <1>5, <1>6, <1>7 DEF RunNext, Process

RunInv == OptionTypes /\ Stage /\ Output

\* The command starts well.
LEMMA InitRun == RunInit => RunInv
  BY InitOutput DEF RunInit, Init, RunInv, OptionTypes, Stage, Stages, Early, Late

\* The parts hold together.
LEMMA NextRun == RunInv /\ [RunNext]_runVars => RunInv'
  <1>1. OptionTypes /\ [RunNext]_runVars => OptionTypes'
    BY FixedStay DEF OptionTypes, fixedVars
  <1> QED
    BY <1>1, NextStages, NextOutput DEF RunInv

\* A report that is complete, was asked for under that name and came after
\* the terminal output.
Complete(f) ==
  /\ disk[f].holds \in Reports /\ disk[f].data # "partial"
  /\ paths[disk[f].holds] # NoPath
  /\ FileOf[paths[disk[f].holds]] = f
  /\ printed

\* What is printed stays printed.
LEMMA PrintedStays == [RunNext]_runVars => (printed => printed')
  BY DEF RunNext, Process, CheckArguments, Prepare, Check, Configure, Poll, HandlerFails,
         Interrupted, RunEngine, Suspend, Completed, Render, Stdout, SkipReport, FillTemp,
         Persist, Status, Respond, Interrupt, Crash, Proceed, Refused, IoFails, runVars,
         outputVars

\* Every step leaves old content or complete reports.
LEMMA NextTorn == RunInv /\ ReportsNeverTorn /\ [RunNext]_runVars => ReportsNeverTorn'
  <1> SUFFICES ASSUME RunInv, ReportsNeverTorn, [RunNext]_runVars, NEW f \in Files
               PROVE  disk'[f] = before'[f] \/ Complete(f)'
    BY DEF ReportsNeverTorn, Complete
  <1>0. /\ before' = before /\ paths' = paths /\ (printed => printed')
        /\ disk[f] = before[f] \/ Complete(f)
        /\ Output
    BY FixedStay, PrintedStays DEF fixedVars, ReportsNeverTorn, Complete, RunInv
  <1>1. CASE disk'[f] = disk[f]
    BY <1>0, <1>1 DEF Complete
  <1>2. CASE Persist /\ disk'[f] # disk[f]
    <2>1. /\ stage \in Reports /\ printed' = printed /\ printed
          /\ disk' = [disk EXCEPT ![FileOf[paths[stage]]] = [holds |-> stage, data |-> temp]]
          /\ temp = "synced"
          /\ paths[stage] # NoPath
      BY <1>0, <1>2 DEF Persist, IoFails, Output, Late, Reports
    <2>2. f = FileOf[paths[stage]] /\ disk'[f] = [holds |-> stage, data |-> "synced"]
      BY <1>0, <1>2, <2>1 DEF Output
    <2> QED
      BY <1>0, <2>1, <2>2 DEF Complete
  <1>3. CASE Crash
    <2>1. disk'[f] \in {disk[f], before[f]}
      BY <1>0, <1>3 DEF Crash, Survivors, Output
    <2> QED
      BY <1>0, <1>1, <2>1
  <1> QED
    BY <1>1, <1>2, <1>3, DiskStays

\* Whatever fails and wherever the process dies, a report file holds its old
\* content or one complete report that was asked for under its name
\* (atomic_file syncs a temporary file before it renames it).
THEOREM ReportFilesAreWhole == RunSpec => []ReportsNeverTorn
  <1>1. RunInit => ReportsNeverTorn
    BY DEF RunInit, ReportsNeverTorn
  <1> QED
    BY <1>1, InitRun, NextRun, NextTorn, PTL DEF RunSpec

(***************************************************************************)
(* What Ctrl+C stops.                                                      *)
(***************************************************************************)

\* A Ctrl+C that found the race suspended leaves it only by Interrupted.
Signal ==
  ctrlC = "suspended" =>
    /\ stage \in {"race", "exited", "killed"}
    /\ stage = "race" => handled /\ ~ polling

\* A Ctrl+C that the race will see leaves only the ways out.
LEMMA NextSignal == Signal /\ [RunNext]_runVars => Signal'
  BY DEF Signal, RunNext, Process, CheckArguments, Prepare, Check, Configure, Poll, HandlerFails,
         Interrupted, RunEngine, Suspend, Completed, Render, Stdout, SkipReport, FillTemp,
         Persist, Status, Respond, Interrupt, Crash, Proceed, Refused, IoFails, Exit, runVars,
         raceVars, Reports, Ended

\* After such a Ctrl+C, a step sends, decides and writes nothing.
LEMMA NextStops == RunInv /\ Signal /\ [RunNext]_runVars => [StopsTraffic]_runVars
  <1> SUFFICES ASSUME RunInv, Signal, RunNext, ctrlC = "suspended"
               PROVE  UNCHANGED <<sends, verdict, printed>> /\ disk' = disk
    BY DEF StopsTraffic
  <1>1. ~ Crash => disk' = disk /\ UNCHANGED <<sends, verdict, printed>>
    BY DEF Signal, RunNext, Process, CheckArguments, Prepare, Check, Configure, Poll, HandlerFails,
           Interrupted, RunEngine, Suspend, Completed, Render, Stdout, SkipReport, FillTemp,
           Persist, Status, Respond, Interrupt, Proceed, Refused, IoFails,
           Reports, engineVars, outputVars
  <1>2. CASE Crash
    <2>1. /\ disk = before /\ disk \in [Files -> Contents] /\ disk' \in [Files -> Contents]
          /\ \A f \in Files : disk[f].data = "synced" /\ disk'[f] \in Survivors(f)
      BY <1>2 DEF Crash, Ended, Signal, RunInv, Output, Early
    <2>2. \A f \in Files : disk'[f] = disk[f]
      BY <2>1 DEF Survivors
    <2>3. disk' = disk
      BY <2>1, <2>2
    <2> QED
      BY <1>2, <2>3 DEF Crash, engineVars
  <1> QED
    BY <1>1, <1>2

\* Once Ctrl+C is pressed while the engine waits for an answer, nothing more
\* is sent, decided, printed or written, even if the answer arrives with it
\* and even if the process dies (the select of race asks the signal first).
THEOREM InterruptStops == RunSpec => InterruptStopsTraffic
  <1>1. RunInit => Signal
    BY DEF RunInit, Signal
  <1> QED
    BY <1>1, InitRun, NextRun, NextSignal, NextStops, PTL DEF RunSpec, InterruptStopsTraffic

(***************************************************************************)
(* What the exit code promises.                                            *)
(***************************************************************************)

\* The reports that are already in place.
InPlace ==
  /\ ~ Ended => exit = 0
  /\ stage \in {"junit", "status"} /\ DistinctFiles => Published("json")
  /\ stage = "status" /\ DistinctFiles => Published("junit")

\* A report that was persisted stays in place until the command ends.
LEMMA NextInPlace == RunInv /\ InPlace /\ [RunNext]_runVars => InPlace'
  <1> SUFFICES ASSUME RunInv, InPlace, [RunNext]_runVars
               PROVE  InPlace'
    OBVIOUS
  <1>0. /\ paths' = paths
        /\ stage \in Stages /\ Output
        /\ DistinctFiles' <=> DistinctFiles
    BY FixedStay DEF fixedVars, RunInv, Stage, DistinctFiles
  <1> USE DEF Stages, Early, Late, Ended
  <1>1. CASE CheckArguments \/ Prepare \/ Check \/ Configure
    BY <1>0, <1>1 DEF CheckArguments, Prepare, Check, Configure, Proceed, Refused, Exit,
                      endVars, InPlace
  <1>2. CASE Poll \/ HandlerFails \/ Interrupted \/ RunEngine \/ Suspend \/ Completed
    BY <1>0, <1>2 DEF Poll, HandlerFails, Interrupted, RunEngine, Suspend, Completed, Refused,
                      Exit, endVars, InPlace
  <1>3. CASE Render \/ Stdout
    BY <1>0, <1>3 DEF Render, Stdout, Proceed, IoFails, Exit, endVars, InPlace
  <1>4. CASE SkipReport
    BY <1>0, <1>4 DEF SkipReport, Proceed, NextStage, Reports, endVars, outputVars, InPlace,
                      Published
  <1>5. CASE FillTemp
    BY <1>0, <1>5 DEF FillTemp, IoFails, Exit, Reports, endVars, InPlace, Published
  <1>6. CASE Persist
    <2>1. CASE IoFails
      BY <2>1 DEF IoFails, Exit, InPlace
    <2>2. CASE ~ IoFails
      <3>1. /\ disk' = [disk EXCEPT ![FileOf[paths[stage]]] = [holds |-> stage, data |-> temp]]
            /\ stage' = NextStage[stage] /\ stage \in Reports /\ exit' = exit /\ temp # "none"
        BY <1>6, <2>2 DEF Persist, endVars
      <3>2. /\ paths[stage] \in Paths
            /\ FileOf[paths[stage]] \in Files
        BY <1>0, <3>1, PathsAssumption DEF Output, RunInv, OptionTypes, Reports
      <3>3. disk'[FileOf[paths[stage]]].holds = stage
        BY <1>0, <3>1, <3>2 DEF Output
      <3>4. CASE stage = "json"
        BY <1>0, <3>1, <3>3, <3>4 DEF NextStage, InPlace, Published
      <3>5. CASE stage = "junit"
        <4>1. ASSUME DistinctFiles, paths["json"] # NoPath
              PROVE  disk'[FileOf[paths["json"]]].holds = "json"
          <5>1. /\ FileOf[paths["json"]] # FileOf[paths["junit"]]
                /\ FileOf[paths["json"]] \in Files
            BY <1>0, <3>1, <3>5, <4>1, PathsAssumption
            DEF DistinctFiles, Reports, Output, RunInv, OptionTypes
          <5>2. disk'[FileOf[paths["json"]]] = disk[FileOf[paths["json"]]]
            BY <1>0, <3>1, <3>5, <5>1 DEF Output
          <5> QED
            BY <3>5, <4>1, <5>2 DEF InPlace, Published
        <4> QED
          BY <1>0, <3>1, <3>3, <3>5, <4>1 DEF NextStage, InPlace, Published
      <3> QED
        BY <3>1, <3>4, <3>5 DEF Reports
    <2> QED
      BY <2>1, <2>2
  <1>7. CASE Status \/ Crash
    BY <1>7 DEF Status, Crash, Exit, InPlace
  <1>8. CASE Respond \/ Interrupt \/ UNCHANGED runVars
    BY <1>0, <1>8 DEF Respond, Interrupt, runVars, outputVars, endVars, InPlace, Published
  <1> QED
    BY <1>1, <1>2, <1>3, <1>4, <1>5, <1>6, <1>7, <1>8 DEF RunNext, Process

\* While nothing was sent or written, leaving with 3, 4 or 5 tells the truth.
LEMMA LeavesEarly ==
  ASSUME EngineInv, RunInv, stage \in Early, exit' \in {3, 4, 5},
         UNCHANGED <<suite, before, engineVars, outputVars>>,
         exit' = 3 => ~ Accepts(suite),
         exit' = 5 => ioFailed'
  PROVE  ExitContract'
  <1>1. pc = "start" /\ disk = before
    BY DEF RunInv, Stage, Output
  <1>2. Silent
    BY <1>1 DEF EngineInv, ReportInv, TrafficInv, Fresh, Silent
  <1>3. Silent' /\ Untouched'
    BY <1>1, <1>2 DEF Silent, Untouched, engineVars, outputVars
  <1>4. exit' = 3 => ~ Accepts(suite)'
    OBVIOUS
  <1>5. CASE exit' = 3
    BY <1>3, <1>4, <1>5 DEF ExitContract
  <1>6. CASE exit' = 4
    BY <1>3, <1>6 DEF ExitContract
  <1>7. CASE exit' = 5
    BY <1>7 DEF ExitContract
  <1> QED
    BY <1>5, <1>6, <1>7

\* A failed operation of the system is reported as such.
LEMMA LeavesFailed ==
  ASSUME exit' = 5, ioFailed' = TRUE
  PROVE  ExitContract'
  BY DEF ExitContract

\* A suite that was accepted and ran to its end, has a code that fits.
LEMMA CodeFits ==
  ASSUME EngineInv, pc = "done", Accepts(suite)
  PROVE  /\ ExitCode \in {0, 1, 2}
         /\ ExitCode = 0 => \A p \in Positions(suite) : verdict[p] = "passed"
         /\ ExitCode = 1 => /\ \E p \in Positions(suite) : StatusOf(verdict[p]) = "Failed"
                            /\ \A p \in CoreTests(suite) : verdict[p] = "passed"
         /\ ExitCode = 2 => /\ \E p \in CoreTests(suite) : StatusOf(verdict[p]) = "Failed"
                            /\ \A p \in Positions(suite) \ CoreTests(suite) :
                                 verdict[p] = "skipped_core"
  <1>0. /\ ReportIsComplete /\ Endings /\ AcceptedSuitesResolve /\ TypeOK
        /\ CoreTests(suite) \subseteq Positions(suite)
    BY DEF EngineInv, ReportInv, TrafficInv, CoreTests
  <1>1. ~ EndsRefused
    BY PreflightIsShape DEF EndsRefused, Accepts
  <1>2. ASSUME NEW p \in Positions(suite), StatusOf(verdict[p]) \in Bad
        PROVE  StatusOf(verdict[p]) = "Failed"
    <2>1. verdict[p] \in Verdicts /\ verdict[p] # "aborted"
      BY <1>0 DEF TypeOK, AcceptedSuitesResolve
    <2> QED
      BY <1>2, <2>1 DEF StatusOf, Bad, Skips
  <1>3. CASE EndsConcluded
    <2>1. /\ AllPassed => ExitCode = 0
          /\ ~ AllPassed => ExitCode = 1
      BY <1>3 DEF EndsConcluded, ExitCode
    <2>2. CASE AllPassed
      BY <2>1, <2>2 DEF AllPassed
    <2>3. CASE ~ AllPassed
      BY <1>2, <1>3, <2>1, <2>3 DEF EndsConcluded
    <2> QED
      BY <2>2, <2>3
  <1>4. CASE EndsAbandoned
    <2>1. CoreFailed
      BY <1>0, <1>4 DEF EndsAbandoned, ReportIsComplete, CoreFailed
    <2>2. ExitCode = 2
      BY <1>4, <2>1 DEF EndsAbandoned, ExitCode
    <2> QED
      BY <1>0, <1>2, <1>4, <2>2 DEF EndsAbandoned
  <1> QED
    BY <1>0, <1>1, <1>3, <1>4 DEF Endings

\* At the end of run, the code of the engine is the code of the process.
LEMMA LeavesWithStatus ==
  ASSUME EngineInv, RunInv, InPlace, Status, UNCHANGED fixedVars
  PROVE  ExitContract'
  <1>0. /\ pc = "done" /\ command = "run" /\ Accepts(suite) /\ printed
        /\ stage = "status"
    BY DEF RunInv, Stage, Output, Status, Late
  <1>1. /\ exit' = ExitCode /\ suite' = suite /\ verdict' = verdict /\ printed' = printed
        /\ disk' = disk /\ paths' = paths /\ command' = command
    BY DEF Status, Exit, engineVars, outputVars, fixedVars
  <1>2. DistinctFiles' => \A r \in Reports : Published(r)'
    BY <1>0, <1>1 DEF InPlace, DistinctFiles, Published, Reports
  <1>3. Accepts(suite)' /\ printed'
    BY <1>0, <1>1
  <1>4. /\ exit' \in {0, 1, 2}
        /\ exit' = 0 => \A p \in Positions(suite) : verdict[p] = "passed"
        /\ exit' = 1 => /\ \E p \in Positions(suite) : StatusOf(verdict[p]) = "Failed"
                        /\ \A p \in CoreTests(suite) : verdict[p] = "passed"
        /\ exit' = 2 => /\ \E p \in CoreTests(suite) : StatusOf(verdict[p]) = "Failed"
                        /\ \A p \in Positions(suite) \ CoreTests(suite) :
                             verdict[p] = "skipped_core"
    BY <1>0, <1>1, CodeFits
  <1>5. CASE exit' = 0
    BY <1>1, <1>2, <1>3, <1>4, <1>5 DEF ExitContract
  <1>6. CASE exit' = 1
    BY <1>1, <1>2, <1>4, <1>6 DEF ExitContract
  <1>7. CASE exit' = 2
    BY <1>1, <1>2, <1>4, <1>7 DEF ExitContract
  <1> QED
    BY <1>4, <1>5, <1>6, <1>7

\* Every way out of the command keeps the contract.
LEMMA NextExit ==
  EngineInv /\ RunInv /\ InPlace /\ ExitContract /\ [RunNext]_runVars => ExitContract'
  <1> SUFFICES ASSUME EngineInv, RunInv, InPlace, ExitContract, [RunNext]_runVars
               PROVE  ExitContract'
    OBVIOUS
  <1>0. /\ suite' = suite /\ before' = before /\ command' = command /\ UNCHANGED fixedVars
    BY EngineInside, SuiteStays, FixedStay DEF fixedVars
  <1> USE DEF Early, Late
  <1>1. CASE stage' # "exited"
    BY <1>1 DEF ExitContract
  <1>2. CASE CheckArguments \/ Prepare
    BY <1>0, <1>1, <1>2, LeavesEarly DEF CheckArguments, Prepare, Proceed, Refused, Exit
  <1>3. CASE Check \/ Configure
    BY <1>0, <1>1, <1>3, LeavesEarly DEF Check, Configure, Proceed, Refused, Exit
  <1>4. CASE HandlerFails
    BY <1>4, LeavesFailed DEF HandlerFails, Refused, Exit
  <1>5. CASE Interrupted
    <2>1. exit' = 130 /\ disk' = before' /\ ~ printed' /\ ctrlC' # "never"
      BY <1>0, <1>5 DEF Interrupted, Refused, Exit, outputVars, raceVars, RunInv, Output
    <2> QED
      BY <2>1 DEF ExitContract, Untouched
  <1>6. CASE Stdout
    <2>1. CASE IoFails
      BY <2>1, LeavesFailed DEF IoFails, Exit
    <2>2. CASE ~ IoFails /\ stage' = "exited"
      <3>1. /\ command = "check" /\ printed' = TRUE /\ exit' = exit /\ exit = 0
            /\ Accepts(suite)
        BY <1>6, <2>2 DEF Stdout, endVars, InPlace, Ended, RunInv, Stage
      <3>2. \A r \in Reports : Published(r)'
        BY <1>0, <3>1 DEF RunInv, OptionTypes, Published, fixedVars
      <3>3. Accepts(suite)'
        BY <1>0, <3>1
      <3> QED
        BY <1>0, <3>1, <3>2, <3>3 DEF ExitContract
    <2> QED
      BY <1>1, <2>1, <2>2
  <1>7. CASE Render \/ SkipReport \/ FillTemp \/ Persist
    <2>1. CASE IoFails
      BY <2>1, LeavesFailed DEF IoFails, Exit
    <2>2. CASE ~ IoFails
      BY <1>1, <1>7, <2>2 DEF Render, SkipReport, FillTemp, Persist, Proceed, NextStage, Reports
    <2> QED
      BY <2>1, <2>2
  <1>8. CASE Status
    BY <1>0, <1>8, LeavesWithStatus
  <1>9. CASE Poll \/ RunEngine \/ Suspend \/ Completed \/ Respond \/ Interrupt \/ Crash
    BY <1>1, <1>9 DEF Poll, RunEngine, Suspend, Completed, Respond, Interrupt, Crash, Ended
  <1>10. CASE UNCHANGED runVars
    BY <1>10 DEF runVars, engineVars, fixedVars, raceVars, outputVars, endVars, ExitContract,
                 Silent, Untouched, Published, DistinctFiles
  <1> QED
    BY <1>2, <1>3, <1>4, <1>5, <1>6, <1>7, <1>8, <1>9, <1>10 DEF RunNext, Process

\* The exit code tells the truth, for every suite, whatever the server, the
\* disk and the user do (dispatch, run and execution_exit_code).
THEOREM ExitCodesAreTrue == RunSpec => []ExitContract
  <1>1. RunInit => InPlace /\ ExitContract
    BY DEF RunInit, InPlace, ExitContract
  <1> QED
    BY <1>1, InitRun, NextRun, InitEngine, NextEngine, EngineInside, NextInPlace, NextExit, PTL
    DEF RunSpec

-----------------------------------------------------------------------------
(***************************************************************************)
(* Induction.  The provers cannot instantiate a theorem that takes an      *)
(* operator, so facts about all natural numbers are proved here from the   *)
(* least number for which they would be false.                             *)
(***************************************************************************)
Less == {pair \in Nat \X Nat : pair[1] < pair[2]}

\* A set of natural numbers has a least element.
LEMMA LeastNumber ==
  ASSUME NEW S \in SUBSET Nat, S # {}
  PROVE  \E m \in S : \A k \in S : m <= k
  <1>1. IsWellFoundedOn(Less, Nat)
    BY NatLessThanWellFounded DEF Less, OpToRel
  <1>2. PICK m \in S : \A k \in S : <<k, m>> \notin Less
    BY <1>1, WFMin
  <1>3. \A k, n \in Nat : <<k, n>> \in Less <=> k < n
    BY DEF Less
  <1>4. \A k \in S : ~ (k < m)
    BY <1>2, <1>3
  <1> QED
    BY <1>4

(***************************************************************************)
(* Sum.                                                                    *)
(***************************************************************************)
IsTotal(total, numbers, n) ==
  total = [i \in 0 .. n |-> IF i = 0 THEN 0 ELSE total[i - 1] + numbers[i]]

\* The running total of a sequence of numbers exists.
LEMMA TotalExists ==
  ASSUME NEW numbers \in Seq(Nat)
  PROVE  \E total : IsTotal(total, numbers, Len(numbers))
  <1> DEFINE Bad0 == {n \in 0 .. Len(numbers) : ~ \E total : IsTotal(total, numbers, n)}
  <1>1. ASSUME Bad0 # {}
        PROVE  FALSE
    <2>1. Bad0 \in SUBSET Nat
      OBVIOUS
    <2>2. PICK n \in Bad0 : \A k \in Bad0 : n <= k
      BY <1>1, <2>1, LeastNumber
    <2>3. n # 0
      <3>1. IsTotal([i \in 0 .. 0 |-> 0], numbers, 0)
        BY DEF IsTotal
      <3> QED
        BY <2>2, <3>1
    <2>4. PICK total : IsTotal(total, numbers, n - 1)
      <3>1. n - 1 \in 0 .. Len(numbers) /\ ~ (n <= n - 1)
        BY <2>2, <2>3
      <3> QED
        BY <2>2, <3>1
    <2> DEFINE longer == [i \in 0 .. n |-> IF i = n THEN total[n - 1] + numbers[n] ELSE total[i]]
    <2>5. IsTotal(longer, numbers, n)
      BY <2>2, <2>3, <2>4 DEF IsTotal
    <2> QED
      BY <2>2, <2>5
  <1>2. Len(numbers) \in 0 .. Len(numbers)
    OBVIOUS
  <1>3. Len(numbers) \notin Bad0
    BY <1>1
  <1> QED
    BY <1>2, <1>3

\* Sum adds one number after the other.
LEMMA SumIsTotal ==
  ASSUME NEW numbers \in Seq(Nat)
  PROVE  \E total : /\ IsTotal(total, numbers, Len(numbers))
                    /\ Sum(numbers) = total[Len(numbers)]
  <1> DEFINE chosen == CHOOSE total : IsTotal(total, numbers, Len(numbers))
  <1>1. IsTotal(chosen, numbers, Len(numbers))
    BY TotalExists
  <1>2. Sum(numbers) = chosen[Len(numbers)]
    BY DEF Sum, IsTotal
  <1> QED
    BY <1>1, <1>2

(***************************************************************************)
(* Counting by columns.                                                    *)
(***************************************************************************)
Cells(sets, n) == UNION {{b} \X sets[b] : b \in 1 .. n}

\* The cells of one more column are new.
LEMMA MoreCells ==
  ASSUME NEW sets, NEW n \in Nat, n # 0,
         IsFiniteSet(Cells(sets, n - 1)), IsFiniteSet(sets[n])
  PROVE  /\ IsFiniteSet(Cells(sets, n))
         /\ Cardinality(Cells(sets, n)) = Cardinality(Cells(sets, n - 1)) + Cardinality(sets[n])
  <1> DEFINE column == {n} \X sets[n]
  <1>1. IsFiniteSet({n}) /\ Cardinality({n}) = 1
    BY FS_Singleton
  <1>2. IsFiniteSet(column) /\ Cardinality(column) = 1 * Cardinality(sets[n])
    BY <1>1, FS_Product
  <1>3. Cardinality(sets[n]) \in Nat /\ Cardinality(Cells(sets, n - 1)) \in Nat
    BY FS_CardinalityType
  <1>4. Cells(sets, n) = Cells(sets, n - 1) \cup column
    <2>1. 1 .. n = (1 .. n - 1) \cup {n}
      OBVIOUS
    <2> QED
      BY <2>1 DEF Cells
  <1>5. Cells(sets, n - 1) \cap column = {}
    <2>1. \A p \in Cells(sets, n - 1) : p[1] \in 1 .. n - 1
      BY DEF Cells
    <2>2. \A p \in column : p[1] = n
      OBVIOUS
    <2> QED
      BY <2>1, <2>2
  <1>6. Cardinality(Cells(sets, n - 1) \cap column) = 0
    BY <1>5, FS_EmptySet
  <1> HIDE DEF column
  <1> QED
    BY <1>2, <1>3, <1>4, <1>6, FS_Union

\* Columns of the given sizes have as many cells as the sizes add up to.
LEMMA CellsAddUp ==
  ASSUME NEW numbers \in Seq(Nat), NEW sets,
         \A b \in 1 .. Len(numbers) : IsFiniteSet(sets[b]),
         \A b \in 1 .. Len(numbers) : Cardinality(sets[b]) = numbers[b]
  PROVE  /\ IsFiniteSet(Cells(sets, Len(numbers)))
         /\ Cardinality(Cells(sets, Len(numbers))) = Sum(numbers)
  <1>1. PICK total : /\ IsTotal(total, numbers, Len(numbers))
                     /\ Sum(numbers) = total[Len(numbers)]
    BY SumIsTotal
  <1> DEFINE Right(n) == /\ IsFiniteSet(Cells(sets, n))
                         /\ Cardinality(Cells(sets, n)) = total[n]
             Wrong == {n \in 0 .. Len(numbers) : ~ Right(n)}
  <1>2. Right(0)
    <2>1. Cells(sets, 0) = {}
      BY DEF Cells
    <2>2. total[0] = 0
      BY <1>1 DEF IsTotal
    <2> QED
      BY <2>1, <2>2, FS_EmptySet
  <1>3. ASSUME NEW n \in 1 .. Len(numbers), Right(n - 1)
        PROVE  Right(n)
    <2>1. total[n] = total[n - 1] + numbers[n]
      <3>1. n \in 0 .. Len(numbers) /\ n # 0
        OBVIOUS
      <3>2. \A i \in 0 .. Len(numbers) : total[i] = IF i = 0 THEN 0 ELSE total[i - 1] + numbers[i]
        BY <1>1 DEF IsTotal
      <3> QED
        BY <3>1, <3>2
    <2> QED
      BY <1>3, <2>1, MoreCells
  <1> HIDE DEF Right
  <1>4. ASSUME Wrong # {}
        PROVE  FALSE
    <2>0. Wrong \in SUBSET Nat
      OBVIOUS
    <2>1. PICK n \in Wrong : \A k \in Wrong : n <= k
      BY <1>4, <2>0, LeastNumber
    <2>2. n # 0
      BY <1>2, <2>1
    <2>3. n - 1 \in 0 .. Len(numbers) /\ n - 1 \notin Wrong
      BY <2>1, <2>2
    <2> QED
      BY <1>3, <2>1, <2>2, <2>3
  <1>5. Len(numbers) \in 0 .. Len(numbers) /\ Len(numbers) \notin Wrong
    BY <1>4
  <1>6. Right(Len(numbers))
    BY <1>5
  <1> QED
    BY <1>1, <1>6 DEF Right

-----------------------------------------------------------------------------
(***************************************************************************)
(* Reports of tests that all have a result.                                *)
(***************************************************************************)
ErrorKinds == {"variable_resolution", "http", "internal", "dependency_failed", "none"}
ReportTests == [status : Statuses, failures : BOOLEAN, error : ErrorKinds]
ReportBlocks == [status : Statuses, tests : Seq(ReportTests)]

\* A test is counted under the heading of its element: the two matches over
\* the status decide alike.
LEMMA CountedAsShown ==
  ASSUME NEW test \in ReportTests
  PROVE  /\ IsCountedFailure(test) <=> Element(test) = "failure"
         /\ IsCountedError(test) <=> Element(test) = "error"
         /\ test.status = "Skipped" <=> Element(test) = "skipped"
  BY DEF ReportTests, Statuses, IsCountedFailure, IsCountedError, IsAssertionFailure, Element

\* Sets of positions in a sequence are finite.
LEMMA PositionsAreFinite ==
  ASSUME NEW S, NEW tests \in Seq(S), NEW T \in SUBSET DOMAIN tests
  PROVE  IsFiniteSet(T) /\ Cardinality(T) \in Nat
  <1>1. DOMAIN tests = 1 .. Len(tests) /\ Len(tests) \in Nat
    OBVIOUS
  <1>2. IsFiniteSet(DOMAIN tests)
    BY <1>1, FS_Interval
  <1> QED
    BY <1>2, FS_Subset, FS_CardinalityType

\* The counts of a block are those of its elements.
LEMMA BlockHolds ==
  ASSUME NEW block \in ReportBlocks
  PROVE  Holds(RenderBlock(block).counts, RenderBlock(block).cases)
  <1> DEFINE cases == [i \in DOMAIN block.tests |-> Element(block.tests[i])]
  <1>1. \A i \in DOMAIN block.tests : block.tests[i] \in ReportTests
    BY DEF ReportBlocks
  <1>2. {i \in DOMAIN cases : cases[i] = "failure"} = {i \in DOMAIN block.tests : IsCountedFailure(block.tests[i])}
    BY <1>1, CountedAsShown
  <1>3. {i \in DOMAIN cases : cases[i] = "error"} = {i \in DOMAIN block.tests : IsCountedError(block.tests[i])}
    BY <1>1, CountedAsShown
  <1>4. {i \in DOMAIN cases : cases[i] = "skipped"} = {i \in DOMAIN block.tests : block.tests[i].status = "Skipped"}
    BY <1>1, CountedAsShown
  <1>5. DOMAIN cases = DOMAIN block.tests
    OBVIOUS
  <1>6. Holds(BlockCounts(block), cases)
    BY <1>2, <1>3, <1>4, <1>5 DEF Holds, BlockCounts
  <1> QED
    BY <1>6 DEF RenderBlock

(***************************************************************************)
(* The JUnit document of a report.                                         *)
(***************************************************************************)
Drawn == report.blocks \in Seq(ReportBlocks) /\ junit = RenderJunit(report)

Rest == IF report.error = "none" THEN {} ELSE {<<Len(report.blocks) + 1, 1>>}

\* The testsuites are those of the blocks, and one more for a suite-level error.
LEMMA Testsuites ==
  ASSUME Drawn
  PROVE  /\ DOMAIN junit.blocks = 1 .. Len(report.blocks) + Len(Synthetic(report))
         /\ \A b \in 1 .. Len(report.blocks) : junit.blocks[b] = RenderBlock(report.blocks[b])
         /\ report.error = "none" => Len(Synthetic(report)) = 0
         /\ report.error # "none" =>
              /\ Len(Synthetic(report)) = 1
              /\ junit.blocks[Len(report.blocks) + 1] = Synthetic(report)[1]
  <1> DEFINE rendered == [b \in DOMAIN report.blocks |-> RenderBlock(report.blocks[b])]
             Suitelike == {rendered[b] : b \in DOMAIN report.blocks}
                            \cup {Synthetic(report)[i] : i \in DOMAIN Synthetic(report)}
  <1>1. DOMAIN report.blocks = 1 .. Len(report.blocks) /\ Len(report.blocks) \in Nat
    BY DEF Drawn
  <1>2. rendered \in Seq(Suitelike) /\ Len(rendered) = Len(report.blocks)
    BY <1>1
  <1>3. report.error = "none" => Synthetic(report) = <<>>
    BY DEF Synthetic
  <1>4. report.error # "none" =>
          Synthetic(report) = <<[counts |-> [tests |-> 1, failures |-> 0, errors |-> 1, skipped |-> 0],
                                 cases |-> <<"error">>]>>
    BY DEF Synthetic
  <1>5. Synthetic(report) \in Seq(Suitelike)
    <2>1. CASE report.error = "none"
      BY <1>3, <2>1
    <2>2. CASE report.error # "none"
      <3> DEFINE only == [counts |-> [tests |-> 1, failures |-> 0, errors |-> 1, skipped |-> 0],
                          cases |-> <<"error">>]
      <3>1. Synthetic(report) = <<only>>
        BY <1>4, <2>2
      <3>2. Synthetic(report)[1] = only /\ 1 \in DOMAIN Synthetic(report)
        BY <3>1
      <3>3. only \in Suitelike
        BY <3>2
      <3> HIDE DEF only, Suitelike
      <3> QED
        BY <3>1, <3>3
    <2> QED
      BY <2>1, <2>2
  <1>6. junit.blocks = rendered \o Synthetic(report)
    BY DEF Drawn, RenderJunit
  <1>7. \A b \in 1 .. Len(report.blocks) : rendered[b] = RenderBlock(report.blocks[b])
    BY <1>1
  <1>8. report.error = "none" => Len(Synthetic(report)) = 0
    BY <1>3
  <1>9. report.error # "none" => Len(Synthetic(report)) = 1
    BY <1>4
  <1> HIDE DEF rendered, Suitelike
  <1>10. /\ junit.blocks \in Seq(Suitelike)
         /\ Len(junit.blocks) = Len(rendered) + Len(Synthetic(report))
         /\ \A i \in 1 .. Len(rendered) + Len(Synthetic(report)) :
              junit.blocks[i] = IF i <= Len(rendered) THEN rendered[i]
                                ELSE Synthetic(report)[i - Len(rendered)]
    <2> DEFINE extra == Synthetic(report)
    <2>1. extra \in Seq(Suitelike) /\ rendered \in Seq(Suitelike)
      BY <1>2, <1>5
    <2> HIDE DEF extra
    <2>2. /\ rendered \o extra \in Seq(Suitelike)
          /\ Len(rendered \o extra) = Len(rendered) + Len(extra)
          /\ \A i \in 1 .. Len(rendered) + Len(extra) :
               (rendered \o extra)[i] = IF i <= Len(rendered) THEN rendered[i]
                                        ELSE extra[i - Len(rendered)]
      BY <2>1, ConcatProperties
    <2>3. junit.blocks = rendered \o extra
      BY <1>6 DEF extra
    <2> QED
      BY <2>2, <2>3 DEF extra
  <1>11. DOMAIN junit.blocks = 1 .. Len(report.blocks) + Len(Synthetic(report))
    BY <1>2, <1>10
  <1>12. \A b \in 1 .. Len(report.blocks) : junit.blocks[b] = RenderBlock(report.blocks[b])
    BY <1>1, <1>2, <1>5, <1>7, <1>10
  <1>13. report.error # "none" => junit.blocks[Len(report.blocks) + 1] = Synthetic(report)[1]
    BY <1>1, <1>2, <1>9, <1>10
  <1> QED
    BY <1>8, <1>9, <1>11, <1>12, <1>13

\* The extra testsuite holds one error.
LEMMA SyntheticCase ==
  ASSUME report.error # "none"
  PROVE  Synthetic(report)[1] =
           [counts |-> [tests |-> 1, failures |-> 0, errors |-> 1, skipped |-> 0], cases |-> <<"error">>]
  BY DEF Synthetic

\* The elements of the document, testsuite by testsuite.
LEMMA CasesOfReport ==
  ASSUME Drawn
  PROVE  /\ DOMAIN Cases = Cells([b \in 1 .. Len(report.blocks) |-> DOMAIN report.blocks[b].tests],
                                 Len(report.blocks)) \cup Rest
         /\ \A b \in 1 .. Len(report.blocks) : \A i \in DOMAIN report.blocks[b].tests :
               Cases[<<b, i>>] = Element(report.blocks[b].tests[i])
         /\ \A p \in Rest : Cases[p] = "error"
  <1> DEFINE n == Len(report.blocks)
             Columns == [b \in 1 .. n |-> DOMAIN report.blocks[b].tests]
  <1>0. n \in Nat
    BY DEF Drawn
  <1>1. \A b \in 1 .. n : /\ DOMAIN junit.blocks[b].cases = Columns[b]
                          /\ \A i \in Columns[b] :
                               junit.blocks[b].cases[i] = Element(report.blocks[b].tests[i])
    <2> SUFFICES ASSUME NEW b \in 1 .. n
                 PROVE  /\ DOMAIN junit.blocks[b].cases = Columns[b]
                        /\ \A i \in Columns[b] :
                             junit.blocks[b].cases[i] = Element(report.blocks[b].tests[i])
      OBVIOUS
    <2>1. junit.blocks[b] = RenderBlock(report.blocks[b])
      BY Testsuites
    <2>2. junit.blocks[b].cases =
            [i \in DOMAIN report.blocks[b].tests |-> Element(report.blocks[b].tests[i])]
      BY <2>1 DEF RenderBlock
    <2> QED
      BY <2>2
  <1>2. report.error # "none" => /\ DOMAIN junit.blocks[n + 1].cases = {1}
                                 /\ junit.blocks[n + 1].cases[1] = "error"
    BY Testsuites, SyntheticCase
  <1>3. DOMAIN junit.blocks = 1 .. n \cup IF report.error = "none" THEN {} ELSE {n + 1}
    <2>1. CASE report.error = "none"
      <3>1. DOMAIN junit.blocks = 1 .. n + 0
        BY <2>1, Testsuites
      <3> QED
        BY <1>0, <2>1, <3>1
    <2>2. CASE report.error # "none"
      <3>1. DOMAIN junit.blocks = 1 .. n + 1
        BY <2>2, Testsuites
      <3> QED
        BY <1>0, <2>2, <3>1
    <2> QED
      BY <2>1, <2>2
  <1>4. DOMAIN Cases = UNION {{b} \X DOMAIN junit.blocks[b].cases : b \in DOMAIN junit.blocks}
    BY DEF Cases
  <1>5. DOMAIN Cases = Cells(Columns, n) \cup Rest
    <2> DEFINE Elements(b) == {b} \X DOMAIN junit.blocks[b].cases
    <2>1. (UNION {Elements(b) : b \in 1 .. n}) = Cells(Columns, n)
      <3>1. \A b \in 1 .. n : Elements(b) = {b} \X Columns[b]
        BY <1>1
      <3> HIDE DEF Elements, Columns
      <3>2. {Elements(b) : b \in 1 .. n} = {{b} \X Columns[b] : b \in 1 .. n}
        BY <3>1
      <3> QED
        BY <3>2 DEF Cells
    <2>2. CASE report.error = "none"
      <3>1. DOMAIN junit.blocks = 1 .. n
        BY <1>3, <2>2
      <3>2. DOMAIN Cases = UNION {Elements(b) : b \in 1 .. n}
        BY <1>4, <3>1
      <3>3. Rest = {}
        BY <2>2 DEF Rest
      <3> HIDE DEF Elements, Columns
      <3> QED
        BY <2>1, <3>2, <3>3
    <2>3. CASE report.error # "none"
      <3>1. DOMAIN junit.blocks = 1 .. n \cup {n + 1}
        BY <1>3, <2>3
      <3>2. Elements(n + 1) = Rest
        BY <1>2, <2>3 DEF Rest
      <3>3. DOMAIN Cases = UNION {Elements(b) : b \in DOMAIN junit.blocks}
        BY <1>4
      <3> HIDE DEF Elements, Columns
      <3>4. (UNION {Elements(b) : b \in DOMAIN junit.blocks})
              = (UNION {Elements(b) : b \in 1 .. n}) \cup Elements(n + 1)
        BY <3>1
      <3> QED
        BY <2>1, <3>2, <3>3, <3>4
    <2> QED
      BY <2>2, <2>3
  <1>6. \A p \in DOMAIN Cases : Cases[p] = junit.blocks[p[1]].cases[p[2]]
    BY DEF Cases
  <1>7. \A b \in 1 .. n : \A i \in Columns[b] : <<b, i>> \in DOMAIN Cases
    BY <1>5 DEF Cells
  <1>8. \A p \in Rest : p \in DOMAIN Cases /\ p = <<n + 1, 1>> /\ report.error # "none"
    BY <1>5 DEF Rest
  <1>9. \A b \in 1 .. n : \A i \in Columns[b] : Cases[<<b, i>>] = Element(report.blocks[b].tests[i])
    BY <1>1, <1>6, <1>7
  <1>10. \A p \in Rest : Cases[p] = "error"
    BY <1>2, <1>6, <1>8
  <1> QED
    BY <1>5, <1>9, <1>10

\* The sizes of chosen sets of tests, block by block, add up to their number.
LEMMA TotalOf ==
  ASSUME NEW blocks \in Seq(ReportBlocks), NEW chosen,
         \A b \in 1 .. Len(blocks) : chosen[b] \in SUBSET DOMAIN blocks[b].tests
  PROVE  /\ IsFiniteSet(Cells(chosen, Len(blocks)))
         /\ Cardinality(Cells(chosen, Len(blocks)))
              = Sum([b \in DOMAIN blocks |-> Cardinality(chosen[b])])
  <1> DEFINE numbers == [b \in DOMAIN blocks |-> Cardinality(chosen[b])]
  <1>1. DOMAIN blocks = 1 .. Len(blocks) /\ Len(blocks) \in Nat
    OBVIOUS
  <1>2. ASSUME NEW b \in 1 .. Len(blocks)
        PROVE  IsFiniteSet(chosen[b]) /\ Cardinality(chosen[b]) \in Nat
    <2>1. blocks[b] \in ReportBlocks
      BY <1>1
    <2>2. blocks[b].tests \in Seq(ReportTests)
      BY <2>1 DEF ReportBlocks
    <2>3. chosen[b] \in SUBSET DOMAIN blocks[b].tests
      OBVIOUS
    <2> QED
      BY <2>2, <2>3, PositionsAreFinite
  <1>3. numbers \in Seq(Nat) /\ Len(numbers) = Len(blocks)
    BY <1>1, <1>2
  <1>4. \A b \in 1 .. Len(numbers) : Cardinality(chosen[b]) = numbers[b]
    BY <1>1, <1>3
  <1>5. \A b \in 1 .. Len(numbers) : IsFiniteSet(chosen[b])
    BY <1>2, <1>3
  <1> HIDE DEF numbers
  <1>6. /\ IsFiniteSet(Cells(chosen, Len(numbers)))
        /\ Cardinality(Cells(chosen, Len(numbers))) = Sum(numbers)
    BY <1>3, <1>4, <1>5, CellsAddUp
  <1> QED
    BY <1>3, <1>6 DEF numbers

\* The extra element is not one of a block.
LEMMA RestIsNew ==
  ASSUME NEW n \in Nat, n = Len(report.blocks), NEW sets, IsFiniteSet(Cells(sets, n))
  PROVE  /\ IsFiniteSet(Cells(sets, n) \cup Rest)
         /\ Cardinality(Cells(sets, n) \cup Rest)
              = Cardinality(Cells(sets, n)) + IF report.error = "none" THEN 0 ELSE 1
  <1>1. \A p \in Cells(sets, n) : p[1] \in 1 .. n
    BY DEF Cells
  <1>2. <<n + 1, 1>> \notin Cells(sets, n)
    BY <1>1
  <1>3. Cardinality(Cells(sets, n)) \in Nat
    BY FS_CardinalityType
  <1>4. CASE report.error = "none"
    BY <1>3, <1>4 DEF Rest
  <1>5. CASE report.error # "none"
    <2>1. Rest = {<<n + 1, 1>>}
      BY <1>5 DEF Rest
    <2> QED
      BY <1>2, <1>5, <2>1, FS_AddElement
  <1> QED
    BY <1>4, <1>5

Selects(n, all, chosen, others, these) ==
  /\ these \in SUBSET (Cells(all, n) \cup others)
  /\ others \in SUBSET these
  /\ \A b \in 1 .. n : chosen[b] \in SUBSET all[b]
  /\ \A b \in 1 .. n : \A i \in all[b] : i \in chosen[b] <=> <<b, i>> \in these

\* Some positions of the document are found testsuite by testsuite.
LEMMA Selected ==
  ASSUME NEW n, NEW all, NEW chosen, NEW others, NEW these,
         Selects(n, all, chosen, others, these)
  PROVE  these = Cells(chosen, n) \cup others
  <1>1. ASSUME NEW p \in these, p \in Cells(all, n)
        PROVE  p \in Cells(chosen, n)
    <2>1. PICK b \in 1 .. n : p \in {b} \X all[b]
      BY <1>1 DEF Cells
    <2>2. PICK i \in all[b] : p = <<b, i>>
      BY <2>1
    <2>3. i \in chosen[b]
      BY <1>1, <2>2 DEF Selects
    <2> QED
      BY <2>2, <2>3 DEF Cells
  <1>2. ASSUME NEW p \in Cells(chosen, n)
        PROVE  p \in these
    <2>1. PICK b \in 1 .. n : p \in {b} \X chosen[b]
      BY DEF Cells
    <2>2. PICK i \in chosen[b] : p = <<b, i>>
      BY <2>1
    <2>3. i \in all[b]
      BY DEF Selects
    <2> QED
      BY <2>2, <2>3 DEF Selects
  <1> QED
    BY <1>1, <1>2 DEF Selects

\* The counts of the whole document are those of its elements.
LEMMA DocumentHolds ==
  ASSUME Drawn
  PROVE  IsFiniteSet(DOMAIN Cases) /\ Holds(junit.counts, Cases)
  <1> DEFINE blocks == report.blocks
             n == Len(blocks)
             all == [b \in 1 .. n |-> DOMAIN blocks[b].tests]
             failures == [b \in 1 .. n |-> {i \in DOMAIN blocks[b].tests : IsCountedFailure(blocks[b].tests[i])}]
             errors == [b \in 1 .. n |-> {i \in DOMAIN blocks[b].tests : IsCountedError(blocks[b].tests[i])}]
             skipped == [b \in 1 .. n |-> {i \in DOMAIN blocks[b].tests : blocks[b].tests[i].status = "Skipped"}]
             extra == IF report.error = "none" THEN 0 ELSE 1
  <1>1. blocks \in Seq(ReportBlocks) /\ n \in Nat /\ DOMAIN blocks = 1 .. n
    BY DEF Drawn
  <1>2. junit.counts = [tests |-> Sum([b \in DOMAIN blocks |-> BlockCounts(blocks[b]).tests]) + extra,
                        failures |-> Sum([b \in DOMAIN blocks |-> BlockCounts(blocks[b]).failures]),
                        errors |-> Sum([b \in DOMAIN blocks |-> BlockCounts(blocks[b]).errors]) + extra,
                        skipped |-> Sum([b \in DOMAIN blocks |-> BlockCounts(blocks[b]).skipped])]
    <2>1. Len(Synthetic(report)) = extra
      BY Testsuites
    <2>2. junit.counts = ReportCounts(report)
      BY DEF Drawn, RenderJunit
    <2> HIDE DEF extra
    <2> QED
      BY <2>1, <2>2 DEF ReportCounts
  <1>3. /\ [b \in DOMAIN blocks |-> BlockCounts(blocks[b]).tests] = [b \in DOMAIN blocks |-> Cardinality(all[b])]
        /\ [b \in DOMAIN blocks |-> BlockCounts(blocks[b]).failures] = [b \in DOMAIN blocks |-> Cardinality(failures[b])]
        /\ [b \in DOMAIN blocks |-> BlockCounts(blocks[b]).errors] = [b \in DOMAIN blocks |-> Cardinality(errors[b])]
        /\ [b \in DOMAIN blocks |-> BlockCounts(blocks[b]).skipped] = [b \in DOMAIN blocks |-> Cardinality(skipped[b])]
    BY <1>1 DEF BlockCounts
  <1>4. \A b \in 1 .. n : /\ all[b] \in SUBSET DOMAIN blocks[b].tests
                          /\ failures[b] \in SUBSET DOMAIN blocks[b].tests
                          /\ errors[b] \in SUBSET DOMAIN blocks[b].tests
                          /\ skipped[b] \in SUBSET DOMAIN blocks[b].tests
    OBVIOUS
  <1>5. \A b \in 1 .. n : \A i \in DOMAIN blocks[b].tests : blocks[b].tests[i] \in ReportTests
    <2>1. \A b \in 1 .. n : blocks[b] \in ReportBlocks
      BY <1>1
    <2>2. \A b \in 1 .. n : blocks[b].tests \in Seq(ReportTests)
      BY <2>1 DEF ReportBlocks
    <2> QED
      BY <2>2
  <1>6. \A b \in 1 .. n : \A i \in all[b] :
          /\ i \in failures[b] <=> Cases[<<b, i>>] = "failure"
          /\ i \in errors[b] <=> Cases[<<b, i>>] = "error"
          /\ i \in skipped[b] <=> Cases[<<b, i>>] = "skipped"
    <2> SUFFICES ASSUME NEW b \in 1 .. n, NEW i \in DOMAIN blocks[b].tests
                 PROVE  /\ i \in failures[b] <=> Cases[<<b, i>>] = "failure"
                        /\ i \in errors[b] <=> Cases[<<b, i>>] = "error"
                        /\ i \in skipped[b] <=> Cases[<<b, i>>] = "skipped"
      OBVIOUS
    <2>1. Cases[<<b, i>>] = Element(blocks[b].tests[i])
      BY CasesOfReport
    <2>2. blocks[b].tests[i] \in ReportTests
      BY <1>5
    <2> QED
      BY <2>1, <2>2, CountedAsShown
  <1>7. DOMAIN Cases = Cells(all, n) \cup Rest
    BY CasesOfReport
  <1>8. \A p \in Rest : Cases[p] = "error"
    BY CasesOfReport
  <1>9. \A b \in 1 .. n : /\ failures[b] \in SUBSET all[b]
                          /\ errors[b] \in SUBSET all[b]
                          /\ skipped[b] \in SUBSET all[b]
    OBVIOUS
  <1> HIDE DEF blocks, n, all, failures, errors, skipped, extra
  <1>10. {p \in DOMAIN Cases : Cases[p] = "failure"} = Cells(failures, n)
    <2> DEFINE these == {p \in DOMAIN Cases : Cases[p] = "failure"}
               others == {}
    <2>1. others \in SUBSET these /\ these \in SUBSET (Cells(all, n) \cup others)
      BY <1>7, <1>8
    <2>2. \A b \in 1 .. n : \A i \in all[b] : <<b, i>> \in DOMAIN Cases
      BY <1>7 DEF Cells
    <2>3. \A b \in 1 .. n : \A i \in all[b] : i \in failures[b] <=> <<b, i>> \in these
      BY <1>6, <2>2
    <2>4. \A b \in 1 .. n : failures[b] \in SUBSET all[b]
      BY <1>9
    <2> HIDE DEF these, others
    <2>5. Selects(n, all, failures, others, these)
      BY <2>1, <2>3, <2>4 DEF Selects
    <2>6. these = Cells(failures, n) \cup others
      BY <2>5, Selected
    <2> QED
      BY <2>6 DEF these, others
  <1>11. {p \in DOMAIN Cases : Cases[p] = "error"} = Cells(errors, n) \cup Rest
    <2> DEFINE these == {p \in DOMAIN Cases : Cases[p] = "error"}
               others == Rest
    <2>1. others \in SUBSET these /\ these \in SUBSET (Cells(all, n) \cup others)
      BY <1>7, <1>8
    <2>2. \A b \in 1 .. n : \A i \in all[b] : <<b, i>> \in DOMAIN Cases
      BY <1>7 DEF Cells
    <2>3. \A b \in 1 .. n : \A i \in all[b] : i \in errors[b] <=> <<b, i>> \in these
      BY <1>6, <2>2
    <2>4. \A b \in 1 .. n : errors[b] \in SUBSET all[b]
      BY <1>9
    <2> HIDE DEF these, others
    <2>5. Selects(n, all, errors, others, these)
      BY <2>1, <2>3, <2>4 DEF Selects
    <2>6. these = Cells(errors, n) \cup others
      BY <2>5, Selected
    <2> QED
      BY <2>6 DEF these, others
  <1>12. {p \in DOMAIN Cases : Cases[p] = "skipped"} = Cells(skipped, n)
    <2> DEFINE these == {p \in DOMAIN Cases : Cases[p] = "skipped"}
               others == {}
    <2>1. others \in SUBSET these /\ these \in SUBSET (Cells(all, n) \cup others)
      BY <1>7, <1>8
    <2>2. \A b \in 1 .. n : \A i \in all[b] : <<b, i>> \in DOMAIN Cases
      BY <1>7 DEF Cells
    <2>3. \A b \in 1 .. n : \A i \in all[b] : i \in skipped[b] <=> <<b, i>> \in these
      BY <1>6, <2>2
    <2>4. \A b \in 1 .. n : skipped[b] \in SUBSET all[b]
      BY <1>9
    <2> HIDE DEF these, others
    <2>5. Selects(n, all, skipped, others, these)
      BY <2>1, <2>3, <2>4 DEF Selects
    <2>6. these = Cells(skipped, n) \cup others
      BY <2>5, Selected
    <2> QED
      BY <2>6 DEF these, others
  <1>13. /\ IsFiniteSet(Cells(all, n)) /\ IsFiniteSet(Cells(errors, n))
         /\ Cardinality(Cells(all, n)) = Sum([b \in DOMAIN blocks |-> Cardinality(all[b])])
         /\ Cardinality(Cells(failures, n)) = Sum([b \in DOMAIN blocks |-> Cardinality(failures[b])])
         /\ Cardinality(Cells(errors, n)) = Sum([b \in DOMAIN blocks |-> Cardinality(errors[b])])
         /\ Cardinality(Cells(skipped, n)) = Sum([b \in DOMAIN blocks |-> Cardinality(skipped[b])])
    BY <1>1, <1>4, TotalOf DEF n
  <1>14. /\ IsFiniteSet(Cells(all, n) \cup Rest)
         /\ Cardinality(Cells(all, n) \cup Rest) = Cardinality(Cells(all, n)) + extra
         /\ Cardinality(Cells(errors, n) \cup Rest) = Cardinality(Cells(errors, n)) + extra
    BY <1>1, <1>13, RestIsNew DEF n, blocks, extra
  <1> QED
    BY <1>2, <1>3, <1>7, <1>10, <1>11, <1>12, <1>13, <1>14 DEF Holds

-----------------------------------------------------------------------------
(***************************************************************************)
(* What emit_run_report writes at the end of a run.                        *)
(***************************************************************************)
Written ==
  Emitted =>
    /\ pc = "done"
    /\ report = RunReport
    /\ terminal = RenderTerminal(RunReport)
    /\ junit = RenderJunit(RunReport)
    /\ exitCode = ExecutionExitCode

\* The strengthening of ReportInv that a report is written from.
WrittenInv == ReportInv /\ ReportIsComplete /\ Endings /\ Written

\* The result of a run does not change with what is written from it.
LEMMA SameReport ==
  ASSUME UNCHANGED engineVars
  PROVE  RunReport' = RunReport /\ ExecutionExitCode' = ExecutionExitCode
  <1>1. suite' = suite /\ verdict' = verdict /\ slot' = slot /\ outcome' = outcome
    BY DEF engineVars
  <1>2. \A b \in DOMAIN suite : ReportBlock(b)' = ReportBlock(b)
    BY <1>1 DEF ReportBlock
  <1>3. RunReport' = RunReport
    BY <1>1, <1>2 DEF RunReport
  <1>4. ExecutionExitCode' = ExecutionExitCode
    BY <1>1 DEF ExecutionExitCode, CoreFailed, Cores
  <1> QED
    BY <1>3, <1>4

\* Once a run has ended, the engine takes no step.
LEMMA NoStepAfterEnd == pc = "done" => ~ Next
  BY DEF Next, Advance, Answer, Reject, Start, FailResolution, BeginTest, AbandonSuite,
         NextBlock, CloseBlock, Finish, AnswerFails, CaptureFails, TestPasses

\* Nothing is written before the run has ended.
LEMMA InitWritten == ReportsInit => WrittenInv
  <1> SUFFICES ASSUME ReportsInit
               PROVE  WrittenInv
    OBVIOUS
  <1>1. Init /\ exitCode = -1
    BY DEF ReportsInit
  <1>2. ReportInv
    BY <1>1, InitReport
  <1>3. ReportIsComplete /\ Endings
    BY <1>1 DEF Init, ReportIsComplete, Endings
  <1> QED
    BY <1>1, <1>2, <1>3 DEF WrittenInv, Written, Emitted

\* A report is written once, from the result of the run, and stays.
LEMMA NextWritten == WrittenInv /\ [ReportsNext]_<<engineVars, reportVars>> => WrittenInv'
  <1> SUFFICES ASSUME WrittenInv, [ReportsNext]_<<engineVars, reportVars>>
               PROVE  WrittenInv'
    OBVIOUS
  <1>1. [Next]_engineVars
    BY DEF ReportsNext, EmitRunReport
  <1>2. ReportInv' /\ ReportIsComplete' /\ Endings'
    BY <1>1, NextReport, NextComplete, NextEndings DEF WrittenInv
  <1>3. Written'
    <2>1. CASE Next /\ UNCHANGED reportVars
      <3>1. pc # "done"
        BY <2>1, NoStepAfterEnd
      <3>2. exitCode' = exitCode /\ exitCode = -1
        BY <2>1, <3>1 DEF WrittenInv, Written, Emitted, reportVars
      <3> QED
        BY <3>2 DEF Written, Emitted
    <2>2. CASE EmitRunReport
      <3>1. /\ pc' = "done" /\ report' = RunReport
            /\ terminal' = RenderTerminal(report') /\ junit' = RenderJunit(report')
            /\ exitCode' = ExecutionExitCode
            /\ UNCHANGED engineVars
        BY <2>2 DEF EmitRunReport, engineVars
      <3>2. RunReport' = RunReport /\ ExecutionExitCode' = ExecutionExitCode
        BY <3>1, SameReport
      <3> QED
        BY <3>1, <3>2 DEF Written
    <2>3. CASE UNCHANGED <<engineVars, reportVars>>
      <3>1. /\ UNCHANGED engineVars /\ pc' = pc /\ report' = report /\ terminal' = terminal
            /\ junit' = junit /\ exitCode' = exitCode
        BY <2>3 DEF engineVars, reportVars
      <3>2. RunReport' = RunReport /\ ExecutionExitCode' = ExecutionExitCode
        BY <3>1, SameReport
      <3> QED
        BY <3>1, <3>2 DEF WrittenInv, Written, Emitted
    <2> QED
      BY <2>1, <2>2, <2>3 DEF ReportsNext
  <1> QED
    BY <1>2, <1>3 DEF WrittenInv

\* Every test of the result of an ended run has a status.
LEMMA ResultOfRun ==
  ASSUME TypeOK, ReportIsComplete, pc = "done"
  PROVE  /\ suite \in Suite
         /\ RunReport.blocks \in Seq(ReportBlocks)
         /\ DOMAIN RunReport.blocks = DOMAIN suite
         /\ \A b \in DOMAIN suite :
              /\ RunReport.blocks[b].status = slot[b]
              /\ DOMAIN RunReport.blocks[b].tests = DOMAIN suite[b].tests
              /\ \A i \in DOMAIN suite[b].tests :
                   RunReport.blocks[b].tests[i] = ReportTest(verdict[<<b, i>>])
  <1>1. suite \in Suite
    BY SuitesAssumption DEF TypeOK
  <1>2. DOMAIN suite = 1 .. Len(suite) /\ Len(suite) \in Nat
    BY <1>1 DEF Suite
  <1>3. \A b \in DOMAIN suite : suite[b].tests \in Seq(Test)
    BY <1>1 DEF Suite, Block
  <1>4. RunReport.blocks = [b \in DOMAIN suite |-> ReportBlock(b)]
    BY DEF RunReport
  <1>5. ASSUME NEW b \in DOMAIN suite
        PROVE  ReportBlock(b) \in ReportBlocks
    <2>1. DOMAIN suite[b].tests = 1 .. Len(suite[b].tests) /\ Len(suite[b].tests) \in Nat
      BY <1>3
    <2>2. slot[b] \in Statuses
      BY DEF TypeOK, ReportIsComplete
    <2>3. ASSUME NEW i \in DOMAIN suite[b].tests
          PROVE  ReportTest(verdict[<<b, i>>]) \in ReportTests
      <3>1. <<b, i>> \in Positions(suite)
        BY <2>1 DEF Positions
      <3>2. verdict[<<b, i>>] \in Verdicts /\ verdict[<<b, i>>] # "none"
        BY <3>1 DEF TypeOK, ReportIsComplete
      <3> QED
        BY <3>2 DEF ReportTest, ReportTests, Verdicts, StatusOf, ErrorOf, ErrorKinds, Statuses,
                    ResolutionErrors, Skips
    <2> DEFINE tests == [i \in DOMAIN suite[b].tests |-> ReportTest(verdict[<<b, i>>])]
    <2>4. tests \in Seq(ReportTests)
      BY <2>1, <2>3
    <2>5. ReportBlock(b) = [status |-> slot[b], tests |-> tests]
      BY DEF ReportBlock
    <2> HIDE DEF tests
    <2> QED
      BY <2>2, <2>4, <2>5 DEF ReportBlocks
  <1>6. RunReport.blocks \in Seq(ReportBlocks) /\ DOMAIN RunReport.blocks = DOMAIN suite
    BY <1>2, <1>4, <1>5
  <1>7. \A b \in DOMAIN suite : RunReport.blocks[b] = ReportBlock(b)
    BY <1>4
  <1>8. ASSUME NEW b \in DOMAIN suite
        PROVE  /\ RunReport.blocks[b].status = slot[b]
               /\ RunReport.blocks[b].tests = [i \in DOMAIN suite[b].tests |-> ReportTest(verdict[<<b, i>>])]
    <2>1. ReportBlock(b).status = slot[b]
      BY DEF ReportBlock
    <2>2. ReportBlock(b).tests = [i \in DOMAIN suite[b].tests |-> ReportTest(verdict[<<b, i>>])]
      BY DEF ReportBlock
    <2>3. RunReport.blocks[b] = ReportBlock(b)
      BY <1>7
    <2> HIDE DEF RunReport, ReportBlock
    <2> QED
      BY <2>1, <2>2, <2>3
  <1> HIDE DEF RunReport
  <1> QED
    BY <1>1, <1>6, <1>8

(***************************************************************************)
(* The terminal.                                                           *)
(***************************************************************************)

\* Sequences with the same indexes have the same length.
LEMMA SameLength ==
  ASSUME NEW S, NEW T, NEW s \in Seq(S), NEW t \in Seq(T), DOMAIN s = DOMAIN t
  PROVE  Len(s) = Len(t)
  <1>1. ASSUME NEW m \in Nat, NEW n \in Nat, 1 .. m = 1 .. n
        PROVE  m = n
    <2>1. m \in 1 .. m => m \in 1 .. n
      BY <1>1
    <2>2. n \in 1 .. n => n \in 1 .. m
      BY <1>1
    <2> QED
      BY <2>1, <2>2
  <1>2. DOMAIN s = 1 .. Len(s) /\ Len(s) \in Nat
    OBVIOUS
  <1>3. DOMAIN t = 1 .. Len(t) /\ Len(t) \in Nat
    OBVIOUS
  <1>4. 1 .. Len(s) = 1 .. Len(t)
    BY <1>2, <1>3
  <1> QED
    BY <1>1, <1>2, <1>3, <1>4

\* Reports of equally many tests, block by block, have the same positions.
LEMMA SamePositions ==
  ASSUME NEW s, NEW t, DOMAIN s = DOMAIN t,
         \A b \in DOMAIN s : Len(s[b].tests) = Len(t[b].tests)
  PROVE  Positions(s) = Positions(t)
  <1> DEFINE Of(r, b) == {b} \X (1 .. Len(r[b].tests))
  <1>1. \A b \in DOMAIN s : Of(s, b) = Of(t, b)
    OBVIOUS
  <1>2. Positions(s) = UNION {Of(s, b) : b \in DOMAIN s}
    BY DEF Positions
  <1>3. Positions(t) = UNION {Of(t, b) : b \in DOMAIN s}
    BY DEF Positions
  <1> HIDE DEF Of
  <1>4. {Of(s, b) : b \in DOMAIN s} = {Of(t, b) : b \in DOMAIN s}
    BY <1>1
  <1> QED
    BY <1>2, <1>3, <1>4

\* Every status has a label of its own.
LEMMA LabelsApart ==
  ASSUME NEW status \in Statuses
  PROVE  /\ Label(status) = "PASS" <=> status = "Passed"
         /\ Label(status) = "FAIL" <=> status = "Failed"
         /\ Label(status) = "SKIP" <=> status = "Skipped"
         /\ Label(status) = "ABORT" <=> status = "Aborted"
  <1>1. /\ Label("Passed") = "PASS" /\ Label("Failed") = "FAIL"
        /\ Label("Skipped") = "SKIP" /\ Label("Aborted") = "ABORT"
    BY DEF Label
  <1> HIDE DEF Label
  <1> QED
    BY <1>1 DEF Statuses

\* The positions of the terminal's lines are those of the tests of the suite.
LEMMA LinesOfReport ==
  ASSUME TypeOK, ReportIsComplete, pc = "done", terminal = RenderTerminal(RunReport)
  PROVE  /\ Positions(RunReport.blocks) = Positions(suite)
         /\ Positions(terminal.blocks) = Positions(suite)
         /\ \A p \in Positions(suite) :
              /\ TestAt(RunReport.blocks, p) = ReportTest(verdict[p])
              /\ TestAt(terminal.blocks, p) = Label(StatusOf(verdict[p]))
  <1> DEFINE blocks == RunReport.blocks
  <1>1. /\ suite \in Suite
        /\ blocks \in Seq(ReportBlocks)
        /\ DOMAIN blocks = DOMAIN suite
        /\ \A b \in DOMAIN suite :
              /\ DOMAIN blocks[b].tests = DOMAIN suite[b].tests
              /\ \A i \in DOMAIN suite[b].tests : blocks[b].tests[i] = ReportTest(verdict[<<b, i>>])
    BY ResultOfRun
  <1>2. terminal.blocks = [b \in DOMAIN blocks |->
                             [status |-> Label(blocks[b].status),
                              tests |-> [i \in DOMAIN blocks[b].tests |->
                                           Label(blocks[b].tests[i].status)]]]
    BY DEF RenderTerminal
  <1> HIDE DEF blocks
  <1>3. DOMAIN suite = 1 .. Len(suite)
    BY <1>1 DEF Suite
  <1>4. ASSUME NEW b \in DOMAIN suite
        PROVE  /\ suite[b].tests \in Seq(Test)
               /\ blocks[b].tests \in Seq(ReportTests)
               /\ terminal.blocks[b].tests = [i \in DOMAIN blocks[b].tests |-> Label(blocks[b].tests[i].status)]
    <2>1. suite[b] \in Block
      BY <1>1 DEF Suite
    <2>2. blocks[b] \in ReportBlocks
      BY <1>1
    <2>3. terminal.blocks[b].tests = [i \in DOMAIN blocks[b].tests |-> Label(blocks[b].tests[i].status)]
      BY <1>1, <1>2
    <2> QED
      BY <2>1, <2>2, <2>3 DEF Block, ReportBlocks
  <1>5. ASSUME NEW b \in DOMAIN suite
        PROVE  /\ Len(blocks[b].tests) = Len(suite[b].tests)
               /\ Len(terminal.blocks[b].tests) = Len(suite[b].tests)
    <2>1. Len(blocks[b].tests) = Len(suite[b].tests)
      BY <1>1, <1>4, SameLength
    <2> DEFINE lines == [i \in DOMAIN blocks[b].tests |-> Label(blocks[b].tests[i].status)]
               Written0 == {Label(blocks[b].tests[i].status) : i \in DOMAIN blocks[b].tests}
    <2>2. DOMAIN blocks[b].tests = 1 .. Len(blocks[b].tests) /\ Len(blocks[b].tests) \in Nat
      BY <1>4
    <2>3. lines \in Seq(Written0) /\ Len(lines) = Len(blocks[b].tests)
      BY <2>2
    <2>4. terminal.blocks[b].tests = lines
      BY <1>4
    <2> HIDE DEF lines
    <2> QED
      BY <2>1, <2>3, <2>4
  <1>6. Positions(blocks) = Positions(suite)
    BY <1>1, <1>5, SamePositions
  <1>7. DOMAIN terminal.blocks = DOMAIN suite
    BY <1>1, <1>2
  <1>8. Positions(terminal.blocks) = Positions(suite)
    BY <1>5, <1>7, SamePositions
  <1>9. ASSUME NEW p \in Positions(suite)
        PROVE  /\ TestAt(blocks, p) = ReportTest(verdict[p])
               /\ TestAt(terminal.blocks, p) = Label(StatusOf(verdict[p]))
    <2>1. PICK b \in DOMAIN suite : p \in {b} \X (1 .. Len(suite[b].tests))
      BY DEF Positions
    <2>2. PICK i \in 1 .. Len(suite[b].tests) : p = <<b, i>>
      BY <2>1
    <2>3. i \in DOMAIN suite[b].tests /\ i \in DOMAIN blocks[b].tests
      BY <1>1, <1>4
    <2>4. blocks[b].tests[i] = ReportTest(verdict[p])
      BY <1>1, <2>2, <2>3
    <2>5. terminal.blocks[b].tests[i] = Label(blocks[b].tests[i].status)
      BY <1>4, <2>3
    <2>6. blocks[b].tests[i].status = StatusOf(verdict[p])
      BY <2>4 DEF ReportTest
    <2> QED
      BY <2>2, <2>4, <2>5, <2>6 DEF TestAt
  <1> QED
    BY <1>6, <1>8, <1>9 DEF blocks

\* The summary counts the lines.
LEMMA TerminalHolds ==
  ASSUME TypeOK, ReportIsComplete, pc = "done", terminal = RenderTerminal(RunReport)
  PROVE  LET Has(label) == Cardinality({p \in DOMAIN Labels : Labels[p] = label})
         IN /\ DOMAIN Labels = Positions(suite)
            /\ terminal.summary = [total |-> Cardinality(DOMAIN Labels), passed |-> Has("PASS"),
                                   failed |-> Has("FAIL"), skipped |-> Has("SKIP"),
                                   aborted |-> Has("ABORT")]
  <1> DEFINE blocks == RunReport.blocks
             With(status) == {p \in Positions(blocks) : TestAt(blocks, p).status = status}
             Printed(label) == {p \in DOMAIN Labels : Labels[p] = label}
  <1>1. DOMAIN Labels = Positions(suite) /\ Positions(blocks) = Positions(suite)
    BY LinesOfReport DEF Labels
  <1>2. ASSUME NEW p \in Positions(suite)
        PROVE  /\ TestAt(blocks, p).status = StatusOf(verdict[p])
               /\ Labels[p] = Label(StatusOf(verdict[p]))
               /\ StatusOf(verdict[p]) \in Statuses
    <2>1. verdict[p] \in Verdicts /\ verdict[p] # "none"
      BY DEF TypeOK, ReportIsComplete
    <2>2. StatusOf(verdict[p]) \in Statuses
      BY <2>1 DEF StatusOf, Statuses, Verdicts
    <2>3. Labels[p] = TestAt(terminal.blocks, p)
      BY LinesOfReport DEF Labels
    <2>4. TestAt(blocks, p) = ReportTest(verdict[p]) /\ TestAt(terminal.blocks, p) = Label(StatusOf(verdict[p]))
      BY LinesOfReport
    <2>5. ReportTest(verdict[p]).status = StatusOf(verdict[p])
      BY DEF ReportTest
    <2> QED
      BY <2>2, <2>3, <2>4, <2>5
  <1>3. /\ With("Passed") = Printed("PASS") /\ With("Failed") = Printed("FAIL")
        /\ With("Skipped") = Printed("SKIP") /\ With("Aborted") = Printed("ABORT")
    BY <1>1, <1>2, LabelsApart
  <1>4. terminal.summary = Summary(blocks)
    BY DEF RenderTerminal, RunReport
  <1>5. Summary(blocks) = [total |-> Cardinality(Positions(blocks)), passed |-> Cardinality(With("Passed")),
                           failed |-> Cardinality(With("Failed")), skipped |-> Cardinality(With("Skipped")),
                           aborted |-> Cardinality(With("Aborted"))]
    BY DEF Summary
  <1>6. terminal.summary = [total |-> Cardinality(DOMAIN Labels), passed |-> Cardinality(Printed("PASS")),
                            failed |-> Cardinality(Printed("FAIL")), skipped |-> Cardinality(Printed("SKIP")),
                            aborted |-> Cardinality(Printed("ABORT"))]
    BY <1>1, <1>3, <1>4, <1>5
  <1> QED
    BY <1>1, <1>6

-----------------------------------------------------------------------------
(***************************************************************************)
(* The counts agree.                                                       *)
(***************************************************************************)

\* The document is drawn from a report of tests that all have a result.
LEMMA WrittenIsDrawn ==
  ASSUME WrittenInv, Emitted
  PROVE  /\ pc = "done" /\ TypeOK /\ ReportIsComplete
         /\ report = RunReport /\ terminal = RenderTerminal(RunReport)
         /\ Drawn
  <1>1. /\ pc = "done" /\ TypeOK /\ ReportIsComplete
        /\ report = RunReport /\ terminal = RenderTerminal(RunReport)
        /\ junit = RenderJunit(RunReport)
    BY DEF WrittenInv, Written, ReportInv, TrafficInv
  <1>2. RunReport.blocks \in Seq(ReportBlocks)
    BY <1>1, ResultOfRun
  <1> HIDE DEF RunReport
  <1> QED
    BY <1>1, <1>2 DEF Drawn

\* Every testsuite counts its own elements, that of a suite-level error too.
LEMMA TestsuitesHold ==
  ASSUME Drawn, NEW b \in DOMAIN junit.blocks
  PROVE  Holds(junit.blocks[b].counts, junit.blocks[b].cases)
  <1>1. report.blocks \in Seq(ReportBlocks) /\ Len(report.blocks) \in Nat
    BY DEF Drawn
  <1>2. CASE b \in 1 .. Len(report.blocks)
    <2>1. report.blocks[b] \in ReportBlocks
      BY <1>1, <1>2
    <2>2. junit.blocks[b] = RenderBlock(report.blocks[b])
      BY <1>2, Testsuites
    <2>3. Holds(RenderBlock(report.blocks[b]).counts, RenderBlock(report.blocks[b]).cases)
      BY <2>1, BlockHolds
    <2> QED
      BY <2>2, <2>3
  <1>3. CASE b \notin 1 .. Len(report.blocks)
    <2>1. report.error # "none"
      BY <1>1, <1>3, Testsuites
    <2>2. DOMAIN junit.blocks = 1 .. Len(report.blocks) + 1
      BY <2>1, Testsuites
    <2>3. b = Len(report.blocks) + 1
      BY <1>1, <1>3, <2>2
    <2>4. junit.blocks[b] = Synthetic(report)[1]
      BY <2>1, <2>3, Testsuites
    <2> DEFINE cases == junit.blocks[b].cases
               Has(element) == {i \in DOMAIN cases : cases[i] = element}
    <2>5. /\ junit.blocks[b].counts = [tests |-> 1, failures |-> 0, errors |-> 1, skipped |-> 0]
          /\ cases = <<"error">>
      BY <2>1, <2>4, SyntheticCase
    <2>6. DOMAIN cases = {1} /\ Has("failure") = {} /\ Has("error") = {1} /\ Has("skipped") = {}
      BY <2>5
    <2>7. Cardinality({}) = 0 /\ Cardinality({1}) = 1
      BY FS_EmptySet, FS_Singleton
    <2> QED
      BY <2>5, <2>6, <2>7 DEF Holds
  <1> QED
    BY <1>2, <1>3

\* At the end of every run, the counts of the JUnit document, of each of its
\* testsuites and of the terminal summary are those of what they show.
THEOREM ReportsTally == ReportsSpec => []TalliesAgree
  <1>1. WrittenInv => TalliesAgree
    <2> SUFFICES ASSUME WrittenInv, Emitted
                 PROVE  TalliesAgree
      BY DEF TalliesAgree
    <2>1. /\ pc = "done" /\ TypeOK /\ ReportIsComplete
          /\ terminal = RenderTerminal(RunReport) /\ Drawn
      BY WrittenIsDrawn
    <2>2. \A b \in DOMAIN junit.blocks : Holds(junit.blocks[b].counts, junit.blocks[b].cases)
      BY <2>1, TestsuitesHold
    <2>3. Holds(junit.counts, Cases)
      BY <2>1, DocumentHolds
    <2> QED
      BY <2>1, <2>2, <2>3, TerminalHolds DEF TalliesAgree
  <1> QED
    BY <1>1, InitWritten, NextWritten, PTL DEF ReportsSpec

(***************************************************************************)
(* The verdicts agree.                                                     *)
(***************************************************************************)
Succeeded == outcome.status = "Passed"

\* The suite passes exactly if every test did and the engine gave no error.
LEMMA SuccessOfRun ==
  ASSUME Endings, pc = "done"
  PROVE  /\ Succeeded <=> outcome.error = "none" /\ AllPassed
         /\ outcome.status \in {"Passed", "Failed", "Aborted"}
         /\ outcome.error = "none" /\ ~ AllPassed =>
              \E p \in Positions(suite) : StatusOf(verdict[p]) \in Bad
  <1>1. EndsRefused \/ EndsAbandoned \/ EndsConcluded
    BY DEF Endings
  <1>2. CASE EndsRefused
    BY <1>2 DEF EndsRefused, Succeeded
  <1>3. CASE EndsAbandoned
    BY <1>3 DEF EndsAbandoned, Succeeded
  <1>4. CASE EndsConcluded
    BY <1>4 DEF EndsConcluded, Succeeded
  <1> QED
    BY <1>1, <1>2, <1>3, <1>4

\* An element accuses exactly the tests that failed or were aborted.
LEMMA Accused ==
  ASSUME NEW v \in Verdicts, v # "none"
  PROVE  Element(ReportTest(v)) \in {"failure", "error"} <=> StatusOf(v) \in Bad
  BY DEF Element, ReportTest, IsAssertionFailure, StatusOf, ErrorOf, Verdicts, Bad, Skips, ResolutionErrors

\* Every test is found in the document, under its position.
LEMMA ElementsOfTests ==
  ASSUME WrittenInv, Emitted
  PROVE  /\ DOMAIN Cases = Positions(suite) \cup Rest
         /\ \A p \in Positions(suite) : Cases[p] = Element(ReportTest(verdict[p]))
         /\ \A p \in Rest : Cases[p] = "error"
         /\ IsFiniteSet(Positions(suite))
  <1>1. /\ pc = "done" /\ TypeOK /\ ReportIsComplete /\ Drawn
        /\ report = RunReport /\ terminal = RenderTerminal(RunReport)
    BY WrittenIsDrawn
  <1> DEFINE blocks == report.blocks
             columns == [b \in 1 .. Len(blocks) |-> DOMAIN blocks[b].tests]
  <1>2. blocks \in Seq(ReportBlocks) /\ DOMAIN blocks = 1 .. Len(blocks)
    BY <1>1 DEF Drawn
  <1>3. Positions(blocks) = Positions(suite)
    BY <1>1, LinesOfReport
  <1>4. \A b \in 1 .. Len(blocks) : DOMAIN blocks[b].tests = 1 .. Len(blocks[b].tests)
    <2>1. \A b \in 1 .. Len(blocks) : blocks[b] \in ReportBlocks
      BY <1>2
    <2>2. \A b \in 1 .. Len(blocks) : blocks[b].tests \in Seq(ReportTests)
      BY <2>1 DEF ReportBlocks
    <2> QED
      BY <2>2
  <1>5. Cells(columns, Len(blocks)) = Positions(blocks)
    <2> DEFINE Column(b) == {b} \X columns[b]
               Row(b) == {b} \X (1 .. Len(blocks[b].tests))
    <2>1. \A b \in 1 .. Len(blocks) : Column(b) = Row(b)
      BY <1>4
    <2>2. Cells(columns, Len(blocks)) = UNION {Column(b) : b \in 1 .. Len(blocks)}
      BY DEF Cells
    <2>3. Positions(blocks) = UNION {Row(b) : b \in 1 .. Len(blocks)}
      BY <1>2 DEF Positions
    <2> HIDE DEF Column, Row, columns, blocks
    <2>4. {Column(b) : b \in 1 .. Len(blocks)} = {Row(b) : b \in 1 .. Len(blocks)}
      BY <2>1
    <2> QED
      BY <2>2, <2>3, <2>4
  <1>6. IsFiniteSet(Positions(suite))
    <2>1. \A b \in 1 .. Len(blocks) : columns[b] \in SUBSET DOMAIN blocks[b].tests
      OBVIOUS
    <2> HIDE DEF columns, blocks
    <2> QED
      BY <1>2, <1>3, <1>5, <2>1, TotalOf
  <1>7. DOMAIN Cases = Positions(suite) \cup Rest
    BY <1>1, <1>3, <1>5, CasesOfReport
  <1>8. ASSUME NEW p \in Positions(suite)
        PROVE  Cases[p] = Element(ReportTest(verdict[p]))
    <2>1. PICK b \in DOMAIN blocks : p \in {b} \X (1 .. Len(blocks[b].tests))
      BY <1>3 DEF Positions
    <2>2. PICK i \in DOMAIN blocks[b].tests : p = <<b, i>>
      BY <1>2, <1>4, <2>1
    <2>3. Cases[p] = Element(blocks[b].tests[i])
      BY <1>1, <1>2, <2>2, CasesOfReport
    <2>4. TestAt(blocks, p) = ReportTest(verdict[p])
      BY <1>1, LinesOfReport
    <2>5. TestAt(blocks, p) = blocks[b].tests[i]
      BY <2>2 DEF TestAt
    <2> QED
      BY <2>3, <2>4, <2>5
  <1> QED
    BY <1>1, <1>6, <1>7, <1>8, CasesOfReport

\* The exit code is zero for success only.
LEMMA ExitAgrees ==
  ASSUME WrittenInv, Emitted
  PROVE  exitCode = 0 <=> Succeeded
  <1>1. exitCode = ExecutionExitCode
    BY DEF WrittenInv, Written
  <1>2. Succeeded => ExecutionExitCode = 0
    BY DEF ExecutionExitCode, Succeeded
  <1>3. ~ Succeeded => ExecutionExitCode \in {1, 2, 5}
    BY DEF ExecutionExitCode, Succeeded
  <1> QED
    BY <1>1, <1>2, <1>3

\* The first line and the error printed below show success only.
LEMMA TerminalAgrees ==
  ASSUME WrittenInv, Emitted
  PROVE  terminal.status = "PASS" /\ terminal.error = "none" <=> Succeeded
  <1>1. /\ pc = "done" /\ Endings /\ terminal = RenderTerminal(RunReport)
    BY WrittenIsDrawn DEF WrittenInv
  <1>2. /\ Succeeded <=> outcome.error = "none" /\ AllPassed
        /\ outcome.status \in {"Passed", "Failed", "Aborted"}
    BY <1>1, SuccessOfRun
  <1>3. terminal.status = Label(outcome.status) /\ terminal.error = outcome.error
    BY <1>1 DEF RenderTerminal, RunReport
  <1>4. Label(outcome.status) = "PASS" <=> outcome.status = "Passed"
    BY <1>2, LabelsApart DEF Statuses
  <1> QED
    BY <1>2, <1>3, <1>4 DEF Succeeded

\* The summary counts as many passed tests as there are, and no error is
\* reported, for success only.
LEMMA SummaryAgrees ==
  ASSUME WrittenInv, Emitted
  PROVE  report.error = "none" /\ report.summary.passed = report.summary.total <=> Succeeded
  <1> DEFINE blocks == RunReport.blocks
             passed == {p \in Positions(blocks) : TestAt(blocks, p).status = "Passed"}
  <1>1. /\ pc = "done" /\ TypeOK /\ ReportIsComplete /\ Endings /\ report = RunReport
        /\ terminal = RenderTerminal(RunReport)
    BY WrittenIsDrawn DEF WrittenInv
  <1>2. Succeeded <=> outcome.error = "none" /\ AllPassed
    BY <1>1, SuccessOfRun
  <1>3. /\ Positions(blocks) = Positions(suite)
        /\ \A p \in Positions(suite) : TestAt(blocks, p) = ReportTest(verdict[p])
    BY <1>1, LinesOfReport
  <1>4. /\ report.error = outcome.error
        /\ report.summary = Summary(blocks)
    BY <1>1 DEF RunReport
  <1>5. /\ Summary(blocks).passed = Cardinality(passed)
        /\ Summary(blocks).total = Cardinality(Positions(blocks))
    BY DEF Summary
  <1>6. \A p \in Positions(suite) : TestAt(blocks, p).status = "Passed" <=> verdict[p] = "passed"
    <2>1. \A p \in Positions(suite) : verdict[p] \in Verdicts
      BY <1>1 DEF TypeOK
    <2>2. \A p \in Positions(suite) : ReportTest(verdict[p]).status = StatusOf(verdict[p])
      BY DEF ReportTest
    <2> HIDE DEF blocks
    <2> QED
      BY <1>3, <2>1, <2>2, PassedStatus
  <1> HIDE DEF blocks
  <1>7. passed \subseteq Positions(suite) /\ (passed = Positions(suite) <=> AllPassed)
    BY <1>3, <1>6 DEF AllPassed
  <1>8. IsFiniteSet(Positions(suite))
    BY ElementsOfTests
  <1> HIDE DEF passed
  <1>9. Cardinality(passed) = Cardinality(Positions(suite)) <=> passed = Positions(suite)
    <2>1. passed \in SUBSET Positions(suite)
      BY <1>7
    <2>2. /\ IsFiniteSet(passed)
          /\ Cardinality(passed) = Cardinality(Positions(suite)) => passed = Positions(suite)
      BY <1>8, <2>1, FS_Subset
    <2> QED
      BY <2>1, <2>2
  <1> QED
    BY <1>2, <1>3, <1>4, <1>5, <1>7, <1>9

\* The document counts no failure and no error for success only.
LEMMA JunitAgrees ==
  ASSUME WrittenInv, Emitted
  PROVE  junit.counts.failures + junit.counts.errors = 0 <=> Succeeded
  <1> DEFINE With(element) == {p \in DOMAIN Cases : Cases[p] = element}
             failures == With("failure")
             errors == With("error")
  <1>1. /\ pc = "done" /\ TypeOK /\ ReportIsComplete /\ Endings /\ report = RunReport /\ Drawn
    BY WrittenIsDrawn DEF WrittenInv
  <1>2. /\ Succeeded <=> outcome.error = "none" /\ AllPassed
        /\ outcome.error = "none" /\ ~ AllPassed =>
             \E p \in Positions(suite) : StatusOf(verdict[p]) \in Bad
    BY <1>1, SuccessOfRun
  <1>3. IsFiniteSet(DOMAIN Cases) /\ Holds(junit.counts, Cases)
    BY <1>1, DocumentHolds
  <1>4. /\ junit.counts.failures = Cardinality(failures)
        /\ junit.counts.errors = Cardinality(errors)
    BY <1>3 DEF Holds
  <1>5. failures \subseteq DOMAIN Cases /\ errors \subseteq DOMAIN Cases
    OBVIOUS
  <1>6. report.error = outcome.error
    BY <1>1 DEF RunReport
  <1>7. failures = {} /\ errors = {} <=> Succeeded
    <2>1. /\ DOMAIN Cases = Positions(suite) \cup Rest
          /\ \A p \in Positions(suite) : Cases[p] = Element(ReportTest(verdict[p]))
          /\ \A p \in Rest : Cases[p] = "error"
      BY ElementsOfTests
    <2>2. \A p \in Positions(suite) : Cases[p] \in {"failure", "error"} <=> StatusOf(verdict[p]) \in Bad
      <3>1. \A p \in Positions(suite) : verdict[p] \in Verdicts /\ verdict[p] # "none"
        BY <1>1 DEF TypeOK, ReportIsComplete
      <3> QED
        BY <2>1, <3>1, Accused
    <2>3. Rest = {} <=> report.error = "none"
      BY DEF Rest
    <2>4. AllPassed => \A p \in Positions(suite) : StatusOf(verdict[p]) \notin Bad
      BY DEF AllPassed, StatusOf, Bad, Skips
    <2>5. ASSUME Succeeded
          PROVE  failures = {} /\ errors = {}
      BY <1>2, <1>6, <2>1, <2>2, <2>3, <2>4, <2>5
    <2>6. ASSUME ~ Succeeded
          PROVE  failures # {} \/ errors # {}
      <3>1. CASE outcome.error # "none"
        BY <1>6, <2>1, <2>3, <3>1
      <3>2. CASE outcome.error = "none"
        <4>1. PICK p \in Positions(suite) : StatusOf(verdict[p]) \in Bad
          BY <1>2, <2>6, <3>2
        <4>2. p \in DOMAIN Cases /\ Cases[p] \in {"failure", "error"}
          BY <2>1, <2>2, <4>1
        <4> QED
          BY <4>2
      <3> QED
        BY <3>1, <3>2
    <2> QED
      BY <2>5, <2>6
  <1> HIDE DEF failures, errors
  <1>8. /\ Cardinality(failures) \in Nat /\ (Cardinality(failures) = 0 <=> failures = {})
        /\ Cardinality(errors) \in Nat /\ (Cardinality(errors) = 0 <=> errors = {})
    <2>1. IsFiniteSet(failures) /\ IsFiniteSet(errors)
      BY <1>3, <1>5, FS_Subset
    <2> QED
      BY <2>1, FS_EmptySet, FS_CardinalityType
  <1>9. Cardinality(failures) + Cardinality(errors) = 0 <=> failures = {} /\ errors = {}
    BY <1>8
  <1> QED
    BY <1>4, <1>7, <1>9

\* At the end of every run, exit code, JSON report, JUnit document and
\* terminal show success together, and only if every test passed: a suite
\* refused or abandoned does not pass for a successful one.
THEOREM ReportsAgree == ReportsSpec => []VerdictsAgree
  <1>1. WrittenInv => VerdictsAgree
    <2> SUFFICES ASSUME WrittenInv, Emitted
                 PROVE  \A one, other \in DOMAIN Succeeds : Succeeds[one] = Succeeds[other]
      BY DEF VerdictsAgree
    <2>1. (exitCode = 0) = Succeeded
      BY ExitAgrees DEF Succeeded
    <2>2. (report.status = "Passed") = Succeeded
      <3>1. report.status = outcome.status
        BY WrittenIsDrawn DEF RunReport
      <3> QED
        BY <3>1 DEF Succeeded
    <2>3. (report.error = "none" /\ report.summary.passed = report.summary.total) = Succeeded
      BY SummaryAgrees DEF Succeeded
    <2>4. (junit.counts.failures + junit.counts.errors = 0) = Succeeded
      BY JunitAgrees DEF Succeeded
    <2>5. (terminal.status = "PASS" /\ terminal.error = "none") = Succeeded
      BY TerminalAgrees DEF Succeeded
    <2>6. Succeeds = [code |-> Succeeded, json |-> Succeeded, tests |-> Succeeded,
                      junit |-> Succeeded, terminal |-> Succeeded]
      BY <2>1, <2>2, <2>3, <2>4, <2>5 DEF Succeeds
    <2> HIDE DEF Succeeded
    <2> QED
      BY <2>6
  <1> QED
    BY <1>1, InitWritten, NextWritten, PTL DEF ReportsSpec
=============================================================================
