--------------------------- MODULE ExecutionProofs --------------------------
(***************************************************************************)
(* Theorems about module Execution, for every set of names, every set of   *)
(* predefined variables and every set of suites.                           *)
(***************************************************************************)
EXTENDS Execution, TLAPS

(***************************************************************************)
(* The shape of suites.                                                    *)
(***************************************************************************)

\* What it means to be a position of a suite.
LEMMA PositionsShape ==
  ASSUME NEW s \in Suite, NEW p
  PROVE  p \in Positions(s) <=>
           /\ p = <<p[1], p[2]>>
           /\ p[1] \in DOMAIN s
           /\ p[2] \in 1 .. Len(s[p[1]].tests)
  BY DEF Positions

\* Blocks are numbered from one and their tests can be counted.
LEMMA BlockShape ==
  ASSUME NEW s \in Suite, NEW b \in DOMAIN s
  PROVE  /\ b \in Nat \ {0}
         /\ s[b] \in Block
         /\ s[b].tests \in Seq(Test)
         /\ Len(s[b].tests) \in Nat
         /\ DOMAIN s[b].tests = 1 .. Len(s[b].tests)
  BY DEF Suite, Block

\* A position leads to a test and is a pair of positive numbers.
LEMMA PositionShape ==
  ASSUME NEW s \in Suite, NEW p \in Positions(s)
  PROVE  /\ p \in (Nat \ {0}) \X (Nat \ {0})
         /\ TestAt(s, p) \in Test
  <1>1. /\ p = <<p[1], p[2]>>
        /\ p[1] \in DOMAIN s
        /\ p[2] \in 1 .. Len(s[p[1]].tests)
    BY PositionsShape
  <1>2. /\ p[1] \in Nat \ {0}
        /\ s[p[1]].tests \in Seq(Test)
        /\ Len(s[p[1]].tests) \in Nat
    BY <1>1, BlockShape
  <1>3. p[2] \in Nat \ {0}
    BY <1>1, <1>2
  <1>4. s[p[1]].tests[p[2]] \in Test
    BY <1>1, <1>2
  <1> QED
    BY <1>1, <1>2, <1>3, <1>4 DEF TestAt

\* What a test captures are names.
LEMMA CaptureNamesAreNames ==
  ASSUME NEW test \in Test
  PROVE  CaptureNames(test) \subseteq Names
  <1>1. test.captures \in Seq(Capture)
    BY DEF Test
  <1>2. ASSUME NEW i \in DOMAIN test.captures
        PROVE  test.captures[i].name \in Names
    <2>1. test.captures[i] \in Capture
      BY <1>1
    <2> QED
      BY <2>1 DEF Capture
  <1> QED
    BY <1>2 DEF CaptureNames

(***************************************************************************)
(* Type correctness.                                                       *)
(***************************************************************************)

\* Everything a resolution can report is an error of its own kind.
LEMMA ErrorsAreVerdicts ==
  ASSUME NEW test, NEW store, NEW e \in PossibleErrors(test, store)
  PROVE  e \in ResolutionErrors /\ e # "passed"
  BY DEF PossibleErrors, ReferenceErrors, ResolutionErrors

\* A status summarises results that are final.
LEMMA BlockStatusIsFinal ==
  ASSUME NEW b
  PROVE  BlockStatus(b) \in {"Passed", "Failed", "Aborted"}
  BY DEF BlockStatus

\* The predefined variables make a store.
LEMMA PredefinedStoreIsStore == IsStore(PredefinedStore)
  BY PredefinedAssumption DEF IsStore, PredefinedStore, Value, Host

\* Committing the captures of a test to a store gives a store.
LEMMA MergeIsStore ==
  ASSUME NEW store, IsStore(store),
         NEW test \in Test, NEW p \in Nat \X Nat
  PROVE  /\ IsStore(Merge(store, Staged(test, p)))
         /\ DOMAIN Merge(store, Staged(test, p)) = DOMAIN store \cup CaptureNames(test)
  <1> DEFINE pending == Staged(test, p)
  <1>1. DOMAIN pending = CaptureNames(test)
    BY DEF Staged
  <1>2. ASSUME NEW n \in CaptureNames(test)
        PROVE  pending[n] \in Value
    BY DEF Staged, Value
  <1>3. DOMAIN Merge(store, pending) = DOMAIN store \cup CaptureNames(test)
    BY <1>1 DEF Merge
  <1>4. ASSUME NEW n \in DOMAIN store \cup CaptureNames(test)
        PROVE  Merge(store, pending)[n] \in Value
    BY <1>1, <1>2 DEF Merge, IsStore
  <1>5. CaptureNames(test) \subseteq Names
    BY CaptureNamesAreNames
  <1>6. Merge(store, pending) \in [DOMAIN Merge(store, pending) -> Value]
    BY <1>1, <1>3, <1>4 DEF Merge
  <1> QED
    BY <1>3, <1>5, <1>6 DEF IsStore

\* Entering a block keeps the cursor on a block of the suite.
LEMMA EnterMoves ==
  ASSUME NEW blocks, Enter(blocks)
  PROVE  at' = <<at'[1], 1>> /\ at'[1] \in blocks /\ at'[2] = 1
  BY DEF Enter

\* Settling the current test keeps the cursor in its block.
LEMMA SettleTypes ==
  ASSUME TypeOK, at \in Positions(suite), NEW v \in Verdicts, Settle(v),
         IsStore(postCore'), IsStore(scope')
  PROVE  TypeOK'
  <1>1. /\ suite \in Suite /\ suite' = suite
        /\ at[1] \in DOMAIN suite
        /\ at[2] \in 1 .. Len(suite[at[1]].tests)
        /\ Len(suite[at[1]].tests) \in Nat
        /\ at[1] \in Nat \ {0}
    BY SuitesAssumption, PositionsShape, BlockShape DEF TypeOK, Settle
  <1>2. /\ at' \in (Nat \ {0}) \X (Nat \ {0})
        /\ at'[1] = at[1]
    BY <1>1 DEF Settle
  <1>3. verdict' \in [Positions(suite) -> Verdicts]
    BY DEF Settle, TypeOK, Verdicts, Skips
  <1> QED
    BY <1>1, <1>2, <1>3 DEF TypeOK, Settle

\* While the block is not over, the cursor is on a test.
LEMMA CursorOnTest ==
  ASSUME TypeOK, pc = "run", ~ BlockOver
  PROVE  at \in Positions(suite)
  <1>1. /\ suite \in Suite
        /\ at = <<at[1], at[2]>>
        /\ at[1] \in DOMAIN suite
        /\ at[2] \in Nat \ {0}
        /\ at[2] <= Len(suite[at[1]].tests)
        /\ Len(suite[at[1]].tests) \in Nat
    BY SuitesAssumption, BlockShape DEF TypeOK, BlockOver
  <1>2. at[2] \in 1 .. Len(suite[at[1]].tests)
    BY <1>1
  <1> QED
    BY <1>1, <1>2, PositionsShape

\* The initial state is well typed.
LEMMA InitTypes == Init => TypeOK
  <1> SUFFICES ASSUME Init PROVE TypeOK
    OBVIOUS
  <1>1. IsStore(postCore) /\ IsStore(scope)
    BY PredefinedStoreIsStore DEF Init
  <1>2. outcome \in Outcomes
    BY DEF Init, Running, Outcomes
  <1>3. verdict \in [Positions(suite) -> Verdicts]
    BY DEF Init, Verdicts
  <1>4. /\ slot \in [DOMAIN suite -> Statuses \cup {"none"}]
        /\ sends \in [Positions(suite) -> Nat]
    BY DEF Init
  <1>5. suiteFailed \in BOOLEAN
    BY DEF Init
  <1>6. /\ suite \in Suites
        /\ at \in (Nat \ {0}) \X (Nat \ {0})
        /\ pc \in {"start", "run", "await", "done"}
        /\ pc \notin {"run", "await"}
    BY DEF Init
  <1> QED
    BY <1>1, <1>2, <1>3, <1>4, <1>5, <1>6 DEF TypeOK

\* Every step keeps the types.
LEMMA NextTypes == TypeOK /\ [Next]_engineVars => TypeOK'
  <1> SUFFICES ASSUME TypeOK, [Next]_engineVars
               PROVE  TypeOK'
    OBVIOUS
  <1>0. suite \in Suite
    BY SuitesAssumption DEF TypeOK
  <1>1. CASE Reject
    <2>1. /\ verdict' \in [Positions(suite) -> Verdicts]
          /\ slot' \in [DOMAIN suite -> Statuses \cup {"none"}]
          /\ outcome' \in Outcomes
      BY <1>1 DEF Reject, Verdicts, Skips, Statuses, Outcomes
    <2> QED
      BY <1>1, <2>1 DEF Reject, TypeOK, IsStore
  <1>2. CASE Start
    <2>1. PICK blocks : Enter(blocks) /\ blocks \subseteq DOMAIN suite
      BY <1>2 DEF Start, Cores
    <2>2. at' = <<at'[1], 1>> /\ at'[1] \in DOMAIN suite
      BY <2>1, EnterMoves
    <2>3. at'[1] \in Nat \ {0}
      BY <2>2, <1>0, BlockShape
    <2> QED
      BY <1>2, <2>2, <2>3 DEF Start, TypeOK, IsStore
  <1>3. CASE FailResolution
    <2>1. at \in Positions(suite)
      BY <1>3, CursorOnTest DEF FailResolution
    <2>2. PICK e \in PossibleErrors(Current, Visible) : Settle(e)
      BY <1>3 DEF FailResolution
    <2>3. e \in Verdicts
      BY ErrorsAreVerdicts DEF Verdicts
    <2> QED
      BY <1>3, <2>1, <2>2, <2>3, SettleTypes DEF FailResolution, TypeOK, IsStore
  <1>4. CASE BeginTest
    <2>1. at \in Positions(suite)
      BY <1>4, CursorOnTest DEF BeginTest
    <2>2. sends' \in [Positions(suite) -> Nat]
      BY <1>4, <2>1 DEF BeginTest, TypeOK
    <2> QED
      BY <1>4, <2>1, <2>2 DEF BeginTest, TypeOK, IsStore
  <1>5. CASE AnswerFails
    <2>1. at \in Positions(suite)
      BY <1>5 DEF AnswerFails, TypeOK
    <2>2. PICK v \in {"transport", "mismatch"} : Settle(v)
      BY <1>5 DEF AnswerFails
    <2>3. v \in Verdicts
      BY DEF Verdicts
    <2> QED
      BY <1>5, <2>1, <2>2, <2>3, SettleTypes DEF AnswerFails, TypeOK, IsStore
  <1>6. CASE CaptureFails
    <2>1. at \in Positions(suite) /\ "aborted" \in Verdicts
      BY <1>6 DEF CaptureFails, TypeOK, Verdicts
    <2> QED
      BY <1>6, <2>1, SettleTypes DEF CaptureFails, TypeOK, IsStore
  <1>7. CASE TestPasses
    <2>1. at \in Positions(suite) /\ "passed" \in Verdicts
      BY <1>7 DEF TestPasses, TypeOK, Verdicts
    <2>2. Current \in Test /\ at \in Nat \X Nat
      BY <2>1, <1>0, PositionShape DEF Current
    <2>3. IsStore(Visible)
      BY DEF Visible, TypeOK
    <2>4. IsStore(Merge(Visible, Staged(Current, at)))
      BY <2>2, <2>3, MergeIsStore
    <2>5. IsStore(postCore') /\ IsStore(scope')
      BY <1>7, <2>4 DEF TestPasses, TypeOK, IsStore
    <2> QED
      BY <1>7, <2>1, <2>5, SettleTypes DEF TestPasses
  <1>8. CASE AbandonSuite
    <2>1. verdict' \in [Positions(suite) -> Verdicts]
      BY <1>8 DEF AbandonSuite, TypeOK, Verdicts, Skips
    <2>2. slot' \in [DOMAIN suite -> Statuses \cup {"none"}]
      BY <1>8, BlockStatusIsFinal DEF AbandonSuite, TypeOK, Statuses
    <2> QED
      BY <1>8, <2>1, <2>2 DEF AbandonSuite, TypeOK, Outcomes, IsStore
  <1>9. ASSUME CloseBlock
        PROVE  /\ slot' \in [DOMAIN suite -> Statuses \cup {"none"}]
               /\ suiteFailed' \in BOOLEAN
    BY <1>9, BlockStatusIsFinal DEF CloseBlock, TypeOK, Statuses
  <1>10. CASE NextBlock
    <2>1. at' = <<at'[1], 1>> /\ at'[1] \in DOMAIN suite
      BY <1>10, EnterMoves DEF NextBlock, Following
    <2>2. at'[1] \in Nat \ {0}
      BY <2>1, <1>0, BlockShape
    <2>3. pc' = "run"
      BY <1>10 DEF NextBlock, CloseBlock
    <2> QED
      BY <1>9, <1>10, <2>1, <2>2, <2>3 DEF NextBlock, TypeOK, IsStore
  <1>11. CASE Finish
    BY <1>9, <1>11 DEF Finish, TypeOK, Outcomes, IsStore
  <1>12. CASE UNCHANGED engineVars
    BY <1>12 DEF engineVars, TypeOK, IsStore
  <1> QED
    BY <1>1, <1>2, <1>3, <1>4, <1>5, <1>6, <1>7, <1>8, <1>10, <1>11, <1>12
    DEF Next, Advance, Answer

\* The variables of the engine have their types in every reachable state: in
\* particular the cursor never leaves the suite, so that the indexing in
\* execute_core and execute_pipeline never panics.
THEOREM TypeCorrect == Spec => []TypeOK
  BY InitTypes, NextTypes, PTL DEF Spec

(***************************************************************************)
(* Scopes.                                                                 *)
(*                                                                         *)
(* The semantic validator is sound for the engine: in a suite it accepts,  *)
(* no test meets an undefined variable or a capture that cannot be kept.   *)
(* The argument is that the static scopes of the validator are the dynamic *)
(* scopes of the engine (ScopesAgree), which is inductive together with    *)
(* TypeOK; what the validator demands of a test at its static scope then   *)
(* excludes the failures at its dynamic one.                               *)
(***************************************************************************)

(***************************************************************************)
(* How static scopes grow.                                                 *)
(***************************************************************************)

\* In a well-shaped suite, the tests of the core are those of any core block.
LEMMA CoreTestsOfBlock ==
  ASSUME NEW s \in Suite, WellShaped(s),
         NEW b \in DOMAIN s, s[b].kind = "core"
  PROVE  CoreTests(s) = {p \in Positions(s) : p[1] = b}
  <1>1. ASSUME NEW p \in CoreTests(s) PROVE p[1] = b
    <2>1. p[1] \in DOMAIN s /\ s[p[1]].kind = "core"
      BY PositionsShape DEF CoreTests, KindAt
    <2> QED
      BY <2>1 DEF WellShaped, Cores
  <1>2. ASSUME NEW p \in Positions(s), p[1] = b PROVE p \in CoreTests(s)
    BY <1>2 DEF CoreTests, KindAt
  <1> QED
    BY <1>1, <1>2 DEF CoreTests

\* Nothing comes before the first test of a block.
LEMMA NothingEarlierAtEntry ==
  ASSUME NEW s \in Suite, NEW b
  PROVE  Earlier(s, <<b, 1>>) = {}
  <1> SUFFICES ASSUME NEW q \in Earlier(s, <<b, 1>>) PROVE FALSE
    OBVIOUS
  <1>1. q \in Positions(s) /\ q[2] < 1
    BY DEF Earlier
  <1>2. q[2] \in Nat \ {0}
    BY <1>1, PositionShape
  <1> QED
    BY <1>1, <1>2

\* One more test comes before the next position.
LEMMA EarlierGrows ==
  ASSUME NEW s \in Suite, NEW p \in Positions(s)
  PROVE  Earlier(s, <<p[1], p[2] + 1>>) = Earlier(s, p) \cup {p}
  <1> DEFINE next == <<p[1], p[2] + 1>>
  <1>1. p = <<p[1], p[2]>> /\ p[2] \in Nat
    BY PositionsShape, PositionShape
  <1>2. ASSUME NEW q \in Positions(s)
        PROVE  q \in Earlier(s, next) <=> q \in Earlier(s, p) \/ q = p
    <2>1. q = <<q[1], q[2]>> /\ q[2] \in Nat
      BY PositionsShape, PositionShape
    <2> QED
      BY <1>1, <2>1 DEF Earlier
  <1> QED
    BY <1>2 DEF Earlier

\* The captures of two sets of tests together are those of each.
LEMMA CapturedUnion ==
  ASSUME NEW s, NEW A, NEW B
  PROVE  Captured(s, A \cup B) = Captured(s, A) \cup Captured(s, B)
  BY DEF Captured

\* What one test captures.
LEMMA CapturedOne ==
  ASSUME NEW s, NEW p
  PROVE  Captured(s, {p}) = CaptureNames(TestAt(s, p))
  BY DEF Captured

\* No test, no capture.
LEMMA CapturedNone ==
  ASSUME NEW s
  PROVE  Captured(s, {}) = {}
  BY DEF Captured

\* A test that passes adds its captures to the scope of the next one.
LEMMA ScopeGrows ==
  ASSUME NEW s \in Suite, NEW p \in Positions(s)
  PROVE  ScopeAt(s, <<p[1], p[2] + 1>>) = ScopeAt(s, p) \cup CaptureNames(TestAt(s, p))
  <1> DEFINE next == <<p[1], p[2] + 1>>
  <1>1. Earlier(s, next) = Earlier(s, p) \cup {p}
    BY EarlierGrows
  <1>2. KindAt(s, next) = KindAt(s, p)
    BY DEF KindAt
  <1>3. Captured(s, Earlier(s, next)) = Captured(s, Earlier(s, p)) \cup CaptureNames(TestAt(s, p))
    <2>1. Captured(s, Earlier(s, next)) = Captured(s, Earlier(s, p) \cup {p})
      BY <1>1
    <2>2. Captured(s, Earlier(s, p) \cup {p}) = Captured(s, Earlier(s, p)) \cup Captured(s, {p})
      BY CapturedUnion
    <2> QED
      BY <2>1, <2>2, CapturedOne
  <1>4. Captured(s, CoreTests(s) \cup Earlier(s, next))
          = Captured(s, CoreTests(s) \cup Earlier(s, p)) \cup CaptureNames(TestAt(s, p))
    <2>1. Captured(s, CoreTests(s) \cup Earlier(s, next))
            = Captured(s, CoreTests(s)) \cup Captured(s, Earlier(s, next))
      BY CapturedUnion
    <2>2. Captured(s, CoreTests(s) \cup Earlier(s, p))
            = Captured(s, CoreTests(s)) \cup Captured(s, Earlier(s, p))
      BY CapturedUnion
    <2> QED
      BY <1>3, <2>1, <2>2
  <1> QED
    BY <1>2, <1>3, <1>4 DEF ScopeAt, ScopeOfCore

\* Where a block is entered, the scope holds what the core left.
LEMMA ScopeAtEntry ==
  ASSUME NEW s \in Suite, NEW b
  PROVE  ScopeAt(s, <<b, 1>>) =
           IF s[b].kind = "core" THEN Predefined
           ELSE Predefined \cup Captured(s, CoreTests(s))
  <1>1. Earlier(s, <<b, 1>>) = {}
    BY NothingEarlierAtEntry
  <1>2. CoreTests(s) \cup {} = CoreTests(s)
    OBVIOUS
  <1> QED
    BY <1>1, <1>2, CapturedNone DEF ScopeAt, ScopeOfCore, KindAt

(***************************************************************************)
(* Static and dynamic scopes agree.                                        *)
(***************************************************************************)

\* The preflight of the engine is the shape rule of the parsers.
LEMMA PreflightIsShape == PreflightPasses <=> WellShaped(suite)
  BY DEF PreflightPasses, WellShaped

\* Only a block all of whose tests passed has status Passed.
LEMMA PassedBlock ==
  ASSUME TypeOK, NEW b, BlockStatus(b) = "Passed",
         NEW p \in Positions(suite), p[1] = b
  PROVE  verdict[p] = "passed"
  <1>1. StatusOf(verdict[p]) \in Results(b)
    BY DEF Results
  <1>2. StatusOf(verdict[p]) = "Passed"
    BY <1>1 DEF BlockStatus
  <1>3. verdict[p] \in Verdicts
    BY DEF TypeOK
  <1> QED
    BY <1>2, <1>3 DEF StatusOf, Verdicts, Skips, ResolutionErrors

\* A result that is not a pass leaves the scopes alone and ends the block.
LEMMA SettleFailure ==
  ASSUME TypeOK, ScopesAgree, pc \in {"run", "await"}, at \in Positions(suite),
         NEW v, v # "passed", Settle(v), UNCHANGED <<postCore, scope>>
  PROVE  ScopesAgree'
  <1>1. /\ suite' = suite
        /\ at' = <<at[1], Len(suite[at[1]].tests) + 1>>
        /\ verdict'[at] = v
    BY DEF Settle
  <1>2. /\ at = <<at[1], at[2]>>
        /\ at[2] \in 1 .. Len(suite[at[1]].tests)
        /\ Len(suite[at[1]].tests) \in Nat
    BY SuitesAssumption, PositionsShape, BlockShape DEF TypeOK
  <1>3. BlockOver'
    BY <1>1, <1>2 DEF BlockOver
  <1>4. at \in Earlier(suite, at)'
    BY <1>1, <1>2 DEF Earlier
  <1>5. ~ EarlierPassed'
    BY <1>1, <1>4 DEF EarlierPassed
  <1>6. PreflightPasses' /\ (InCore' <=> InCore)
    BY <1>1 DEF ScopesAgree, PreflightPasses, InCore
  <1>7. CoreTests(suite)' = CoreTests(suite)
    BY <1>1
  <1> QED
    BY <1>1, <1>3, <1>5, <1>6, <1>7 DEF ScopesAgree

\* A test that passes moves on with its captures in scope.
LEMMA SettlePass ==
  ASSUME TypeOK, ScopesAgree, TestPasses
  PROVE  ScopesAgree'
  <1>0. /\ suite \in Suite
        /\ at \in Positions(suite)
        /\ pc = "await"
    BY SuitesAssumption DEF TestPasses, TypeOK
  <1>1. /\ at = <<at[1], at[2]>>
        /\ at[2] \in 1 .. Len(suite[at[1]].tests)
        /\ Len(suite[at[1]].tests) \in Nat
    BY <1>0, PositionsShape, BlockShape
  <1>2. /\ suite' = suite
        /\ at' = <<at[1], at[2] + 1>>
        /\ \A p \in Positions(suite) :
             verdict'[p] = IF p = at THEN "passed" ELSE verdict[p]
    BY DEF TestPasses, Settle
  <1>3. /\ EarlierPassed
        /\ DOMAIN Visible = ScopeAt(suite, at)
        /\ PreflightPasses
    BY <1>0, <1>1 DEF ScopesAgree, BlockOver
  <1>4. PreflightPasses' /\ (InCore' <=> InCore)
    BY <1>2, <1>3 DEF PreflightPasses, InCore
  <1>5. EarlierPassed'
    <2>1. Earlier(suite, at)' = Earlier(suite, at) \cup {at}
      BY <1>0, <1>2, EarlierGrows
    <2>2. Earlier(suite, at) \subseteq Positions(suite)
      BY DEF Earlier
    <2> QED
      BY <1>0, <1>2, <1>3, <2>1, <2>2 DEF EarlierPassed
  <1>6. DOMAIN Visible' = ScopeAt(suite, at)'
    <2>1. Visible' = Merge(Visible, Staged(Current, at))
      BY <1>4 DEF TestPasses, Visible
    <2>2. Current \in Test /\ at \in Nat \X Nat
      BY <1>0, PositionShape DEF Current
    <2>3. IsStore(Visible)
      BY DEF TypeOK, Visible
    <2>4. DOMAIN Visible' = DOMAIN Visible \cup CaptureNames(Current)
      BY <2>1, <2>2, <2>3, MergeIsStore
    <2>5. ScopeAt(suite, at)' = ScopeAt(suite, at) \cup CaptureNames(TestAt(suite, at))
      BY <1>0, <1>2, ScopeGrows
    <2> QED
      BY <1>3, <2>4, <2>5 DEF Current
  <1>7. ~ InCore' => DOMAIN postCore' = Predefined \cup Captured(suite, CoreTests(suite))'
    BY <1>0, <1>2, <1>4 DEF ScopesAgree, TestPasses
  <1> QED
    BY <1>4, <1>5, <1>6, <1>7 DEF ScopesAgree

\* At the entry of a block that is not the core, its clone of the scope is
\* what the core left.
LEMMA EnterOther ==
  ASSUME suite \in Suite, suite' = suite, PreflightPasses,
         NEW b \in DOMAIN suite, suite[b].kind # "core", at' = <<b, 1>>,
         scope' = postCore', 
         DOMAIN postCore' = Predefined \cup Captured(suite, CoreTests(suite))
  PROVE  ScopesAgree'
  <1>1. ~ InCore' /\ PreflightPasses'
    BY DEF InCore, PreflightPasses
  <1>2. Earlier(suite, at)' = {}
    BY NothingEarlierAtEntry
  <1>3. EarlierPassed'
    BY <1>2 DEF EarlierPassed
  <1>4. ScopeAt(suite, at)' = Predefined \cup Captured(suite, CoreTests(suite))
    BY ScopeAtEntry
  <1>5. Visible' = postCore'
    BY <1>1 DEF Visible
  <1> QED
    BY <1>1, <1>3, <1>4, <1>5 DEF ScopesAgree

\* When the core is left behind, everything it captures is in postCore.
LEMMA LeaveBlock ==
  ASSUME TypeOK, ScopesAgree, CloseBlock
  PROVE  DOMAIN postCore = Predefined \cup Captured(suite, CoreTests(suite))
  <1>0. /\ suite \in Suite
        /\ pc = "run" /\ BlockOver
        /\ at[1] \in DOMAIN suite
        /\ at[2] \in Nat
        /\ Len(suite[at[1]].tests) \in Nat
        /\ PreflightPasses
    BY SuitesAssumption, BlockShape DEF CloseBlock, TypeOK, ScopesAgree
  <1>1. CASE ~ InCore
    BY <1>0, <1>1 DEF ScopesAgree
  <1>2. CASE InCore
    <2>1. CoreTests(suite) = {p \in Positions(suite) : p[1] = at[1]}
      BY <1>0, <1>2, CoreTestsOfBlock, PreflightIsShape DEF InCore
    <2>2. ASSUME NEW p \in CoreTests(suite)
          PROVE  p \in Earlier(suite, at) /\ verdict[p] = "passed"
      <3>1. p \in Positions(suite) /\ p[1] = at[1]
        BY <2>1
      <3>2. p[2] \in 1 .. Len(suite[at[1]].tests)
        BY <1>0, <3>1, PositionsShape
      <3>3. BlockStatus(at[1]) = "Passed"
        BY <1>2 DEF CloseBlock
      <3> QED
        BY <1>0, <3>1, <3>2, <3>3, PassedBlock DEF Earlier, BlockOver
    <2>3. Earlier(suite, at) = CoreTests(suite)
      BY <2>1, <2>2 DEF Earlier
    <2>4. EarlierPassed
      BY <2>2, <2>3 DEF EarlierPassed
    <2>5. DOMAIN postCore = ScopeAt(suite, at)
      BY <1>0, <1>2, <2>4 DEF ScopesAgree, Visible
    <2> QED
      BY <1>2, <2>3, <2>5 DEF ScopeAt, ScopeOfCore, KindAt, InCore
  <1> QED
    BY <1>1, <1>2

\* Until the suite is started, the scopes are the predefined one.
FreshStart == pc = "start" => postCore = PredefinedStore /\ scope = PredefinedStore

\* The stores hold only the predefined variables until the first block.
LEMMA FreshStartStays == FreshStart /\ [Next]_engineVars => FreshStart'
  BY DEF FreshStart, Next, Advance, Answer, Reject, Start, FailResolution, BeginTest,
         AnswerFails, CaptureFails, TestPasses, AbandonSuite, NextBlock, Finish,
         CloseBlock, Settle, engineVars

\* Every step keeps static and dynamic scopes in agreement.
LEMMA NextScopes == TypeOK /\ FreshStart /\ ScopesAgree /\ [Next]_engineVars => ScopesAgree'
  <1> SUFFICES ASSUME TypeOK, FreshStart, ScopesAgree, [Next]_engineVars
               PROVE  ScopesAgree'
    OBVIOUS
  <1>0. suite \in Suite
    BY SuitesAssumption DEF TypeOK
  <1>1. CASE Reject
    BY <1>1 DEF Reject, ScopesAgree
  <1>2. CASE Start
    <2>0. /\ suite' = suite /\ PreflightPasses
          /\ DOMAIN postCore' = Predefined /\ scope' = postCore'
      BY <1>2 DEF Start, FreshStart, PredefinedStore
    <2>1. CASE Cores(suite) # {}
      <3>1. at' = <<at'[1], 1>> /\ at'[1] \in Cores(suite)
        BY <1>2, <2>1, EnterMoves DEF Start
      <3>2. InCore' /\ suite[at'[1]].kind = "core"
        BY <2>0, <3>1 DEF InCore, Cores
      <3>3. Earlier(suite, at)' = {}
        BY <1>0, <2>0, <3>1, NothingEarlierAtEntry
      <3>4. ScopeAt(suite, at)' = Predefined
        BY <1>0, <2>0, <3>1, <3>2, ScopeAtEntry
      <3>5. DOMAIN Visible' = Predefined
        BY <2>0, <3>2 DEF Visible
      <3> QED
        BY <2>0, <3>2, <3>3, <3>4, <3>5 DEF ScopesAgree, EarlierPassed, PreflightPasses
    <2>2. CASE Cores(suite) = {}
      <3>1. at' = <<at'[1], 1>> /\ at'[1] \in DOMAIN suite
        BY <1>2, <2>2, EnterMoves DEF Start
      <3>2. suite[at'[1]].kind # "core"
        BY <2>2, <3>1 DEF Cores
      <3>3. CoreTests(suite) = {}
        BY <1>0, <2>2, PositionsShape DEF CoreTests, Cores, KindAt
      <3>4. DOMAIN postCore' = Predefined \cup Captured(suite, CoreTests(suite))
        BY <2>0, <3>3, CapturedNone
      <3> QED
        BY <1>0, <2>0, <3>1, <3>2, <3>4, EnterOther
    <2> QED
      BY <2>1, <2>2
  <1>3. CASE FailResolution
    <2>1. at \in Positions(suite)
      BY <1>3, CursorOnTest DEF FailResolution
    <2>2. PICK e \in PossibleErrors(Current, Visible) : Settle(e)
      BY <1>3 DEF FailResolution
    <2>3. e # "passed"
      BY ErrorsAreVerdicts
    <2> QED
      BY <1>3, <2>1, <2>2, <2>3, SettleFailure DEF FailResolution
  <1>4. CASE BeginTest
    BY <1>4 DEF BeginTest, ScopesAgree, PreflightPasses, BlockOver, EarlierPassed, InCore, Visible
  <1>5. CASE AnswerFails
    <2>1. at \in Positions(suite)
      BY <1>5 DEF AnswerFails, TypeOK
    <2>2. PICK v \in {"transport", "mismatch"} : Settle(v)
      BY <1>5 DEF AnswerFails
    <2> QED
      BY <1>5, <2>1, <2>2, SettleFailure DEF AnswerFails
  <1>6. CASE CaptureFails
    <2>1. at \in Positions(suite)
      BY <1>6 DEF CaptureFails, TypeOK
    <2> QED
      BY <1>6, <2>1, SettleFailure DEF CaptureFails
  <1>7. CASE TestPasses
    BY <1>7, SettlePass
  <1>8. CASE AbandonSuite
    BY <1>8 DEF AbandonSuite, ScopesAgree
  <1>9. CASE NextBlock
    <2>1. at' = <<at'[1], 1>> /\ at'[1] \in Following(at[1])
      BY <1>9, EnterMoves DEF NextBlock
    <2>2. at'[1] \in DOMAIN suite /\ suite[at'[1]].kind # "core"
      BY <2>1 DEF Following
    <2>3. DOMAIN postCore = Predefined \cup Captured(suite, CoreTests(suite))
      BY <1>9, LeaveBlock DEF NextBlock
    <2>4. PreflightPasses
      BY <1>9 DEF NextBlock, CloseBlock, ScopesAgree
    <2> QED
      BY <1>0, <1>9, <2>1, <2>2, <2>3, <2>4, EnterOther DEF NextBlock
  <1>10. CASE Finish
    BY <1>10 DEF Finish, ScopesAgree
  <1>11. CASE UNCHANGED engineVars
    BY <1>11 DEF engineVars, ScopesAgree, PreflightPasses, BlockOver, EarlierPassed, InCore, Visible
  <1> QED
    BY <1>1, <1>2, <1>3, <1>4, <1>5, <1>6, <1>7, <1>8, <1>9, <1>10, <1>11
    DEF Next, Advance, Answer

\* The scopes the validator computes are the scopes the engine works with, in
\* every run of every suite (validate_suite, validate_test, and execute).
THEOREM StaticScopesAreDynamic == Spec => []ScopesAgree
  <1>1. Init => FreshStart /\ ScopesAgree
    BY DEF Init, FreshStart, ScopesAgree
  <1> QED
    BY <1>1, InitTypes, NextTypes, FreshStartStays, NextScopes, PTL DEF Spec

(***************************************************************************)
(* Soundness of the validator.                                             *)
(***************************************************************************)

\* At its static scope, an accepted test has no undefined variable.
LEMMA AcceptedReadsResolve ==
  ASSUME Accepts(suite), at \in Positions(suite), DOMAIN Visible = ScopeAt(suite, at)
  PROVE  "undefined" \notin PossibleErrors(Current, Visible)
  <1>1. \A r \in Current.request \cup Current.expect : r.name \in DOMAIN Visible
    BY DEF Accepts, AcceptsTest, ReadsAreDefined, Current
  <1> QED
    BY <1>1 DEF PossibleErrors, ReferenceErrors

\* At its static scope, the captures of an accepted test can be kept.
LEMMA AcceptedCapturesCommit ==
  ASSUME Accepts(suite), at \in Positions(suite), DOMAIN Visible = ScopeAt(suite, at)
  PROVE  ~ StagingFails(Current) /\ ~ CommitFails(Visible, Staged(Current, at))
  <1>1. /\ CaptureNames(Current) \cap ScopeAt(suite, at) = {}
        /\ CapturesAreDistinct(Current)
        /\ ~ Current.malformed
    BY DEF Accepts, AcceptsTest, CapturesAreFresh, Current
  <1>2. DOMAIN Staged(Current, at) = CaptureNames(Current)
    BY DEF Staged
  <1> QED
    BY <1>1, <1>2 DEF StagingFails, CommitFails

\* A settled result is only as bad as the result of the current test.
LEMMA SettleResolves ==
  ASSUME AcceptedSuitesResolve, NEW v, Settle(v),
         Accepts(suite) => v \notin {"undefined", "aborted", "skipped_invalid"}
  PROVE  AcceptedSuitesResolve'
  BY DEF AcceptedSuitesResolve, Settle

\* Every step of an accepted suite avoids the failures the validator excludes.
LEMMA NextResolves ==
  TypeOK /\ ScopesAgree /\ AcceptedSuitesResolve /\ [Next]_engineVars
    => AcceptedSuitesResolve'
  <1> SUFFICES ASSUME TypeOK, ScopesAgree, AcceptedSuitesResolve, [Next]_engineVars
               PROVE  AcceptedSuitesResolve'
    OBVIOUS
  <1>1. CASE Reject
    BY <1>1, PreflightIsShape DEF Reject, AcceptedSuitesResolve, Accepts
  <1>2. ASSUME pc \in {"run", "await"}, at \in Positions(suite)
        PROVE  DOMAIN Visible = ScopeAt(suite, at)
    <2>1. ~ BlockOver
      BY <1>2, SuitesAssumption, PositionsShape, BlockShape DEF TypeOK, BlockOver
    <2> QED
      BY <1>2, <2>1 DEF ScopesAgree
  <1>3. CASE FailResolution
    <2>1. at \in Positions(suite) /\ pc = "run"
      BY <1>3, CursorOnTest DEF FailResolution
    <2>2. PICK e \in PossibleErrors(Current, Visible) : Settle(e)
      BY <1>3 DEF FailResolution
    <2>3. Accepts(suite) => e # "undefined"
      BY <1>2, <2>1, <2>2, AcceptedReadsResolve
    <2>4. e \notin {"aborted", "skipped_invalid"}
      BY ErrorsAreVerdicts DEF ResolutionErrors
    <2> QED
      BY <2>2, <2>3, <2>4, SettleResolves
  <1>4. CASE AnswerFails
    <2>1. PICK v \in {"transport", "mismatch"} : Settle(v)
      BY <1>4 DEF AnswerFails
    <2> QED
      BY <2>1, SettleResolves
  <1>5. CASE CaptureFails
    <2>1. at \in Positions(suite) /\ pc = "await"
      BY <1>5 DEF CaptureFails, TypeOK
    <2>2. ~ Accepts(suite)
      BY <1>2, <1>5, <2>1, AcceptedCapturesCommit DEF CaptureFails
    <2> QED
      BY <1>5, <2>2, SettleResolves DEF CaptureFails
  <1>6. CASE TestPasses
    BY <1>6, SettleResolves DEF TestPasses
  <1>7. CASE AbandonSuite
    BY <1>7 DEF AbandonSuite, AcceptedSuitesResolve
  <1>8. CASE Start \/ BeginTest \/ NextBlock \/ Finish \/ UNCHANGED engineVars
    <2>1. UNCHANGED <<suite, verdict>>
      BY <1>8 DEF Start, BeginTest, NextBlock, Finish, engineVars
    <2> QED
      BY <2>1 DEF AcceptedSuitesResolve
  <1> QED
    BY <1>1, <1>3, <1>4, <1>5, <1>6, <1>7, <1>8 DEF Next, Advance, Answer

\* A suite that check_source accepts never meets an undefined variable, an
\* invalid or duplicate capture or a preflight error, whatever the server
\* answers (VariableStore::commit and preflight never fail for such a suite).
THEOREM ValidationIsSound == Spec => []AcceptedSuitesResolve
  <1>1. Init => AcceptedSuitesResolve
    BY DEF Init, AcceptedSuitesResolve
  <1> QED
    BY <1>1, TypeCorrect, StaticScopesAreDynamic, NextResolves, PTL DEF Spec

-----------------------------------------------------------------------------
(***************************************************************************)
(* Requests, results and captures of the engine, for every suite: what was *)
(* sent and when (VerdictsMatchTraffic, DependenciesPassFirst), and which  *)
(* captures are visible where (ScopeIsolation, CapturesAreAtomic).         *)
(*                                                                         *)
(* They all rest on one fact about the loops of execute: the tests without *)
(* a result are exactly those ahead of the cursor (Pending).  A result is  *)
(* therefore never replaced, and a test that passed stays passed.          *)
(***************************************************************************)

\* The tests the engine has yet to come to, the current one included.
Ahead(p) == \/ p[1] = at[1] /\ p[2] >= at[2]
            \/ p[1] \in Following(at[1])

Fresh ==
  pc = "start" =>
    \A p \in Positions(suite) : verdict[p] = "none" /\ sends[p] = 0

Pending ==
  pc \in {"run", "await"} =>
    \A p \in Positions(suite) : verdict[p] = "none" <=> Ahead(p)

\* What has passed when blocks other than the core run.
CorePassed ==
  pc \in {"run", "await"} /\ ~ InCore =>
    \A q \in CoreTests(suite) : verdict[q] = "passed"

(***************************************************************************)
(* The order of the blocks.                                                *)
(***************************************************************************)

\* No block follows itself.
LEMMA FollowingIsStrict ==
  ASSUME suite \in Suite, NEW b \in DOMAIN suite
  PROVE  b \notin Following(b)
  <1>1. b \in Nat
    BY BlockShape
  <1> QED
    BY <1>1 DEF Following

\* After the first of the blocks that follow b come the others.
LEMMA FollowingShrinks ==
  ASSUME suite \in Suite, NEW b \in DOMAIN suite,
         NEW c \in Following(b), \A d \in Following(b) : c <= d
  PROVE  Following(c) = Following(b) \ {c}
  <1>1. c \in DOMAIN suite /\ suite[c].kind # "core" /\ (suite[b].kind = "core" \/ b < c)
    BY DEF Following
  <1>2. b \in Nat /\ c \in Nat
    BY <1>1, BlockShape
  <1>3. ASSUME NEW d \in DOMAIN suite
        PROVE  d \in Following(c) <=> d \in Following(b) /\ d # c
    <2>1. d \in Nat
      BY BlockShape
    <2>2. CASE d \in Following(c)
      BY <1>1, <1>2, <2>1, <2>2 DEF Following
    <2>3. CASE d \in Following(b) /\ d # c
      <3>1. c < d
        BY <1>2, <2>1, <2>3
      <3> QED
        BY <2>3, <3>1 DEF Following
    <2> QED
      BY <2>2, <2>3
  <1> QED
    BY <1>3 DEF Following

\* The cursor enters the first of the blocks it may enter.
LEMMA EnterFirst ==
  ASSUME NEW blocks, Enter(blocks)
  PROVE  \E b \in blocks : (\A c \in blocks : b <= c) /\ at' = <<b, 1>>
  BY DEF Enter

\* When the run starts, every block of the suite is ahead.
LEMMA StartAhead ==
  ASSUME suite \in Suite, Start, NEW b \in DOMAIN suite
  PROVE  /\ at'[2] = 1
         /\ b = at'[1] \/ b \in Following(at'[1])
  <1>1. b \in Nat
    BY BlockShape
  <1>2. \A c, d \in Cores(suite) : c = d
    BY DEF Start, PreflightPasses
  <1>3. CASE Cores(suite) # {}
    <2>1. PICK c \in Cores(suite) : at' = <<c, 1>>
      BY <1>3, EnterFirst DEF Start
    <2>2. suite[c].kind = "core"
      BY DEF Cores
    <2>3. CASE suite[b].kind = "core"
      BY <1>2, <2>1, <2>3 DEF Cores
    <2>4. CASE suite[b].kind # "core"
      BY <2>1, <2>2, <2>4 DEF Following
    <2> QED
      BY <2>1, <2>3, <2>4
  <1>4. CASE Cores(suite) = {}
    <2>1. PICK c \in DOMAIN suite : (\A d \in DOMAIN suite : c <= d) /\ at' = <<c, 1>>
      BY <1>4, EnterFirst DEF Start
    <2>2. c \in Nat /\ c <= b
      BY <2>1, BlockShape
    <2>3. suite[b].kind # "core"
      BY <1>4 DEF Cores
    <2>4. b = c \/ c < b
      BY <1>1, <2>2
    <2> QED
      BY <2>1, <2>3, <2>4 DEF Following
  <1> QED
    BY <1>3, <1>4

(***************************************************************************)
(* Results are pushed once.                                                *)
(***************************************************************************)

\* Whatever follows the current test in its block is ahead, and so is it.
LEMMA CursorIsAhead ==
  ASSUME TypeOK, Pending, pc \in {"run", "await"}, at \in Positions(suite),
         NEW p \in Positions(suite), p = at \/ at \in Earlier(suite, p)
  PROVE  verdict[p] = "none"
  <1>1. suite \in Suite /\ at[2] \in Nat /\ p[2] \in Nat
    BY SuitesAssumption, PositionShape DEF TypeOK
  <1>2. p[1] = at[1] /\ p[2] >= at[2]
    BY <1>1 DEF Earlier
  <1> QED
    BY <1>2 DEF Pending, Ahead

\* The result of the current test moves the cursor past every result.
LEMMA SettlePending ==
  ASSUME TypeOK, Pending, pc \in {"run", "await"}, at \in Positions(suite),
         NEW v, v # "none", Settle(v)
  PROVE  Pending'
  <1>0. /\ suite \in Suite /\ suite' = suite
        /\ at[1] \in DOMAIN suite
        /\ at = <<at[1], at[2]>> /\ at[2] \in Nat
        /\ at[2] \in 1 .. Len(suite[at[1]].tests)
        /\ Len(suite[at[1]].tests) \in Nat
    BY SuitesAssumption, PositionsShape, PositionShape, BlockShape DEF TypeOK, Settle
  <1> DEFINE next == IF v = "passed" THEN at[2] + 1 ELSE Len(suite[at[1]].tests) + 1
  <1>1. at' = <<at[1], next>> /\ next \in Nat /\ next > at[2]
    BY <1>0 DEF Settle
  <1>2. Following(at[1])' = Following(at[1])
    BY <1>0, <1>1 DEF Following
  <1>3. at[1] \notin Following(at[1])
    BY <1>0, FollowingIsStrict
  <1>4. ASSUME NEW p \in Positions(suite)
        PROVE  verdict'[p] = "none" <=> (p[1] = at[1] /\ p[2] >= next) \/ p[1] \in Following(at[1])
    <2>0. /\ p = <<p[1], p[2]>> /\ p[2] \in Nat
          /\ p[2] \in 1 .. Len(suite[p[1]].tests)
      BY <1>0, PositionsShape, PositionShape
    <2>1. verdict'[p] = IF p = at THEN v
                        ELSE IF v # "passed" /\ at \in Earlier(suite, p)
                        THEN IF InCore THEN "skipped_core" ELSE "skipped_pipeline"
                        ELSE verdict[p]
      BY DEF Settle
    <2>2. CASE p = at
      BY <1>0, <1>1, <1>3, <2>1, <2>2
    <2>3. CASE at \in Earlier(suite, p)
      <3>1. p[1] = at[1] /\ at[2] < p[2] /\ p # at
        BY <1>0, <2>0, <2>3 DEF Earlier
      <3>2. verdict[p] = "none"
        BY <2>3, CursorIsAhead
      <3>3. CASE v = "passed"
        BY <1>0, <2>0, <2>1, <3>1, <3>2, <3>3
      <3>4. CASE v # "passed"
        <4>1. verdict'[p] # "none"
          BY <2>1, <2>3, <3>1, <3>4
        <4>2. ~ (p[2] >= next)
          BY <1>0, <2>0, <3>1, <3>4
        <4> QED
          BY <1>3, <3>1, <4>1, <4>2
      <3> QED
        BY <3>3, <3>4
    <2>4. CASE p # at /\ at \notin Earlier(suite, p)
      <3>1. verdict'[p] = verdict[p]
        BY <2>1, <2>4
      <3>2. p[1] = at[1] => p[2] < at[2]
        BY <1>0, <2>0, <2>4 DEF Earlier
      <3>3. Ahead(p) <=> p[1] \in Following(at[1])
        BY <1>0, <2>0, <3>2 DEF Ahead
      <3>4. ~ (p[1] = at[1] /\ p[2] >= next)
        BY <1>0, <1>1, <2>0, <3>2
      <3> QED
        BY <3>1, <3>3, <3>4 DEF Pending
    <2> QED
      BY <2>2, <2>3, <2>4
  <1>5. \A p \in Positions(suite) : Ahead(p)' <=>
          (p[1] = at[1] /\ p[2] >= next) \/ p[1] \in Following(at[1])
    BY <1>1, <1>2 DEF Ahead
  <1> QED
    BY <1>0, <1>4, <1>5 DEF Pending

\* Entering the next block takes its tests, and no others, from those ahead.
LEMMA NextBlockPending ==
  ASSUME TypeOK, Pending, NextBlock
  PROVE  Pending'
  <1>0. /\ suite \in Suite /\ suite' = suite /\ verdict' = verdict
        /\ pc = "run" /\ BlockOver
        /\ at[1] \in DOMAIN suite /\ at[2] \in Nat
        /\ Len(suite[at[1]].tests) \in Nat
    BY SuitesAssumption, BlockShape DEF TypeOK, NextBlock, CloseBlock
  <1>1. PICK c \in Following(at[1]) :
          (\A d \in Following(at[1]) : c <= d) /\ at' = <<c, 1>>
    BY EnterFirst DEF NextBlock
  <1>2. Following(c) = Following(at[1]) \ {c}
    BY <1>0, <1>1, FollowingShrinks
  <1>3. Following(at[1])' = Following(c)
    BY <1>0, <1>1 DEF Following
  <1>4. ASSUME NEW p \in Positions(suite)
        PROVE  Ahead(p)' <=> Ahead(p)
    <2>1. p[2] \in 1 .. Len(suite[p[1]].tests) /\ p[2] \in Nat /\ p[2] >= 1
      BY <1>0, PositionsShape, PositionShape
    <2>2. ~ (p[1] = at[1] /\ p[2] >= at[2])
      BY <1>0, <2>1 DEF BlockOver
    <2>3. Ahead(p) <=> p[1] \in Following(at[1])
      BY <2>2 DEF Ahead
    <2>4. Ahead(p)' <=> p[1] = c \/ p[1] \in Following(c)
      BY <1>1, <1>3, <2>1 DEF Ahead
    <2> QED
      BY <1>1, <1>2, <2>3, <2>4
  <1> QED
    BY <1>0, <1>4 DEF Pending

\* Every step keeps the results behind the cursor.
LEMMA NextPending == TypeOK /\ Fresh /\ Pending /\ [Next]_engineVars => Pending'
  <1> SUFFICES ASSUME TypeOK, Fresh, Pending, [Next]_engineVars
               PROVE  Pending'
    OBVIOUS
  <1>0. suite \in Suite
    BY SuitesAssumption DEF TypeOK
  <1>1. CASE Start
    <2>1. ASSUME NEW p \in Positions(suite)
          PROVE  Ahead(p)' /\ verdict'[p] = "none"
      <3>1. at'[2] = 1 /\ (p[1] = at'[1] \/ p[1] \in Following(at'[1]))
        BY <1>0, <1>1, StartAhead, PositionsShape
      <3>2. p[2] \in Nat /\ p[2] >= 1
        BY <1>0, PositionShape
      <3>3. Following(at[1])' = Following(at'[1])
        BY <1>1 DEF Following, Start
      <3> QED
        BY <1>1, <3>1, <3>2, <3>3 DEF Ahead, Fresh, Start
    <2> QED
      BY <1>1, <2>1 DEF Pending, Start
  <1>2. CASE FailResolution
    <2>1. at \in Positions(suite) /\ pc = "run"
      BY <1>2, CursorOnTest DEF FailResolution
    <2>2. PICK e \in PossibleErrors(Current, Visible) : Settle(e)
      BY <1>2 DEF FailResolution
    <2>3. e # "none"
      BY ErrorsAreVerdicts DEF ResolutionErrors
    <2> QED
      BY <2>1, <2>2, <2>3, SettlePending
  <1>3. CASE AnswerFails
    <2>1. at \in Positions(suite) /\ pc = "await"
      BY <1>3 DEF AnswerFails, TypeOK
    <2>2. PICK v \in {"transport", "mismatch"} : Settle(v)
      BY <1>3 DEF AnswerFails
    <2> QED
      BY <2>1, <2>2, SettlePending
  <1>4. CASE CaptureFails
    BY <1>4, SettlePending DEF CaptureFails, TypeOK
  <1>5. CASE TestPasses
    BY <1>5, SettlePending DEF TestPasses, TypeOK
  <1>6. CASE NextBlock
    BY <1>6, NextBlockPending
  <1>7. CASE BeginTest \/ UNCHANGED engineVars
    BY <1>7 DEF BeginTest, engineVars, Pending, Ahead, Following
  <1>8. CASE Reject \/ AbandonSuite \/ Finish
    BY <1>8 DEF Reject, AbandonSuite, Finish, Pending
  <1> QED
    BY <1>1, <1>2, <1>3, <1>4, <1>5, <1>6, <1>7, <1>8 DEF Next, Advance, Answer

\* Before the start there is neither a result nor a request.
LEMMA NextFresh == Fresh /\ [Next]_engineVars => Fresh'
  BY DEF Fresh, Next, Advance, Answer, Reject, Start, FailResolution, BeginTest,
         AnswerFails, CaptureFails, TestPasses, AbandonSuite, NextBlock, Finish,
         CloseBlock, Settle, engineVars

(***************************************************************************)
(* A test that passed stays passed.                                        *)
(***************************************************************************)

\* A step only gives results to tests that had none.
LEMMA ResultsStay ==
  ASSUME TypeOK, Fresh, Pending, [Next]_engineVars,
         NEW p \in Positions(suite), verdict[p] # "none"
  PROVE  suite' = suite /\ verdict'[p] = verdict[p]
  <1>1. ASSUME pc \in {"run", "await"}, at \in Positions(suite), NEW v, Settle(v)
        PROVE  suite' = suite /\ verdict'[p] = verdict[p]
    <2>1. p # at /\ at \notin Earlier(suite, p)
      BY <1>1, CursorIsAhead
    <2> QED
      BY <1>1, <2>1 DEF Settle
  <1>2. CASE Reject
    BY <1>2 DEF Reject, Fresh
  <1>3. CASE FailResolution
    <2>1. at \in Positions(suite) /\ pc = "run"
      BY <1>3, CursorOnTest DEF FailResolution
    <2>2. PICK e \in PossibleErrors(Current, Visible) : Settle(e)
      BY <1>3 DEF FailResolution
    <2> QED
      BY <1>1, <2>1, <2>2
  <1>4. CASE Answer
    <2>1. at \in Positions(suite) /\ pc = "await"
      BY <1>4 DEF Answer, AnswerFails, CaptureFails, TestPasses, TypeOK
    <2>2. \E v \in {"transport", "mismatch", "aborted", "passed"} : Settle(v)
      BY <1>4 DEF Answer, AnswerFails, CaptureFails, TestPasses
    <2> QED
      BY <1>1, <2>1, <2>2
  <1>5. CASE AbandonSuite
    BY <1>5 DEF AbandonSuite
  <1>6. CASE Start \/ BeginTest \/ NextBlock \/ Finish \/ UNCHANGED engineVars
    BY <1>6 DEF Start, BeginTest, NextBlock, Finish, engineVars
  <1> QED
    BY <1>2, <1>3, <1>4, <1>5, <1>6 DEF Next, Advance

\* Blocks other than the core run only after the core passed.
LEMMA NextCorePassed ==
  TypeOK /\ Fresh /\ Pending /\ ScopesAgree /\ CorePassed /\ [Next]_engineVars
    => CorePassed'
  <1> SUFFICES ASSUME TypeOK, Fresh, Pending, ScopesAgree, CorePassed, [Next]_engineVars
               PROVE  CorePassed'
    OBVIOUS
  <1>0. suite \in Suite /\ CoreTests(suite) \subseteq Positions(suite)
    BY SuitesAssumption DEF TypeOK, CoreTests
  <1>1. ASSUME pc \in {"run", "await"}, suite' = suite, at'[1] = at[1]
        PROVE  CorePassed'
    <2>1. CASE InCore
      BY <1>1, <2>1 DEF CorePassed, InCore
    <2>2. CASE ~ InCore
      <3>1. \A q \in CoreTests(suite) : verdict'[q] = "passed"
        BY <1>0, <1>1, <2>2, ResultsStay DEF CorePassed
      <3> QED
        BY <1>1, <3>1 DEF CorePassed
    <2> QED
      BY <2>1, <2>2
  <1>2. CASE Start
    <2>1. CASE Cores(suite) # {}
      <3>1. at'[1] \in Cores(suite) /\ suite' = suite
        BY <1>2, <2>1, EnterMoves DEF Start
      <3> QED
        BY <3>1 DEF CorePassed, InCore, Cores
    <2>2. CASE Cores(suite) = {}
      <3>1. CoreTests(suite) = {}
        BY <1>0, <2>2, PositionsShape DEF CoreTests, Cores, KindAt
      <3>2. CoreTests(suite)' = {}
        BY <1>2, <3>1 DEF Start
      <3> QED
        BY <3>2 DEF CorePassed
    <2> QED
      BY <2>1, <2>2
  <1>3. CASE FailResolution \/ BeginTest \/ Answer
    <2>1. pc \in {"run", "await"} /\ suite' = suite /\ at'[1] = at[1]
      BY <1>3 DEF FailResolution, BeginTest, Answer, AnswerFails, CaptureFails, TestPasses, Settle
    <2> QED
      BY <1>1, <2>1
  <1>4. CASE NextBlock
    <2>0. /\ suite' = suite /\ verdict' = verdict
          /\ at[1] \in DOMAIN suite /\ pc = "run"
      BY <1>4 DEF NextBlock, CloseBlock, TypeOK
    <2>1. ASSUME NEW q \in CoreTests(suite)
          PROVE  verdict[q] = "passed"
      <3>1. CASE InCore
        <4>1. q[1] = at[1]
          BY <1>0, <2>0, <3>1, CoreTestsOfBlock, PreflightIsShape DEF InCore, ScopesAgree
        <4>2. BlockStatus(at[1]) = "Passed"
          BY <1>4, <3>1 DEF NextBlock, CloseBlock
        <4> QED
          BY <1>0, <4>1, <4>2, PassedBlock
      <3>2. CASE ~ InCore
        BY <2>0, <3>2 DEF CorePassed
      <3> QED
        BY <3>1, <3>2
    <2> QED
      BY <2>0, <2>1 DEF CorePassed
  <1>5. CASE UNCHANGED engineVars
    BY <1>5 DEF engineVars, CorePassed, InCore
  <1>6. CASE Reject \/ AbandonSuite \/ Finish
    BY <1>6 DEF Reject, AbandonSuite, Finish, CorePassed
  <1> QED
    BY <1>2, <1>3, <1>4, <1>5, <1>6 DEF Next, Advance

(***************************************************************************)
(* The invariant the theorems share.                                       *)
(***************************************************************************)
TrafficInv ==
  TypeOK /\ FreshStart /\ ScopesAgree /\ Fresh /\ Pending /\ CorePassed

\* At the start there is no result, and all tests are ahead.
LEMMA InitTraffic == Init => TrafficInv
  BY InitTypes DEF Init, TrafficInv, FreshStart, ScopesAgree, Fresh, Pending, CorePassed

\* The parts hold together.
LEMMA NextTraffic == TrafficInv /\ [Next]_engineVars => TrafficInv'
  BY NextTypes, FreshStartStays, NextScopes, NextFresh, NextPending, NextCorePassed
  DEF TrafficInv

\* A test that is about to be settled has no result, follows only passed
\* tests, and sees the scope the validator computed for it.
LEMMA CurrentTest ==
  ASSUME TrafficInv, pc \in {"run", "await"}, at \in Positions(suite)
  PROVE  /\ verdict[at] = "none"
         /\ EarlierPassed
         /\ DOMAIN Visible = ScopeAt(suite, at)
  <1>1. ~ BlockOver
    BY SuitesAssumption, PositionsShape, BlockShape DEF TrafficInv, TypeOK, BlockOver
  <1> QED
    BY <1>1, CursorIsAhead DEF TrafficInv, ScopesAgree

(***************************************************************************)
(* What was sent.                                                          *)
(***************************************************************************)
Sent == {"passed", "mismatch", "transport", "aborted"}

\* Settling a test keeps results and requests in agreement.
LEMMA SettleMatches ==
  ASSUME TrafficInv, VerdictsMatchTraffic, pc \in {"run", "await"}, at \in Positions(suite),
         NEW v, v \in Sent <=> pc = "await", Settle(v)
  PROVE  VerdictsMatchTraffic'
  <1>1. suite' = suite /\ sends' = sends /\ pc' = "run"
    BY DEF Settle
  <1>2. ASSUME NEW p \in Positions(suite)
        PROVE  sends[p] = IF verdict'[p] \in Sent THEN 1 ELSE 0
    <2>1. verdict'[p] = IF p = at THEN v
                        ELSE IF v # "passed" /\ at \in Earlier(suite, p)
                        THEN IF InCore THEN "skipped_core" ELSE "skipped_pipeline"
                        ELSE verdict[p]
      BY DEF Settle
    <2>2. sends[p] = IF verdict[p] \in Sent \/ (pc = "await" /\ p = at) THEN 1 ELSE 0
      BY DEF VerdictsMatchTraffic, Sent
    <2>3. CASE p = at
      BY <2>1, <2>2, <2>3, CurrentTest DEF Sent
    <2>4. CASE p # at /\ at \in Earlier(suite, p)
      <3>1. verdict[p] = "none"
        BY <2>4, CursorIsAhead DEF TrafficInv
      <3> QED
        BY <2>1, <2>2, <2>4, <3>1 DEF Sent
    <2>5. CASE p # at /\ at \notin Earlier(suite, p)
      BY <2>1, <2>2, <2>5
    <2> QED
      BY <2>3, <2>4, <2>5
  <1> QED
    BY <1>1, <1>2 DEF VerdictsMatchTraffic, Sent

\* Every step keeps results and requests in agreement.
LEMMA NextMatches ==
  TrafficInv /\ VerdictsMatchTraffic /\ [Next]_engineVars => VerdictsMatchTraffic'
  <1> SUFFICES ASSUME TrafficInv, VerdictsMatchTraffic, [Next]_engineVars
               PROVE  VerdictsMatchTraffic'
    OBVIOUS
  <1>0. TypeOK /\ Fresh
    BY DEF TrafficInv
  <1>1. CASE Reject
    BY <1>0, <1>1 DEF Reject, Fresh, VerdictsMatchTraffic
  <1>2. CASE FailResolution
    <2>1. at \in Positions(suite) /\ pc = "run"
      BY <1>0, <1>2, CursorOnTest DEF FailResolution
    <2>2. PICK e \in PossibleErrors(Current, Visible) : Settle(e)
      BY <1>2 DEF FailResolution
    <2>3. e \notin Sent
      BY ErrorsAreVerdicts DEF ResolutionErrors, Sent
    <2> QED
      BY <2>1, <2>2, <2>3, SettleMatches
  <1>3. CASE BeginTest
    <2>1. at \in Positions(suite) /\ pc = "run" /\ pc' = "await"
      BY <1>0, <1>3, CursorOnTest DEF BeginTest
    <2>2. verdict[at] = "none"
      BY <2>1, CurrentTest
    <2>3. sends[at] = 0
      BY <2>1, <2>2 DEF VerdictsMatchTraffic
    <2>4. sends' = [sends EXCEPT ![at] = 1]
      BY <1>3, <2>3 DEF BeginTest
    <2>5. \A p \in Positions(suite) : sends'[p] = IF p = at THEN 1 ELSE sends[p]
      BY <1>0, <2>4 DEF TypeOK
    <2> QED
      BY <1>3, <2>1, <2>2, <2>5 DEF BeginTest, VerdictsMatchTraffic
  <1>4. CASE Answer
    <2>1. at \in Positions(suite) /\ pc = "await"
      BY <1>0, <1>4 DEF Answer, AnswerFails, CaptureFails, TestPasses, TypeOK
    <2>2. PICK v \in Sent : Settle(v)
      BY <1>4 DEF Answer, AnswerFails, CaptureFails, TestPasses, Sent
    <2> QED
      BY <2>1, <2>2, SettleMatches
  <1>5. CASE AbandonSuite
    <2>1. pc = "run" /\ pc' = "done" /\ suite' = suite /\ sends' = sends
      BY <1>5 DEF AbandonSuite
    <2>2. \A p \in Positions(suite) :
            verdict'[p] = IF verdict[p] = "none" THEN "skipped_core" ELSE verdict[p]
      BY <1>5 DEF AbandonSuite
    <2> QED
      BY <2>1, <2>2 DEF VerdictsMatchTraffic
  <1>6. CASE Start \/ NextBlock \/ Finish
    <2>1. /\ suite' = suite /\ sends' = sends /\ verdict' = verdict
          /\ pc # "await" /\ pc' # "await"
      BY <1>6 DEF Start, NextBlock, Finish, CloseBlock
    <2> QED
      BY <2>1 DEF VerdictsMatchTraffic
  <1>7. CASE UNCHANGED engineVars
    BY <1>7 DEF engineVars, VerdictsMatchTraffic
  <1> QED
    BY <1>1, <1>2, <1>3, <1>4, <1>5, <1>6, <1>7 DEF Next, Advance

\* Whatever the suite and whatever the server answers, a request is sent at
\* most once, and exactly for the tests whose result says so (execute_test
\* calls client.execute once, after the resolution and before the result).
THEOREM TrafficIsTruthful == Spec => []VerdictsMatchTraffic
  <1>1. Init => VerdictsMatchTraffic
    BY DEF Init, VerdictsMatchTraffic
  <1> QED
    BY <1>1, InitTraffic, NextTraffic, NextMatches, PTL DEF Spec

\* What a request depended on stays passed, and a new one waits for it.
LEMMA NextDependencies ==
  TrafficInv /\ DependenciesPassFirst /\ [Next]_engineVars => DependenciesPassFirst'
  <1> SUFFICES ASSUME TrafficInv, DependenciesPassFirst, [Next]_engineVars
               PROVE  DependenciesPassFirst'
    OBVIOUS
  <1>0. TypeOK /\ Fresh /\ Pending /\ CorePassed
    BY DEF TrafficInv
  <1>1. suite' = suite
    BY DEF Next, Advance, Answer, Reject, Start, FailResolution, BeginTest, AnswerFails,
           CaptureFails, TestPasses, AbandonSuite, NextBlock, Finish, CloseBlock, Settle,
           engineVars
  <1>2. \A q \in Positions(suite) : verdict[q] = "passed" => verdict'[q] = "passed"
    BY <1>0, ResultsStay
  <1>3. \A p : Earlier(suite, p) \subseteq Positions(suite)
    BY DEF Earlier
  <1>4. CoreTests(suite) \subseteq Positions(suite)
    BY DEF CoreTests
  <1>5. CASE BeginTest
    <2>1. at \in Positions(suite) /\ pc = "run"
      BY <1>0, <1>5, CursorOnTest DEF BeginTest
    <2>2. \A q \in Earlier(suite, at) : verdict[q] = "passed"
      BY <2>1, CurrentTest DEF EarlierPassed
    <2>3. KindAt(suite, at) # "core" => \A q \in CoreTests(suite) : verdict[q] = "passed"
      BY <1>0, <2>1 DEF CorePassed, InCore, KindAt
    <2>4. \A p \in Positions(suite) : p # at => sends'[p] = sends[p]
      BY <1>0, <1>5 DEF BeginTest, TypeOK
    <2>5. verdict' = verdict
      BY <1>5 DEF BeginTest
    <2> QED
      BY <1>1, <2>2, <2>3, <2>4, <2>5 DEF DependenciesPassFirst
  <1>6. CASE sends' = sends
    BY <1>1, <1>2, <1>3, <1>4, <1>6 DEF DependenciesPassFirst
  <1> QED
    BY <1>5, <1>6 DEF Next, Advance, Answer, Reject, Start, FailResolution, AnswerFails,
       CaptureFails, TestPasses, AbandonSuite, NextBlock, Finish, CloseBlock, Settle,
       engineVars

\* No request leaves before the tests it depends on have passed, wherever the
\* core stands in the file (execute runs it first, and every loop breaks at
\* the first failure).
THEOREM RequestsWaitForDependencies == Spec => []DependenciesPassFirst
  <1>1. Init => DependenciesPassFirst
    BY DEF Init, DependenciesPassFirst
  <1> QED
    BY <1>1, InitTraffic, NextTraffic, NextDependencies, PTL DEF Spec

(***************************************************************************)
(* Who may see which capture.                                              *)
(***************************************************************************)

\* A store keeps its owners as long as they count: they stay passed.
LEMMA BelongsStays ==
  ASSUME TypeOK, Fresh, Pending, [Next]_engineVars,
         NEW store, NEW A, NEW B, A \subseteq B, A \subseteq Positions(suite),
         BelongsTo(store, A)
  PROVE  BelongsTo(store, B)'
  <1>1. ASSUME NEW n \in DOMAIN store, store[n].by # Host
        PROVE  /\ store[n].by \in B
               /\ verdict'[store[n].by] = "passed"
               /\ suite' = suite
               /\ n \in CaptureNames(TestAt(suite, store[n].by))
    <2>1. /\ store[n].by \in A
          /\ verdict[store[n].by] = "passed"
          /\ n \in CaptureNames(TestAt(suite, store[n].by))
      BY <1>1 DEF BelongsTo
    <2> QED
      BY <2>1, ResultsStay
  <1>2. \A n \in DOMAIN store : store[n].by = Host => n \in Predefined
    BY DEF BelongsTo
  <1> QED
    BY <1>1, <1>2 DEF BelongsTo, CaptureNames, TestAt

\* The captures of the test that passes join the store of its scope.
LEMMA MergeBelongs ==
  ASSUME TrafficInv, [Next]_engineVars, TestPasses,
         NEW store, NEW A, A \subseteq Positions(suite), BelongsTo(store, A),
         NEW merged, merged = Merge(store, Staged(Current, at)),
         NEW B, A \cup {at} \subseteq B
  PROVE  BelongsTo(merged, B)'
  <1>0. at \in Positions(suite) /\ suite' = suite
    BY DEF TestPasses, TrafficInv, TypeOK, Settle
  <1>1. ASSUME NEW n \in DOMAIN merged, merged[n].by # Host
        PROVE  /\ merged[n].by \in B
               /\ verdict'[merged[n].by] = "passed"
               /\ n \in CaptureNames(TestAt(suite, merged[n].by))'
    <2>1. CASE n \in CaptureNames(Current)
      <3>1. merged[n].by = at
        BY <2>1 DEF Merge, Staged
      <3>2. verdict'[at] = "passed"
        BY <1>0 DEF TestPasses, Settle
      <3> QED
        BY <1>0, <2>1, <3>1, <3>2 DEF Current, TestAt
    <2>2. CASE n \notin CaptureNames(Current)
      <3>1. n \in DOMAIN store /\ merged[n] = store[n]
        BY <2>2 DEF Merge, Staged
      <3>2. BelongsTo(store, A)'
        BY BelongsStays DEF TrafficInv
      <3> QED
        BY <1>0, <1>1, <3>1, <3>2 DEF BelongsTo
    <2> QED
      BY <2>1, <2>2
  <1>2. ASSUME NEW n \in DOMAIN merged, merged[n].by = Host
        PROVE  n \in Predefined
    <2>1. at # Host
      BY <1>0, SuitesAssumption, PositionShape DEF Host, TrafficInv, TypeOK
    <2>2. CASE n \in CaptureNames(Current)
      BY <1>2, <2>1, <2>2 DEF Merge, Staged
    <2>3. CASE n \notin CaptureNames(Current)
      BY <1>2, <2>3 DEF Merge, Staged, BelongsTo
    <2> QED
      BY <2>2, <2>3
  <1> QED
    BY <1>1, <1>2 DEF BelongsTo

\* While the core runs, the clone is still the predefined store.
CloneInCore == pc \in {"run", "await"} /\ InCore => scope = PredefinedStore

\* The clone is first used after the core.
LEMMA NextCloneInCore ==
  TypeOK /\ FreshStart /\ CloneInCore /\ [Next]_engineVars => CloneInCore'
  <1> SUFFICES ASSUME TypeOK, FreshStart, CloneInCore, [Next]_engineVars
               PROVE  CloneInCore'
    OBVIOUS
  <1>1. CASE Start
    BY <1>1 DEF Start, FreshStart, CloneInCore, PredefinedStore
  <1>2. CASE FailResolution \/ BeginTest \/ Answer
    <2>1. /\ pc \in {"run", "await"} /\ suite' = suite /\ at'[1] = at[1]
          /\ InCore => scope' = scope
      BY <1>2 DEF FailResolution, BeginTest, Answer, AnswerFails, CaptureFails, TestPasses, Settle
    <2> QED
      BY <2>1 DEF CloneInCore, InCore, PredefinedStore
  <1>3. CASE NextBlock
    <2>1. suite' = suite /\ at'[1] \in Following(at[1])
      BY <1>3, EnterMoves DEF NextBlock
    <2> QED
      BY <2>1 DEF CloneInCore, InCore, Following
  <1>4. CASE Reject \/ AbandonSuite \/ Finish
    BY <1>4 DEF Reject, AbandonSuite, Finish, CloneInCore
  <1>5. CASE UNCHANGED engineVars
    BY <1>5 DEF engineVars, CloneInCore, InCore, PredefinedStore
  <1> QED
    BY <1>1, <1>2, <1>3, <1>4, <1>5 DEF Next, Advance

\* The tests before the cursor are still before it after the current test.
LEMMA SettleMovesOn ==
  ASSUME TypeOK, at \in Positions(suite), NEW v, Settle(v)
  PROVE  /\ suite' = suite /\ at'[1] = at[1]
         /\ Earlier(suite, at) \cup {at} \subseteq Earlier(suite, at)'
  <1>1. /\ suite \in Suite /\ suite' = suite
        /\ at = <<at[1], at[2]>> /\ at[2] \in 1 .. Len(suite[at[1]].tests)
        /\ at[2] \in Nat /\ Len(suite[at[1]].tests) \in Nat
    BY SuitesAssumption, PositionsShape, PositionShape, BlockShape DEF TypeOK, Settle
  <1>2. at'[1] = at[1] /\ at'[2] \in Nat /\ at[2] < at'[2]
    BY <1>1 DEF Settle
  <1>3. ASSUME NEW q \in Earlier(suite, at) \cup {at}
        PROVE  q \in Positions(suite) /\ q[1] = at'[1] /\ q[2] < at'[2]
    <2>1. q \in Positions(suite) /\ q[2] \in Nat /\ q[1] = at[1] /\ q[2] <= at[2]
      BY <1>1, PositionShape DEF Earlier
    <2> QED
      BY <1>1, <1>2, <2>1
  <1> QED
    BY <1>1, <1>2, <1>3 DEF Earlier

\* Every step keeps the captures in their scopes.
LEMMA NextIsolation ==
  TrafficInv /\ CloneInCore /\ ScopeIsolation /\ [Next]_engineVars => ScopeIsolation'
  <1> SUFFICES ASSUME TrafficInv, CloneInCore, ScopeIsolation, [Next]_engineVars
               PROVE  ScopeIsolation'
    OBVIOUS
  <1> DEFINE core == CoreTests(suite)
             visible == CoreTests(suite) \cup Earlier(suite, at)
  <1>0. /\ TypeOK /\ Fresh /\ Pending
        /\ core \subseteq Positions(suite) /\ visible \subseteq Positions(suite)
        /\ BelongsTo(postCore, core) /\ BelongsTo(scope, visible)
    BY DEF TrafficInv, CoreTests, Earlier, ScopeIsolation
  <1>1. ASSUME suite' = suite, postCore' = postCore, scope' = scope,
               Earlier(suite, at) \subseteq Earlier(suite, at)'
        PROVE  ScopeIsolation'
    <2>1. CoreTests(suite)' = core /\ visible \subseteq visible'
      BY <1>1
    <2>2. BelongsTo(postCore, CoreTests(suite))'
      BY <1>0, <1>1, <2>1, BelongsStays
    <2>3. BelongsTo(scope, CoreTests(suite) \cup Earlier(suite, at))'
      BY <1>0, <1>1, <2>1, BelongsStays
    <2> QED
      BY <2>2, <2>3 DEF ScopeIsolation
  <1>2. CASE FailResolution \/ AnswerFails \/ CaptureFails
    <2>1. at \in Positions(suite) /\ postCore' = postCore /\ scope' = scope
      BY <1>0, <1>2, CursorOnTest DEF FailResolution, AnswerFails, CaptureFails, TypeOK
    <2>2. \E v \in ResolutionErrors \cup {"transport", "mismatch", "aborted"} : Settle(v)
      BY <1>2, ErrorsAreVerdicts DEF FailResolution, AnswerFails, CaptureFails
    <2> QED
      BY <1>0, <1>1, <2>1, <2>2, SettleMovesOn
  <1>3. CASE TestPasses
    <2>1. at \in Positions(suite) /\ Settle("passed")
      BY <1>0, <1>3 DEF TestPasses, TypeOK
    <2>2. /\ suite' = suite /\ at'[1] = at[1]
          /\ Earlier(suite, at) \cup {at} \subseteq Earlier(suite, at)'
      BY <1>0, <2>1, SettleMovesOn
    <2>3. CoreTests(suite)' = core
      BY <2>2
    <2>4. CASE InCore
      <3>1. postCore' = Merge(postCore, Staged(Current, at)) /\ scope' = scope
        BY <1>3, <2>4 DEF TestPasses, Visible
      <3>2. core \cup {at} \subseteq core
        BY <2>1, <2>4 DEF CoreTests, KindAt, InCore
      <3>3. BelongsTo(postCore, CoreTests(suite))'
        BY <1>0, <1>3, <2>3, <3>1, <3>2, MergeBelongs
      <3>4. BelongsTo(scope, CoreTests(suite) \cup Earlier(suite, at))'
        BY <1>0, <2>2, <2>3, <3>1, BelongsStays
      <3> QED
        BY <3>3, <3>4 DEF ScopeIsolation
    <2>5. CASE ~ InCore
      <3>1. scope' = Merge(scope, Staged(Current, at)) /\ postCore' = postCore
        BY <1>3, <2>5 DEF TestPasses, Visible
      <3>2. BelongsTo(postCore, CoreTests(suite))'
        BY <1>0, <2>3, <3>1, BelongsStays
      <3>3. BelongsTo(scope, CoreTests(suite) \cup Earlier(suite, at))'
        BY <1>0, <1>3, <2>2, <2>3, <3>1, MergeBelongs
      <3> QED
        BY <3>2, <3>3 DEF ScopeIsolation
    <2> QED
      BY <2>4, <2>5
  <1>4. CASE NextBlock
    <2>1. suite' = suite /\ postCore' = postCore /\ scope' = postCore
      BY <1>4 DEF NextBlock
    <2>2. BelongsTo(postCore, CoreTests(suite))'
      BY <1>0, <2>1, BelongsStays
    <2>3. BelongsTo(scope, CoreTests(suite) \cup Earlier(suite, at))'
      BY <1>0, <2>1, BelongsStays
    <2> QED
      BY <2>2, <2>3 DEF ScopeIsolation
  <1>5. CASE Start
    <2>1. postCore' = PredefinedStore /\ scope' = PredefinedStore
      BY <1>5 DEF Start, TrafficInv, FreshStart
    <2> QED
      BY <2>1 DEF ScopeIsolation, BelongsTo, PredefinedStore
  <1>6. CASE Reject \/ BeginTest \/ AbandonSuite \/ Finish \/ UNCHANGED engineVars
    <2>1. suite' = suite /\ postCore' = postCore /\ scope' = scope /\ at' = at
      BY <1>6 DEF Reject, BeginTest, AbandonSuite, Finish, engineVars
    <2> QED
      BY <1>1, <2>1
  <1> QED
    BY <1>2, <1>3, <1>4, <1>5, <1>6 DEF Next, Advance, Answer

\* Whatever is visible was captured by a core test or an earlier test of the
\* same block, and that test passed: no capture of a failed test, a sibling
\* pipeline or a standalone test ever leaks (execute clones
\* post_core_variables for each block).
THEOREM ScopesAreIsolated == Spec => []ScopeIsolation
  <1>1. Init => CloneInCore /\ ScopeIsolation
    BY DEF Init, CloneInCore, ScopeIsolation, BelongsTo, PredefinedStore
  <1>2. TrafficInv => TypeOK /\ FreshStart
    BY DEF TrafficInv
  <1> QED
    BY <1>1, <1>2, InitTraffic, NextTraffic, NextCloneInCore, NextIsolation, PTL DEF Spec

(***************************************************************************)
(* Captures commit all at once.                                            *)
(***************************************************************************)

\* A step that commits nothing makes no test pass, and the reverse.
LEMMA NothingCommitted ==
  ASSUME suite' = suite, postCore' = postCore,
         DOMAIN scope' \subseteq DOMAIN postCore \cup DOMAIN scope,
         at'[1] = at[1] => scope' = scope,
         \A p \in Positions(suite) : verdict'[p] = "passed" => verdict[p] = "passed"
  PROVE  CommitsAtomically
  <1>1. {p \in Positions(suite) : verdict[p] # "passed" /\ verdict'[p] = "passed"} = {}
    OBVIOUS
  <1>2. (DOMAIN postCore' \cup DOMAIN scope') \ (DOMAIN postCore \cup DOMAIN scope) = {}
    OBVIOUS
  <1> QED
    BY <1>1, <1>2 DEF CommitsAtomically

\* Merging staged captures that are all fresh adds them and keeps the rest.
LEMMA MergeAdds ==
  ASSUME NEW store, NEW test, NEW p, ~ CommitFails(store, Staged(test, p))
  PROVE  /\ DOMAIN Merge(store, Staged(test, p)) = DOMAIN store \cup CaptureNames(test)
         /\ \A n \in DOMAIN store : Merge(store, Staged(test, p))[n] = store[n]
         /\ CaptureNames(test) \cap DOMAIN store = {}
  <1>1. DOMAIN Staged(test, p) = CaptureNames(test)
    BY DEF Staged
  <1> QED
    BY <1>1 DEF Merge, CommitFails

\* When a test passes, its captures become visible together.
LEMMA PassCommits ==
  ASSUME TrafficInv, CloneInCore, TestPasses
  PROVE  CommitsAtomically
  <1> DEFINE new == CaptureNames(Current)
             committed == Merge(Visible, Staged(Current, at))
  <1>0. /\ at \in Positions(suite) /\ suite' = suite /\ at'[1] = at[1]
        /\ pc = "await"
    BY DEF TestPasses, TrafficInv, TypeOK, Settle
  <1>1. /\ DOMAIN committed = DOMAIN Visible \cup new
        /\ \A n \in DOMAIN Visible : committed[n] = Visible[n]
        /\ new \cap DOMAIN Visible = {}
    BY MergeAdds DEF TestPasses
  <1>2. /\ verdict[at] = "none"
        /\ DOMAIN Visible = ScopeAt(suite, at)
    BY <1>0, CurrentTest
  <1>3. {p \in Positions(suite) : verdict[p] # "passed" /\ verdict'[p] = "passed"} = {at}
    BY <1>0, <1>2 DEF TestPasses, Settle
  <1>4. UNION {CaptureNames(TestAt(suite, p)) : p \in {at}} = new
    BY DEF Current
  <1>5. CASE InCore
    <2>1. postCore' = committed /\ scope' = scope /\ Visible = postCore
      BY <1>5 DEF TestPasses, Visible
    <2>2. DOMAIN scope \subseteq DOMAIN postCore
      BY <1>0, <1>2, <1>5, <2>1 DEF CloneInCore, PredefinedStore, ScopeAt, ScopeOfCore, KindAt, InCore
    <2>3. (DOMAIN postCore' \cup DOMAIN scope') \ (DOMAIN postCore \cup DOMAIN scope) = new
      BY <1>1, <2>1, <2>2
    <2> QED
      BY <1>1, <1>3, <1>4, <2>1, <2>3 DEF CommitsAtomically
  <1>6. CASE ~ InCore
    <2>1. scope' = committed /\ postCore' = postCore /\ Visible = scope
      BY <1>6 DEF TestPasses, Visible
    <2>2. DOMAIN postCore \subseteq DOMAIN scope
      <3>1. DOMAIN postCore = Predefined \cup Captured(suite, CoreTests(suite))
        BY <1>0, <1>6 DEF TrafficInv, ScopesAgree
      <3>2. DOMAIN scope = Predefined \cup Captured(suite, CoreTests(suite) \cup Earlier(suite, at))
        BY <1>2, <1>6, <2>1 DEF ScopeAt, KindAt, InCore
      <3> QED
        BY <3>1, <3>2, CapturedUnion
    <2>3. (DOMAIN postCore' \cup DOMAIN scope') \ (DOMAIN postCore \cup DOMAIN scope) = new
      BY <1>1, <2>1, <2>2
    <2> QED
      BY <1>1, <1>3, <1>4, <2>1, <2>3 DEF CommitsAtomically
  <1> QED
    BY <1>5, <1>6

\* Every step commits atomically.
LEMMA NextAtomic ==
  TrafficInv /\ CloneInCore /\ [Next]_engineVars => [CommitsAtomically]_engineVars
  <1> SUFFICES ASSUME TrafficInv, CloneInCore, Next
               PROVE  CommitsAtomically
    OBVIOUS
  <1>1. CASE TestPasses
    BY <1>1, PassCommits
  <1>2. CASE FailResolution \/ AnswerFails \/ CaptureFails
    <2>1. postCore' = postCore /\ scope' = scope
      BY <1>2 DEF FailResolution, AnswerFails, CaptureFails
    <2>2. \E v \in ResolutionErrors \cup {"transport", "mismatch", "aborted"} : Settle(v)
      BY <1>2, ErrorsAreVerdicts DEF FailResolution, AnswerFails, CaptureFails
    <2>3. /\ suite' = suite
          /\ \A p \in Positions(suite) : verdict'[p] = "passed" => verdict[p] = "passed"
      BY <2>2 DEF Settle, ResolutionErrors
    <2> QED
      BY <2>1, <2>3, NothingCommitted
  <1>3. CASE NextBlock
    <2>1. /\ suite' = suite /\ verdict' = verdict
          /\ postCore' = postCore /\ scope' = postCore
          /\ at[1] \in DOMAIN suite /\ at'[1] \in Following(at[1])
      BY <1>3, EnterMoves DEF NextBlock, CloseBlock, TrafficInv, TypeOK
    <2>2. at'[1] # at[1]
      BY <2>1, FollowingIsStrict, SuitesAssumption DEF TrafficInv, TypeOK
    <2> QED
      BY <2>1, <2>2, NothingCommitted
  <1>4. CASE Reject \/ AbandonSuite
    <2>1. /\ suite' = suite /\ postCore' = postCore /\ scope' = scope
          /\ \A p \in Positions(suite) : verdict'[p] = "passed" => verdict[p] = "passed"
      BY <1>4 DEF Reject, AbandonSuite
    <2> QED
      BY <2>1, NothingCommitted
  <1>5. CASE Start \/ BeginTest \/ Finish
    <2>1. suite' = suite /\ postCore' = postCore /\ scope' = scope /\ verdict' = verdict
      BY <1>5 DEF Start, BeginTest, Finish
    <2> QED
      BY <2>1, NothingCommitted
  <1> QED
    BY <1>1, <1>2, <1>3, <1>4, <1>5 DEF Next, Advance, Answer

\* Captures become visible all together, in the step in which their test
\* passes, and never replace a visible variable (VariableStore::commit checks
\* every name before it inserts one).
THEOREM CommitsAreAtomic == Spec => CapturesAreAtomic
  <1>1. Init => CloneInCore
    BY DEF Init, CloneInCore
  <1>2. TrafficInv => TypeOK /\ FreshStart
    BY DEF TrafficInv
  <1> QED
    BY <1>1, <1>2, InitTraffic, NextTraffic, NextCloneInCore, NextAtomic, PTL
    DEF Spec, CapturesAreAtomic

-----------------------------------------------------------------------------
(***************************************************************************)
(* The final report of the engine, for every suite: it is complete and its *)
(* statuses and skip reasons are right (ReportIsComplete), and every step  *)
(* on the way is one that SuiteVerdict allows (ImplementsVerdict).         *)
(***************************************************************************)
Bad == {"Failed", "Aborted"}

(***************************************************************************)
(* The strengthening of TrafficInv.                                        *)
(***************************************************************************)

\* Until the run ends, the suite has no outcome.
NotYet == pc # "done" => outcome = Running

\* If not all the tests before the cursor passed, one of them failed.
Broken ==
  pc \in {"run", "await"} /\ ~ EarlierPassed =>
    \E q \in Earlier(suite, at) : StatusOf(verdict[q]) \in Bad

\* suite_failed says whether a test of a closed block did not pass.
Flag ==
  /\ pc = "start" => suiteFailed = FALSE
  /\ pc \in {"run", "await"} =>
       (suiteFailed <=> \E p \in Positions(suite) :
                           p[1] # at[1] /\ verdict[p] \notin {"none", "passed"})

\* Exactly the closed blocks have a result, and it summarises their tests.
Slots ==
  /\ pc = "start" => \A b \in DOMAIN suite : slot[b] = "none"
  /\ pc \in {"run", "await"} =>
       \A b \in DOMAIN suite :
          slot[b] = IF b = at[1] \/ b \in Following(at[1]) THEN "none" ELSE BlockStatus(b)

\* Whoever is skipped, is skipped because of a failure.
SkipReasons ==
  pc \in {"run", "await"} =>
    \A p \in Positions(suite) :
       /\ verdict[p] # "skipped_invalid"
       /\ verdict[p] = "skipped_pipeline" =>
            /\ KindAt(suite, p) # "core"
            /\ \E q \in Earlier(suite, p) : StatusOf(verdict[q]) \in Bad
       /\ verdict[p] = "skipped_core" =>
            \E q \in CoreTests(suite) : StatusOf(verdict[q]) \in Bad

(***************************************************************************)
(* The steps that decide a test.                                           *)
(***************************************************************************)
Decided == ResolutionErrors \cup {"mismatch", "transport", "aborted", "passed"}

\* A verdict that was decided by a run has the status of its kind.
LEMMA DecidedStatus ==
  ASSUME NEW v \in Decided
  PROVE  /\ StatusOf(v) \in {"Passed", "Failed", "Aborted"}
         /\ StatusOf(v) = "Passed" <=> v = "passed"
         /\ v # "passed" => StatusOf(v) \in Bad
         /\ v \notin {"none", "skipped_core", "skipped_pipeline", "skipped_invalid"}
  BY DEF Decided, ResolutionErrors, StatusOf, Skips, Bad

\* A test is passed exactly if its status is.
LEMMA PassedStatus ==
  ASSUME NEW v \in Verdicts
  PROVE  /\ StatusOf(v) = "Passed" <=> v = "passed"
         /\ StatusOf(v) = "Pending" <=> v = "none"
         /\ StatusOf(v) = "Skipped" <=> v \in Skips
         /\ StatusOf(v) \in Bad => v \notin {"none", "passed"}
  BY DEF Verdicts, ResolutionErrors, StatusOf, Skips, Bad

\* Every failure and every answer decides the current test.
LEMMA Decides ==
  ASSUME TypeOK, FailResolution \/ Answer
  PROVE  /\ at \in Positions(suite)
         /\ pc \in {"run", "await"}
         /\ \E v \in Decided : Settle(v)
  <1>1. CASE FailResolution
    <2>1. at \in Positions(suite) /\ pc = "run"
      BY <1>1, CursorOnTest DEF FailResolution
    <2>2. PICK e \in PossibleErrors(Current, Visible) : Settle(e)
      BY <1>1 DEF FailResolution
    <2>3. e \in Decided
      BY ErrorsAreVerdicts DEF Decided
    <2> QED
      BY <2>1, <2>2, <2>3
  <1>2. CASE Answer
    BY <1>2 DEF Answer, AnswerFails, CaptureFails, TestPasses, TypeOK, Decided
  <1> QED
    BY <1>1, <1>2

\* What settling a test does to the result of each test.
LEMMA SettledVerdict ==
  ASSUME TypeOK, NEW v, Settle(v), NEW p \in Positions(suite)
  PROVE  verdict'[p] = IF p = at THEN v
                       ELSE IF v # "passed" /\ at \in Earlier(suite, p)
                       THEN IF InCore THEN "skipped_core" ELSE "skipped_pipeline"
                       ELSE verdict[p]
  BY DEF Settle

\* A block is passed exactly if its tests are.
LEMMA BlockPassedStatus ==
  ASSUME TypeOK, NEW b \in DOMAIN suite
  PROVE  BlockStatus(b) = "Passed" <=> BlockPassed(b)
  <1>1. \A p \in Positions(suite) : StatusOf(verdict[p]) = "Passed" <=> verdict[p] = "passed"
    BY PassedStatus DEF TypeOK
  <1>2. Results(b) \subseteq {"Passed"} <=> BlockPassed(b)
    BY <1>1 DEF Results, BlockPassed
  <1> QED
    BY <1>2 DEF BlockStatus

\* A result that is bad stays bad.
LEMMA BadStays ==
  ASSUME TrafficInv, [Next]_engineVars, NEW q \in Positions(suite),
         StatusOf(verdict[q]) \in Bad
  PROVE  StatusOf(verdict'[q]) \in Bad
  <1>1. verdict[q] # "none"
    BY PassedStatus DEF TrafficInv, TypeOK
  <1>2. verdict'[q] = verdict[q]
    BY <1>1, ResultsStay DEF TrafficInv
  <1> QED
    BY <1>2

(***************************************************************************)
(* Each part is inductive.                                                 *)
(***************************************************************************)

\* No step but the last gives the suite an outcome.
LEMMA NextNotYet == NotYet /\ [Next]_engineVars => NotYet'
  BY DEF NotYet, Next, Advance, Answer, Reject, Start, FailResolution, BeginTest,
         AnswerFails, CaptureFails, TestPasses, AbandonSuite, NextBlock, Finish,
         CloseBlock, Settle, engineVars, Running

\* Nothing precedes the first test of a block.
LEMMA EntersWhole ==
  ASSUME TypeOK, Start \/ NextBlock
  PROVE  suite' = suite /\ Earlier(suite, at)' = {}
  <1>1. suite' = suite /\ at' = <<at'[1], 1>>
    BY EnterMoves DEF Start, NextBlock
  <1>2. suite \in Suite
    BY SuitesAssumption DEF TypeOK
  <1> QED
    BY <1>1, <1>2, NothingEarlierAtEntry

\* If not all tests before the cursor passed, one of them failed.
LEMMA NextBroken == TrafficInv /\ Broken /\ [Next]_engineVars => Broken'
  <1> SUFFICES ASSUME TrafficInv, Broken, [Next]_engineVars
               PROVE  Broken'
    OBVIOUS
  <1>0. TypeOK /\ suite \in Suite
    BY SuitesAssumption DEF TrafficInv, TypeOK
  <1>1. CASE Start \/ NextBlock
    BY <1>0, <1>1, EntersWhole DEF Broken, EarlierPassed
  <1>2. CASE FailResolution \/ Answer
    <2>1. at \in Positions(suite) /\ pc \in {"run", "await"}
      BY <1>0, <1>2, Decides
    <2>2. PICK v \in Decided : Settle(v)
      BY <1>0, <1>2, Decides
    <2>3. /\ suite' = suite
          /\ Earlier(suite, at) \cup {at} \subseteq Earlier(suite, at)'
      BY <1>0, <2>1, <2>2, SettleMovesOn
    <2>4. verdict'[at] = v
      BY <1>0, <2>1, <2>2, SettledVerdict
    <2>5. CASE v # "passed"
      BY <2>3, <2>4, <2>5, DecidedStatus DEF Broken
    <2>6. CASE v = "passed"
      <3>1. at' = <<at[1], at[2] + 1>>
        BY <2>2, <2>6 DEF Settle
      <3>2. Earlier(suite, at)' = Earlier(suite, at) \cup {at}
        BY <1>0, <2>1, <2>3, <3>1, EarlierGrows
      <3>3. \A q \in Earlier(suite, at) : verdict[q] = "passed" /\ q \in Positions(suite)
        BY <2>1, CurrentTest DEF EarlierPassed, Earlier
      <3>4. \A q \in Earlier(suite, at) \cup {at} : verdict'[q] = "passed"
        BY <1>0, <2>1, <2>2, <2>4, <2>6, <3>3, SettledVerdict
      <3> QED
        BY <3>2, <3>4 DEF Broken, EarlierPassed
    <2> QED
      BY <2>5, <2>6
  <1>3. CASE BeginTest \/ UNCHANGED engineVars
    BY <1>3 DEF BeginTest, engineVars, Broken, EarlierPassed
  <1>4. CASE Reject \/ AbandonSuite \/ Finish
    BY <1>4 DEF Reject, AbandonSuite, Finish, Broken
  <1> QED
    BY <1>1, <1>2, <1>3, <1>4 DEF Next, Advance

\* A step inside a block touches the results of no other block.
LEMMA InsideBlock ==
  ASSUME TrafficInv, FailResolution \/ Answer \/ BeginTest
  PROVE  /\ suite' = suite /\ slot' = slot /\ suiteFailed' = suiteFailed
         /\ at'[1] = at[1]
         /\ pc \in {"run", "await"}
         /\ \A p \in Positions(suite) : p[1] # at[1] => verdict'[p] = verdict[p]
  <1>0. TypeOK
    BY DEF TrafficInv
  <1>1. CASE FailResolution \/ Answer
    <2>1. at \in Positions(suite) /\ pc \in {"run", "await"}
      BY <1>0, <1>1, Decides
    <2>2. PICK v \in Decided : Settle(v)
      BY <1>0, <1>1, Decides
    <2>3. ASSUME NEW p \in Positions(suite), p[1] # at[1]
          PROVE  verdict'[p] = verdict[p]
      BY <1>0, <2>2, <2>3, SettledVerdict DEF Earlier
    <2> QED
      BY <2>1, <2>2, <2>3 DEF Settle
  <1>2. CASE BeginTest
    BY <1>2 DEF BeginTest
  <1> QED
    BY <1>1, <1>2

\* When a block is closed, its tests and those of the blocks before it have
\* a result, and no others.
LEMMA ClosedBlocks ==
  ASSUME TrafficInv, CloseBlock, NEW p \in Positions(suite)
  PROVE  verdict[p] = "none" <=> p[1] \in Following(at[1])
  <1>1. /\ TypeOK /\ Pending /\ pc = "run" /\ BlockOver /\ suite \in Suite
        /\ at[1] \in DOMAIN suite
    BY SuitesAssumption DEF TrafficInv, TypeOK, CloseBlock
  <1>2. /\ p[2] \in 1 .. Len(suite[p[1]].tests) /\ p[2] \in Nat
        /\ at[2] \in Nat /\ Len(suite[at[1]].tests) \in Nat
    BY <1>1, PositionsShape, PositionShape, BlockShape DEF TypeOK
  <1>3. ~ (p[1] = at[1] /\ p[2] >= at[2])
    BY <1>1, <1>2 DEF BlockOver
  <1> QED
    BY <1>1, <1>3 DEF Pending, Ahead

\* What CloseBlock leaves in suite_failed.
LEMMA ClosedFlag ==
  ASSUME TrafficInv, Flag, CloseBlock
  PROVE  suiteFailed' <=> \E p \in Positions(suite) : verdict[p] \notin {"none", "passed"}
  <1>1. TypeOK /\ pc = "run" /\ at[1] \in DOMAIN suite
    BY DEF TrafficInv, TypeOK, CloseBlock
  <1>2. at[1] \notin Following(at[1])
    BY <1>1, FollowingIsStrict, SuitesAssumption DEF TypeOK
  <1>3. BlockStatus(at[1]) # "Passed" <=>
          \E p \in Positions(suite) : p[1] = at[1] /\ verdict[p] # "passed"
    BY <1>1, BlockPassedStatus DEF BlockPassed
  <1>4. \A p \in Positions(suite) : p[1] = at[1] => verdict[p] # "none"
    BY <1>2, ClosedBlocks
  <1> QED
    BY <1>1, <1>3, <1>4 DEF Flag, CloseBlock

\* suite_failed says whether a closed block did not pass.
LEMMA NextFlag == TrafficInv /\ Flag /\ [Next]_engineVars => Flag'
  <1> SUFFICES ASSUME TrafficInv, Flag, [Next]_engineVars
               PROVE  Flag'
    OBVIOUS
  <1>1. CASE Start
    <2>1. /\ suite' = suite /\ suiteFailed' = FALSE /\ pc' = "run"
          /\ \A p \in Positions(suite) : verdict'[p] = "none"
      BY <1>1 DEF Start, Flag, TrafficInv, Fresh
    <2> QED
      BY <2>1 DEF Flag
  <1>2. CASE FailResolution \/ Answer \/ BeginTest
    <2>1. pc' \in {"run", "await"}
      BY <1>2 DEF FailResolution, Answer, AnswerFails, CaptureFails, TestPasses, BeginTest, Settle
    <2> QED
      BY <1>2, <2>1, InsideBlock DEF Flag
  <1>3. CASE NextBlock
    <2>1. /\ suite' = suite /\ verdict' = verdict /\ pc' = "run" /\ CloseBlock
          /\ at'[1] \in Following(at[1])
      BY <1>3, EnterMoves DEF NextBlock, CloseBlock
    <2>2. suiteFailed' <=> \E p \in Positions(suite) : verdict[p] \notin {"none", "passed"}
      BY <2>1, ClosedFlag
    <2>3. \A p \in Positions(suite) : p[1] = at'[1] => verdict[p] = "none"
      BY <2>1, ClosedBlocks
    <2> QED
      BY <2>1, <2>2, <2>3 DEF Flag
  <1>4. CASE Reject \/ AbandonSuite \/ Finish
    BY <1>4 DEF Reject, AbandonSuite, Finish, Flag
  <1>5. CASE UNCHANGED engineVars
    BY <1>5 DEF engineVars, Flag
  <1> QED
    BY <1>1, <1>2, <1>3, <1>4, <1>5 DEF Next, Advance

\* The status of a block depends on the results of its tests only.
LEMMA StatusStays ==
  ASSUME suite' = suite, NEW b,
         \A p \in Positions(suite) : p[1] = b => verdict'[p] = verdict[p]
  PROVE  BlockStatus(b)' = BlockStatus(b)
  <1>1. Results(b)' = Results(b)
    BY DEF Results
  <1> QED
    BY <1>1 DEF BlockStatus

\* The status of a closed block summarises its tests.
LEMMA NextSlots == TrafficInv /\ Slots /\ [Next]_engineVars => Slots'
  <1> SUFFICES ASSUME TrafficInv, Slots, [Next]_engineVars
               PROVE  Slots'
    OBVIOUS
  <1>0. TypeOK /\ suite \in Suite
    BY SuitesAssumption DEF TrafficInv, TypeOK
  <1>1. CASE Start
    <2>1. suite' = suite /\ slot' = slot /\ pc = "start" /\ pc' = "run"
      BY <1>1 DEF Start
    <2>2. Following(at[1])' = Following(at'[1])
      BY <2>1 DEF Following
    <2>3. \A b \in DOMAIN suite : slot'[b] = "none" /\ (b = at'[1] \/ b \in Following(at[1])')
      BY <1>0, <1>1, <2>1, <2>2, StartAhead DEF Slots
    <2> QED
      BY <2>1, <2>3 DEF Slots
  <1>2. CASE FailResolution \/ Answer \/ BeginTest
    <2>1. pc' \in {"run", "await"} /\ pc \in {"run", "await"}
      BY <1>2, InsideBlock
      DEF FailResolution, Answer, AnswerFails, CaptureFails, TestPasses, BeginTest, Settle
    <2>2. suite' = suite /\ slot' = slot /\ at'[1] = at[1]
      BY <1>2, InsideBlock
    <2>3. Following(at[1])' = Following(at[1])
      BY <2>2 DEF Following
    <2>4. ASSUME NEW b \in DOMAIN suite, b # at[1]
          PROVE  BlockStatus(b)' = BlockStatus(b)
      BY <1>2, <2>4, InsideBlock, StatusStays
    <2> QED
      BY <2>1, <2>2, <2>3, <2>4 DEF Slots
  <1>3. CASE NextBlock
    <2>1. PICK c \in Following(at[1]) :
            (\A d \in Following(at[1]) : c <= d) /\ at' = <<c, 1>>
      BY <1>3, EnterFirst DEF NextBlock
    <2>2. /\ suite' = suite /\ verdict' = verdict /\ pc = "run" /\ pc' = "run"
          /\ at[1] \in DOMAIN suite
          /\ slot' = [slot EXCEPT ![at[1]] = BlockStatus(at[1])]
      BY <1>0, <1>3 DEF NextBlock, CloseBlock, TypeOK
    <2>3. Following(c) = Following(at[1]) \ {c} /\ at[1] \notin Following(at[1])
      BY <1>0, <2>1, <2>2, FollowingShrinks, FollowingIsStrict
    <2>4. Following(at[1])' = Following(c)
      BY <2>1, <2>2 DEF Following
    <2>5. ASSUME NEW b \in DOMAIN suite
          PROVE  /\ BlockStatus(b)' = BlockStatus(b)
                 /\ slot'[b] = IF b = at[1] THEN BlockStatus(b) ELSE slot[b]
      BY <1>0, <2>2, StatusStays DEF TypeOK
    <2> QED
      BY <2>1, <2>2, <2>3, <2>4, <2>5 DEF Slots
  <1>4. CASE Reject \/ AbandonSuite \/ Finish
    BY <1>4 DEF Reject, AbandonSuite, Finish, Slots
  <1>5. CASE UNCHANGED engineVars
    <2>1. \A b \in DOMAIN suite : BlockStatus(b)' = BlockStatus(b)
      BY <1>5, StatusStays DEF engineVars
    <2> QED
      BY <1>5, <2>1 DEF engineVars, Slots, Following
  <1> QED
    BY <1>1, <1>2, <1>3, <1>4, <1>5 DEF Next, Advance

\* Every skip keeps its reason.
LEMMA NextSkips == TrafficInv /\ SkipReasons /\ [Next]_engineVars => SkipReasons'
  <1> SUFFICES ASSUME TrafficInv, SkipReasons, [Next]_engineVars
               PROVE  SkipReasons'
    OBVIOUS
  <1>0. /\ TypeOK
        /\ CoreTests(suite) \subseteq Positions(suite)
        /\ \A p : Earlier(suite, p) \subseteq Positions(suite)
    BY DEF TrafficInv, CoreTests, Earlier
  <1>1. CASE Start
    <2>1. suite' = suite /\ \A p \in Positions(suite) : verdict'[p] = "none"
      BY <1>1 DEF Start, TrafficInv, Fresh
    <2> QED
      BY <2>1 DEF SkipReasons
  <1>2. CASE FailResolution \/ Answer
    <2>1. at \in Positions(suite) /\ pc \in {"run", "await"}
      BY <1>0, <1>2, Decides
    <2>2. PICK v \in Decided : Settle(v)
      BY <1>0, <1>2, Decides
    <2>3. suite' = suite /\ verdict'[at] = v
      BY <1>0, <2>1, <2>2, SettledVerdict DEF Settle
    <2>4. ASSUME NEW p \in Positions(suite)
          PROVE  /\ verdict'[p] # "skipped_invalid"
                 /\ verdict'[p] = "skipped_pipeline" =>
                      /\ KindAt(suite, p) # "core"
                      /\ \E q \in Earlier(suite, p) : StatusOf(verdict'[q]) \in Bad
                 /\ verdict'[p] = "skipped_core" =>
                      \E q \in CoreTests(suite) : StatusOf(verdict'[q]) \in Bad
      <3>1. verdict'[p] = IF p = at THEN v
                          ELSE IF v # "passed" /\ at \in Earlier(suite, p)
                          THEN IF InCore THEN "skipped_core" ELSE "skipped_pipeline"
                          ELSE verdict[p]
        BY <1>0, <2>2, SettledVerdict
      <3>2. CASE p = at
        BY <3>1, <3>2, DecidedStatus
      <3>3. CASE p # at /\ v # "passed" /\ at \in Earlier(suite, p)
        <4>1. StatusOf(verdict'[at]) \in Bad
          BY <2>3, <3>3, DecidedStatus
        <4>2. KindAt(suite, p) = "core" <=> InCore
          BY <3>3 DEF KindAt, InCore, Earlier
        <4>3. InCore => at \in CoreTests(suite)
          BY <2>1 DEF InCore, CoreTests, KindAt
        <4> QED
          BY <3>1, <3>3, <4>1, <4>2, <4>3
      <3>4. CASE p # at /\ ~ (v # "passed" /\ at \in Earlier(suite, p))
        <4>1. verdict'[p] = verdict[p]
          BY <3>1, <3>4
        <4> QED
          BY <1>0, <2>1, <4>1, BadStays DEF SkipReasons
      <3> QED
        BY <3>2, <3>3, <3>4
    <2> QED
      BY <2>3, <2>4 DEF SkipReasons
  <1>3. CASE BeginTest \/ NextBlock
    <2>1. suite' = suite /\ verdict' = verdict /\ pc = "run"
      BY <1>3 DEF BeginTest, NextBlock, CloseBlock
    <2> QED
      BY <2>1 DEF SkipReasons
  <1>4. CASE Reject \/ AbandonSuite \/ Finish
    BY <1>4 DEF Reject, AbandonSuite, Finish, SkipReasons
  <1>5. CASE UNCHANGED engineVars
    BY <1>5 DEF engineVars, SkipReasons
  <1> QED
    BY <1>1, <1>2, <1>3, <1>4, <1>5 DEF Next, Advance

ReportInv == TrafficInv /\ NotYet /\ Broken /\ Flag /\ Slots /\ SkipReasons

\* Nothing is reported at the start.
LEMMA InitReport == Init => ReportInv
  BY InitTraffic DEF Init, ReportInv, NotYet, Broken, Flag, Slots, SkipReasons

\* The parts hold together.
LEMMA NextReport == ReportInv /\ [Next]_engineVars => ReportInv'
  BY NextTraffic, NextNotYet, NextBroken, NextFlag, NextSlots, NextSkips DEF ReportInv

(***************************************************************************)
(* The report is complete.                                                 *)
(***************************************************************************)

\* While the core runs, all the other blocks are still ahead.
LEMMA CoreIsFirst ==
  ASSUME InCore, PreflightPasses, at[1] \in DOMAIN suite,
         NEW b \in DOMAIN suite, b # at[1]
  PROVE  b \in Following(at[1])
  <1>1. suite[b].kind # "core"
    BY DEF InCore, PreflightPasses, Cores
  <1> QED
    BY <1>1 DEF InCore, Following

\* A core that did not pass has a test that failed.
LEMMA CoreIsBroken ==
  ASSUME ReportInv, AbandonSuite
  PROVE  /\ BlockStatus(at[1]) \in Bad
         /\ \E q \in CoreTests(suite) : StatusOf(verdict[q]) \in Bad
  <1>0. /\ TypeOK /\ suite \in Suite /\ Broken /\ pc = "run" /\ BlockOver /\ InCore
        /\ at[1] \in DOMAIN suite /\ at[2] \in Nat
        /\ Len(suite[at[1]].tests) \in Nat
        /\ BlockStatus(at[1]) # "Passed"
    BY SuitesAssumption, BlockShape DEF ReportInv, TrafficInv, TypeOK, AbandonSuite
  <1>1. BlockStatus(at[1]) \in Bad
    BY <1>0, BlockStatusIsFinal DEF Bad
  <1>2. PICK p \in Positions(suite) : p[1] = at[1] /\ verdict[p] # "passed"
    BY <1>0, BlockPassedStatus DEF BlockPassed
  <1>3. p \in Earlier(suite, at)
    <2>1. p[2] \in 1 .. Len(suite[at[1]].tests)
      BY <1>0, <1>2, PositionsShape
    <2> QED
      BY <1>0, <1>2, <2>1 DEF Earlier, BlockOver
  <1>4. PICK q \in Earlier(suite, at) : StatusOf(verdict[q]) \in Bad
    BY <1>0, <1>2, <1>3 DEF Broken, EarlierPassed
  <1>5. q \in CoreTests(suite)
    BY <1>0, <1>4 DEF Earlier, CoreTests, KindAt, InCore
  <1> QED
    BY <1>1, <1>4, <1>5

\* A suite that is refused is reported whole.
LEMMA RejectReports == ReportInv /\ Reject => ReportIsComplete'
  <1> SUFFICES ASSUME ReportInv, Reject
               PROVE  ReportIsComplete'
    OBVIOUS
  <1>1. /\ suite' = suite
        /\ \A p \in Positions(suite) : verdict'[p] = "skipped_invalid"
        /\ \A b \in DOMAIN suite : slot'[b] = "Skipped"
        /\ outcome' = [status |-> "Aborted", error |-> "Internal"]
    BY DEF Reject
  <1>2. suite = <<>> \/ \E b \in DOMAIN suite : slot'[b] # "Passed"
    <2>1. suite \in Seq(Block)
      BY SuitesAssumption DEF ReportInv, TrafficInv, TypeOK, Suite
    <2>2. suite = <<>> \/ 1 \in DOMAIN suite
      BY <2>1
    <2> QED
      BY <1>1, <2>2
  <1>3. CoreTests(suite) \subseteq Positions(suite) /\ Cores(suite) \subseteq DOMAIN suite
    BY DEF CoreTests, Cores
  <1>4. StatusOf("skipped_invalid") = "Skipped"
    BY DEF StatusOf, Skips
  <1> QED
    BY <1>1, <1>2, <1>3, <1>4 DEF ReportIsComplete, BlockPassed

\* A suite whose core failed is reported whole.
LEMMA AbandonReports == ReportInv /\ AbandonSuite => ReportIsComplete'
  <1> SUFFICES ASSUME ReportInv, AbandonSuite
               PROVE  ReportIsComplete'
    OBVIOUS
  <1>0. /\ TypeOK /\ suite \in Suite /\ Slots /\ SkipReasons /\ Pending
        /\ pc = "run" /\ InCore /\ PreflightPasses
        /\ at[1] \in DOMAIN suite
    BY SuitesAssumption DEF ReportInv, TrafficInv, TypeOK, AbandonSuite, ScopesAgree
  <1>1. /\ suite' = suite
        /\ \A p \in Positions(suite) :
             verdict'[p] = IF verdict[p] = "none" THEN "skipped_core" ELSE verdict[p]
        /\ \A b \in DOMAIN suite :
             slot'[b] = IF b = at[1] THEN BlockStatus(b)
                        ELSE IF slot[b] = "none" THEN "Skipped" ELSE slot[b]
        /\ outcome' = [status |-> "Aborted", error |-> "DependencyFailed"]
    BY DEF AbandonSuite
  <1>2. BlockStatus(at[1]) \in Bad
    BY CoreIsBroken
  <1>3. \A b \in DOMAIN suite : slot'[b] = IF b = at[1] THEN BlockStatus(b) ELSE "Skipped"
    BY <1>0, <1>1, CoreIsFirst DEF Slots
  <1>4. PICK q \in CoreTests(suite) : StatusOf(verdict[q]) \in Bad
    BY CoreIsBroken
  <1>5. q \in Positions(suite) /\ StatusOf(verdict'[q]) \in Bad
    <2>1. q \in Positions(suite)
      BY DEF CoreTests
    <2>2. verdict[q] # "none"
      BY <1>0, <1>4, <2>1, PassedStatus DEF TypeOK
    <2> QED
      BY <1>1, <1>4, <2>1, <2>2
  <1>6. ASSUME NEW p \in Positions(suite)
        PROVE  /\ verdict'[p] # "none"
               /\ verdict'[p] # "skipped_pipeline"
               /\ verdict'[p] = "skipped_core" <=> StatusOf(verdict'[p]) = "Skipped"
    <2>1. verdict[p] \in Verdicts /\ verdict[p] # "skipped_invalid"
      BY <1>0 DEF TypeOK, SkipReasons
    <2>2. verdict[p] # "skipped_pipeline"
      <3>1. CASE p[1] = at[1]
        BY <1>0, <3>1 DEF SkipReasons, KindAt, InCore
      <3>2. CASE p[1] # at[1]
        BY <1>0, <3>2, CoreIsFirst, PositionsShape DEF Pending, Ahead
      <3> QED
        BY <3>1, <3>2
    <2>3. CASE verdict[p] = "none"
      BY <1>1, <2>3 DEF StatusOf, Skips
    <2>4. CASE verdict[p] # "none"
      BY <1>1, <2>1, <2>2, <2>4, PassedStatus DEF Skips
    <2> QED
      BY <2>3, <2>4
  <1>7. \A b \in DOMAIN suite : slot'[b] # "none" /\ slot'[b] # "Passed"
    BY <1>2, <1>3 DEF Bad
  <1>8. at[1] \in Cores(suite) /\ slot'[at[1]] \in {"Failed", "Aborted"}
    BY <1>0, <1>2, <1>3 DEF Cores, InCore, Bad
  <1> QED
    BY <1>0, <1>1, <1>5, <1>6, <1>7, <1>8 DEF ReportIsComplete, Bad

\* When the last block is closed, no test is without a result.
LEMMA FinishedTests ==
  ASSUME ReportInv, Finish
  PROVE  /\ \A p \in Positions(suite) : verdict[p] # "none"
         /\ \A p \in CoreTests(suite) : verdict[p] = "passed"
         /\ outcome'.status = IF \A p \in Positions(suite) : verdict[p] = "passed"
                              THEN "Passed" ELSE "Failed"
  <1>0. /\ TrafficInv /\ TypeOK /\ suite \in Suite /\ Flag /\ CorePassed /\ PreflightPasses
        /\ CloseBlock /\ Following(at[1]) = {} /\ pc = "run" /\ at[1] \in DOMAIN suite
        /\ CoreTests(suite) \subseteq Positions(suite)
    BY SuitesAssumption
    DEF ReportInv, TrafficInv, TypeOK, Finish, CloseBlock, ScopesAgree, CoreTests
  <1>1. \A p \in Positions(suite) : verdict[p] # "none"
    BY <1>0, ClosedBlocks
  <1>2. ASSUME NEW p \in CoreTests(suite)
        PROVE  verdict[p] = "passed"
    <2>1. CASE InCore
      <3>1. p[1] = at[1]
        BY <1>0, <2>1, CoreTestsOfBlock, PreflightIsShape DEF InCore
      <3>2. BlockStatus(at[1]) = "Passed"
        BY <1>0, <2>1 DEF CloseBlock
      <3> QED
        BY <1>0, <3>1, <3>2, PassedBlock
    <2>2. CASE ~ InCore
      BY <1>0, <2>2 DEF CorePassed
    <2> QED
      BY <2>1, <2>2
  <1>3. suiteFailed' <=> \E p \in Positions(suite) : verdict[p] # "passed"
    BY <1>0, <1>1, ClosedFlag
  <1>4. outcome' = [status |-> IF suiteFailed' THEN "Failed" ELSE "Passed", error |-> "none"]
    BY DEF Finish
  <1> QED
    BY <1>1, <1>2, <1>3, <1>4

\* A suite that was run to its end is reported whole.
LEMMA FinishReports == ReportInv /\ Finish => ReportIsComplete'
  <1> SUFFICES ASSUME ReportInv, Finish
               PROVE  ReportIsComplete'
    OBVIOUS
  <1>0. /\ TypeOK /\ suite \in Suite /\ Slots /\ SkipReasons /\ pc = "run"
        /\ Following(at[1]) = {} /\ at[1] \in DOMAIN suite
        /\ suite' = suite /\ verdict' = verdict
        /\ outcome'.error = "none"
        /\ slot' = [slot EXCEPT ![at[1]] = BlockStatus(at[1])]
        /\ suite # <<>>
    BY SuitesAssumption DEF ReportInv, TrafficInv, TypeOK, Finish, CloseBlock,
                            ScopesAgree, PreflightPasses
  <1>1. \A b \in DOMAIN suite : slot'[b] = BlockStatus(b)
    BY <1>0 DEF TypeOK, Slots
  <1>2. \A b \in DOMAIN suite : BlockStatus(b) = "Passed" <=> BlockPassed(b)
    BY <1>0, BlockPassedStatus
  <1>3. /\ \A p \in Positions(suite) : verdict[p] # "none"
        /\ \A p \in CoreTests(suite) : verdict[p] = "passed"
        /\ outcome'.status = IF \A p \in Positions(suite) : verdict[p] = "passed"
                             THEN "Passed" ELSE "Failed"
    BY FinishedTests
  <1>4. (\A p \in Positions(suite) : verdict[p] = "passed")
          <=> \A b \in DOMAIN suite : BlockStatus(b) = "Passed"
    <2>1. \A p \in Positions(suite) : p[1] \in DOMAIN suite
      BY <1>0, PositionsShape
    <2> QED
      BY <1>2, <2>1 DEF BlockPassed
  <1>5. \A b \in Cores(suite) : slot'[b] = "Passed"
    <2>1. \A b \in Cores(suite) : b \in DOMAIN suite /\ BlockPassed(b)
      BY <1>3 DEF Cores, CoreTests, KindAt, BlockPassed
    <2> QED
      BY <1>1, <1>2, <2>1
  <1>6. \A q \in CoreTests(suite) : StatusOf(verdict[q]) \notin Bad
    BY <1>3 DEF StatusOf, Skips, Bad
  <1>7. \A b \in DOMAIN suite : slot'[b] # "none" /\ (slot'[b] = "Passed" => BlockPassed(b)')
    <2>1. \A b \in DOMAIN suite : BlockPassed(b)' <=> BlockPassed(b)
      BY <1>0 DEF BlockPassed
    <2> QED
      BY <1>1, <1>2, <2>1, BlockStatusIsFinal
  <1>8. ASSUME NEW p \in Positions(suite)
        PROVE  /\ verdict[p] # "skipped_core"
               /\ verdict[p] = "skipped_pipeline" =>
                    \E q \in Earlier(suite, p) : StatusOf(verdict[q]) \in Bad
    BY <1>0, <1>6 DEF SkipReasons
  <1> QED
    BY <1>0, <1>1, <1>3, <1>4, <1>5, <1>6, <1>7, <1>8 DEF ReportIsComplete, Bad

\* Every step that ends the run leaves a complete report.
LEMMA NextComplete == ReportInv /\ ReportIsComplete /\ [Next]_engineVars => ReportIsComplete'
  <1> SUFFICES ASSUME ReportInv, ReportIsComplete, [Next]_engineVars
               PROVE  ReportIsComplete'
    OBVIOUS
  <1>1. CASE Reject
    BY <1>1, RejectReports
  <1>2. CASE AbandonSuite
    BY <1>2, AbandonReports
  <1>3. CASE Finish
    BY <1>3, FinishReports
  <1>4. CASE Start \/ NextBlock \/ FailResolution \/ Answer \/ BeginTest
    BY <1>4 DEF Start, NextBlock, CloseBlock, FailResolution, Answer, AnswerFails, CaptureFails,
                TestPasses, BeginTest, Settle, ReportIsComplete
  <1>5. CASE UNCHANGED engineVars
    BY <1>5 DEF engineVars, ReportIsComplete, BlockPassed
  <1> QED
    BY <1>1, <1>2, <1>3, <1>4, <1>5 DEF Next, Advance

\* The report of every suite leaves nothing without a result, summarises its
\* tests truthfully and names for each skip a failure that explains it: the
\* expect of collect_results never fails.
THEOREM ReportsAreComplete == Spec => []ReportIsComplete
  <1>1. Init => ReportIsComplete
    BY DEF Init, ReportIsComplete
  <1> QED
    BY <1>1, InitReport, NextReport, NextComplete, PTL DEF Spec

(***************************************************************************)
(* How a run can end.                                                      *)
(***************************************************************************)
AllPassed == \A p \in Positions(suite) : verdict[p] = "passed"

EndsRefused ==
  /\ outcome = [status |-> "Aborted", error |-> "Internal"]
  /\ ~ PreflightPasses

EndsAbandoned ==
  /\ outcome = [status |-> "Aborted", error |-> "DependencyFailed"]
  /\ \E q \in CoreTests(suite) : StatusOf(verdict[q]) \in Bad
  /\ \A p \in Positions(suite) \ CoreTests(suite) : verdict[p] = "skipped_core"

EndsConcluded ==
  /\ outcome = [status |-> IF AllPassed THEN "Passed" ELSE "Failed", error |-> "none"]
  /\ \A q \in CoreTests(suite) : verdict[q] = "passed"
  /\ ~ AllPassed => \E p \in Positions(suite) : StatusOf(verdict[p]) \in Bad

Endings == pc = "done" => EndsRefused \/ EndsAbandoned \/ EndsConcluded

\* A suite whose core failed ends abandoned.
LEMMA AbandonEnds == ReportInv /\ AbandonSuite => EndsAbandoned'
  <1> SUFFICES ASSUME ReportInv, AbandonSuite
               PROVE  EndsAbandoned'
    OBVIOUS
  <1>0. /\ TypeOK /\ suite \in Suite /\ Pending
        /\ pc = "run" /\ InCore /\ PreflightPasses
        /\ at[1] \in DOMAIN suite
    BY SuitesAssumption DEF ReportInv, TrafficInv, TypeOK, AbandonSuite, ScopesAgree
  <1>1. /\ suite' = suite
        /\ \A p \in Positions(suite) :
             verdict'[p] = IF verdict[p] = "none" THEN "skipped_core" ELSE verdict[p]
        /\ outcome' = [status |-> "Aborted", error |-> "DependencyFailed"]
    BY DEF AbandonSuite
  <1>2. PICK q \in CoreTests(suite) : StatusOf(verdict[q]) \in Bad
    BY CoreIsBroken
  <1>3. StatusOf(verdict'[q]) \in Bad
    <2>1. q \in Positions(suite)
      BY DEF CoreTests
    <2>2. verdict[q] # "none"
      BY <1>0, <1>2, <2>1, PassedStatus DEF TypeOK
    <2> QED
      BY <1>1, <1>2, <2>1, <2>2
  <1>4. ASSUME NEW p \in Positions(suite) \ CoreTests(suite)
        PROVE  verdict'[p] = "skipped_core"
    <2>1. p[1] # at[1] /\ p[1] \in DOMAIN suite
      BY <1>0, PositionsShape DEF CoreTests, KindAt, InCore
    <2>2. verdict[p] = "none"
      BY <1>0, <2>1, CoreIsFirst DEF Pending, Ahead
    <2> QED
      BY <1>1, <2>2
  <1> QED
    BY <1>1, <1>3, <1>4 DEF EndsAbandoned

\* A suite that was run to its end is concluded.
LEMMA FinishEnds == ReportInv /\ Finish => EndsConcluded'
  <1> SUFFICES ASSUME ReportInv, Finish
               PROVE  EndsConcluded'
    OBVIOUS
  <1>0. /\ TypeOK /\ SkipReasons /\ pc = "run"
        /\ suite' = suite /\ verdict' = verdict
        /\ outcome' = [status |-> IF suiteFailed' THEN "Failed" ELSE "Passed", error |-> "none"]
        /\ CoreTests(suite) \subseteq Positions(suite)
        /\ \A p : Earlier(suite, p) \subseteq Positions(suite)
    BY DEF ReportInv, TrafficInv, Finish, CloseBlock, CoreTests, Earlier
  <1>1. /\ \A p \in Positions(suite) : verdict[p] # "none"
        /\ \A p \in CoreTests(suite) : verdict[p] = "passed"
        /\ outcome'.status = IF AllPassed THEN "Passed" ELSE "Failed"
    BY FinishedTests DEF AllPassed
  <1>2. ASSUME NEW p \in Positions(suite), verdict[p] # "passed"
        PROVE  \E q \in Positions(suite) : StatusOf(verdict[q]) \in Bad
    <2>1. verdict[p] \in Verdicts
      BY <1>0 DEF TypeOK
    <2>2. CASE verdict[p] \in Skips
      BY <1>0, <2>2 DEF SkipReasons, Skips
    <2>3. CASE verdict[p] \notin Skips
      BY <1>1, <1>2, <2>1, <2>3 DEF StatusOf, Bad
    <2> QED
      BY <2>2, <2>3
  <1> QED
    BY <1>0, <1>1, <1>2 DEF EndsConcluded, AllPassed

\* There are no other ends.
LEMMA NextEndings == ReportInv /\ Endings /\ [Next]_engineVars => Endings'
  <1> SUFFICES ASSUME ReportInv, Endings, [Next]_engineVars
               PROVE  Endings'
    OBVIOUS
  <1>1. CASE Reject
    BY <1>1 DEF Reject, Endings, EndsRefused, PreflightPasses
  <1>2. CASE AbandonSuite
    BY <1>2, AbandonEnds DEF Endings
  <1>3. CASE Finish
    BY <1>3, FinishEnds DEF Endings
  <1>4. CASE Start \/ NextBlock \/ FailResolution \/ Answer \/ BeginTest
    BY <1>4 DEF Start, NextBlock, CloseBlock, FailResolution, Answer, AnswerFails, CaptureFails,
                TestPasses, BeginTest, Settle, Endings
  <1>5. CASE UNCHANGED engineVars
    BY <1>5 DEF engineVars, Endings, EndsRefused, EndsAbandoned, EndsConcluded, AllPassed, PreflightPasses
  <1> QED
    BY <1>1, <1>2, <1>3, <1>4, <1>5 DEF Next, Advance

(***************************************************************************)
(* The engine implements SuiteVerdict.                                     *)
(***************************************************************************)
LEMMA PromiseShape == Promise!WellShaped(suite) <=> PreflightPasses
  BY DEF Promise!WellShaped, Promise!Cores, PreflightPasses, Cores

\* SuiteVerdict speaks of the same tests and dependencies.
LEMMA PromiseTests ==
  /\ Promise!Positions(suite) = Positions(suite)
  /\ Promise!CoreTests(suite) = CoreTests(suite)
  /\ \A p : Promise!Earlier(suite, p) = Earlier(suite, p)
  /\ \A p : Promise!KindAt(suite, p) = KindAt(suite, p)
  BY DEF Promise!Positions, Promise!CoreTests, Promise!Earlier, Promise!KindAt,
         Positions, CoreTests, Earlier, KindAt

\* What SuiteVerdict sees does not change in a step that settles nothing.
LEMMA PromiseStutters ==
  ASSUME UNCHANGED <<suite, verdict, outcome>>
  PROVE  UNCHANGED Promise!vars
  BY DEF Promise!vars

\* Settling the current test decides it.
LEMMA SettleDecides ==
  ASSUME ReportInv, pc \in {"run", "await"}, at \in Positions(suite),
         NEW v \in Decided, Settle(v)
  PROVE  Promise!Next
  <1>0. /\ TypeOK /\ suite' = suite /\ outcome' = outcome
        /\ outcome.status = "running" /\ PreflightPasses /\ CorePassed
    BY DEF ReportInv, TrafficInv, NotYet, Running, ScopesAgree, Settle
  <1>1. verdict[at] = "none" /\ EarlierPassed
    BY CurrentTest DEF ReportInv
  <1>2. StatusOf("none") = "Pending" /\ StatusOf("passed") = "Passed"
    BY DEF StatusOf, Skips
  <1>3. \A q \in Promise!DependsOn(suite, at) : q \in Positions(suite) /\ verdict[q] = "passed"
    BY <1>0, <1>1, PromiseTests
    DEF Promise!DependsOn, EarlierPassed, CorePassed, InCore, KindAt, Earlier, CoreTests
  <1>4. ASSUME NEW p \in Positions(suite)
        PROVE  StatusOf(verdict'[p]) =
                 IF p = at THEN StatusOf(v)
                 ELSE IF StatusOf(v) # "Passed" /\ at \in Earlier(suite, p) THEN "Skipped"
                 ELSE StatusOf(verdict[p])
    <2>1. StatusOf("skipped_core") = "Skipped" /\ StatusOf("skipped_pipeline") = "Skipped"
      BY DEF StatusOf, Skips
    <2> QED
      BY <1>0, <2>1, SettledVerdict, DecidedStatus
  <1>5. Promise!Decide(at, StatusOf(v))
    BY <1>0, <1>1, <1>2, <1>3, <1>4, PromiseShape, PromiseTests DEF Promise!Decide
  <1>6. StatusOf(v) \in {"Passed", "Failed", "Aborted"}
    BY DecidedStatus
  <1> QED
    BY <1>5, <1>6, PromiseTests DEF Promise!Next

\* Every step of the engine is a step of SuiteVerdict or changes nothing there.
LEMMA NextKeepsPromise == ReportInv /\ [Next]_engineVars => [Promise!Next]_(Promise!vars)
  <1> SUFFICES ASSUME ReportInv, [Next]_engineVars
               PROVE  Promise!Next \/ UNCHANGED Promise!vars
    OBVIOUS
  <1>0. /\ TypeOK /\ ScopesAgree
        /\ pc # "done" => outcome.status = "running"
    BY DEF ReportInv, TrafficInv, NotYet, Running
  <1>1. CASE Reject
    <2>1. StatusOf("skipped_invalid") = "Skipped"
      BY DEF StatusOf, Skips
    <2>2. Promise!Refuse
      BY <1>0, <1>1, <2>1, PromiseShape, PromiseTests DEF Promise!Refuse, Reject
    <2> QED
      BY <2>2 DEF Promise!Next
  <1>2. CASE FailResolution \/ Answer
    <2>1. at \in Positions(suite) /\ pc \in {"run", "await"}
      BY <1>0, <1>2, Decides
    <2>2. PICK v \in Decided : Settle(v)
      BY <1>0, <1>2, Decides
    <2> QED
      BY <2>1, <2>2, SettleDecides
  <1>3. CASE AbandonSuite
    <2>1. PICK q \in CoreTests(suite) : StatusOf(verdict[q]) \in Bad
      BY <1>3, CoreIsBroken
    <2>2. q \in Positions(suite)
      BY DEF CoreTests
    <2>3. ASSUME NEW p \in Positions(suite)
          PROVE  StatusOf(verdict'[p]) = IF StatusOf(verdict[p]) = "Pending"
                                         THEN "Skipped" ELSE StatusOf(verdict[p])
      <3>1. StatusOf(verdict[p]) = "Pending" <=> verdict[p] = "none"
        BY <1>0, PassedStatus DEF TypeOK
      <3>2. StatusOf("skipped_core") = "Skipped"
        BY DEF StatusOf, Skips
      <3> QED
        BY <1>3, <3>1, <3>2 DEF AbandonSuite
    <2>4. pc = "run" /\ suite' = suite /\ outcome'.status = "Aborted"
      BY <1>3 DEF AbandonSuite
    <2>5. Promise!Abandon
      BY <1>0, <2>1, <2>2, <2>3, <2>4, PromiseTests DEF Promise!Abandon, Bad
    <2> QED
      BY <2>5 DEF Promise!Next
  <1>4. CASE Finish
    <2>1. /\ \A p \in Positions(suite) : verdict[p] # "none"
          /\ \A p \in CoreTests(suite) : verdict[p] = "passed"
          /\ outcome'.status = IF \A p \in Positions(suite) : verdict[p] = "passed"
                               THEN "Passed" ELSE "Failed"
      BY <1>4, FinishedTests
    <2>2. /\ pc = "run" /\ suite' = suite /\ verdict' = verdict
          /\ CoreTests(suite) \subseteq Positions(suite)
      BY <1>4 DEF Finish, CloseBlock, CoreTests
    <2>3. \A p \in Positions(suite) :
            /\ StatusOf(verdict[p]) = "Passed" <=> verdict[p] = "passed"
            /\ StatusOf(verdict[p]) = "Pending" <=> verdict[p] = "none"
      BY <1>0, PassedStatus DEF TypeOK
    <2>4. PreflightPasses
      BY <1>0, <2>2 DEF ScopesAgree
    <2>5. Promise!Conclude
      BY <1>0, <2>1, <2>2, <2>3, <2>4, PromiseShape, PromiseTests DEF Promise!Conclude
    <2> QED
      BY <2>5 DEF Promise!Next
  <1>5. CASE Start \/ BeginTest \/ NextBlock \/ UNCHANGED engineVars
    <2>1. UNCHANGED <<suite, verdict, outcome>>
      BY <1>5 DEF Start, BeginTest, NextBlock, CloseBlock, engineVars
    <2> QED
      BY <2>1, PromiseStutters
  <1> QED
    BY <1>1, <1>2, <1>3, <1>4, <1>5 DEF Next, Advance

\* The engine keeps the promise of SuiteVerdict for every suite: whatever
\* order it runs the blocks in and however its scopes and requests go, each
\* test is decided once, only after what it depends on passed, and a failure
\* skips exactly its dependents (execute and its callees).
THEOREM EngineKeepsPromise == Spec => ImplementsVerdict
  <1>1. Init => Promise!Init
    <2>1. StatusOf("none") = "Pending"
      BY DEF StatusOf, Skips
    <2> QED
      BY <2>1, PromiseTests DEF Init, Running, Promise!Init
  <1> QED
    BY <1>1, InitReport, NextReport, NextKeepsPromise, PTL DEF Spec, ImplementsVerdict
=============================================================================
