----------------------------- MODULE InputProofs ----------------------------
(***************************************************************************)
(* Theorems about Inputs, for every limit and every command line: a source *)
(* that is accepted is whole, however the file grows while it is read      *)
(* (AcceptedSourceIsWhole), and a command starts with the timeout and the  *)
(* variables it was given, or not at all (PreparedAsWritten).              *)
(***************************************************************************)
EXTENDS Inputs, SequenceTheorems, WellFoundedInduction, TLAPS

Bytes == {"utf8", "binary"}

\* What was read is the beginning of the file, and no longer than the limit
\* and the sentinel.
BufferIsPrefix ==
  /\ source \in Seq(Bytes) /\ buffer \in Seq(Bytes)
  /\ Len(buffer) <= TakeLimit /\ Len(buffer) <= Len(source)
  /\ \A i \in 1 .. Len(buffer) : buffer[i] = source[i]

Phases == {"timeout", "open", "read", "environment", "env_file", "options", "prepared", "refused"}

InputsInv == phase \in Phases /\ BufferIsPrefix

\* Before the first step nothing was read.
LEMMA InputsInitial == InputsInit => InputsInv
  <1>1. ASSUME NEW n \in Nat, NEW s \in SeqOf(Bytes, n)
        PROVE  s \in Seq(Bytes)
    BY DEF SeqOf
  <1> QED BY <1>1, LimitsAreNatural DEF InputsInit, InputsInv, BufferIsPrefix, Phases, Bytes, TakeLimit

\* A step that leaves file and buffer alone.
LEMMA NothingIsRead ==
  ASSUME InputsInv, UNCHANGED <<source, buffer>>, phase' \in Phases
  PROVE  InputsInv'
  BY DEF InputsInv, BufferIsPrefix, TakeLimit

\* A refusal leaves what was read as it is.
LEMMA RefusalReadsNothing ==
  ASSUME InputsInv, NEW why, Refuse(why)
  PROVE  InputsInv'
  <1>1. UNCHANGED <<source, buffer>> /\ phase' \in Phases
    BY DEF Refuse, Phases
  <1> QED BY <1>1, NothingIsRead

\* The file grows at its end.
LEMMA GrowStep ==
  ASSUME InputsInv, Grow
  PROVE  InputsInv'
  <1> USE DEF InputsInv, BufferIsPrefix
  <1>1. source' = Append(source, "utf8") /\ buffer' = buffer /\ phase' = phase
    BY DEF Grow
  <1>2. source' \in Seq(Bytes) /\ Len(source') = Len(source) + 1
    BY <1>1 DEF Bytes
  <1>3. \A i \in 1 .. Len(source) : source'[i] = source[i]
    BY <1>1
  <1> QED BY <1>1, <1>2, <1>3 DEF TakeLimit

\* A longer beginning of the file is read.
LEMMA ReadStep ==
  ASSUME InputsInv, ReadSource
  PROVE  InputsInv'
  <1>1. CASE Refuse("io")
    BY <1>1, RefusalReadsNothing
  <1>2. CASE ~ Refuse("io")
    <2> USE DEF InputsInv, BufferIsPrefix
    <2>1. PICK n \in Len(buffer) + 1 .. Len(source) :
            n <= TakeLimit /\ buffer' = SubSeq(source, 1, n)
      BY <1>2 DEF ReadSource
    <2>2. source' = source /\ phase' = phase
      BY <1>2 DEF ReadSource
    <2>3. n \in Nat /\ n <= Len(source)
      BY <2>1
    <2>4. buffer' \in Seq(Bytes) /\ Len(buffer') = n
      BY <2>1, <2>3
    <2>5. \A i \in 1 .. n : buffer'[i] = source[i]
      BY <2>1, <2>3
    <2> QED BY <2>1, <2>2, <2>3, <2>4, <2>5 DEF TakeLimit
  <1> QED BY <1>1, <1>2

\* Every step keeps the invariant; one case per action.
LEMMA InputsStep == InputsInv /\ [InputsNext]_inputVars => InputsInv'
  <1> SUFFICES ASSUME InputsInv, [InputsNext]_inputVars
               PROVE  InputsInv'
    OBVIOUS
  <1>1. CASE ParseTimeout
    BY <1>1, NothingIsRead, RefusalReadsNothing DEF ParseTimeout, Phases
  <1>2. CASE OpenSource
    BY <1>2, NothingIsRead, RefusalReadsNothing DEF OpenSource, Phases
  <1>3. CASE EndOfSource
    BY <1>3, NothingIsRead, RefusalReadsNothing DEF EndOfSource, Phases
  <1>4. CASE ExtendEnvironment
    BY <1>4, NothingIsRead DEF ExtendEnvironment, Phases
  <1>5. CASE LoadEnvFile
    BY <1>5, NothingIsRead, RefusalReadsNothing DEF LoadEnvFile, Phases
  <1>6. CASE ApplyOptions
    BY <1>6, NothingIsRead, RefusalReadsNothing DEF ApplyOptions, Phases
  <1>7. CASE UNCHANGED inputVars
    BY <1>7, NothingIsRead DEF inputVars, InputsInv
  <1> QED
    BY <1>1, <1>2, <1>3, <1>4, <1>5, <1>6, <1>7, GrowStep, ReadStep DEF InputsNext

-----------------------------------------------------------------------------
\* Only EndOfSource leads from reading to the environment, and it accepts a
\* buffer that is within the limit and at the end of the file.
LEMMA OnlyWholeFilesPass ==
  ASSUME InputsInv, InputsNext, phase = "read", phase' = "environment"
  PROVE  buffer = source /\ Len(buffer) <= MaxSource
  <1>1. EndOfSource
    BY DEF InputsNext, ParseTimeout, Grow, OpenSource, ReadSource, ExtendEnvironment,
           LoadEnvFile, ApplyOptions, Refuse
  <1>2. AtEnd /\ Len(buffer) <= MaxSource
    BY <1>1 DEF EndOfSource, Refuse
  <1>3. MaxSource \in Nat /\ Len(buffer) \in Nat /\ Len(source) \in Nat
    BY LimitsAreNatural DEF InputsInv, BufferIsPrefix
  <1>4. Len(buffer) = Len(source)
    BY <1>2, <1>3 DEF AtEnd, TakeLimit
  <1>5. buffer = source
    BY <1>4 DEF InputsInv, BufferIsPrefix
  <1> QED BY <1>2, <1>5

\* For every limit, a source that reaches check_source is the whole file and
\* within the limit, and never more than one byte beyond the limit is held,
\* whatever another process appends between metadata, reads and the end of
\* the file (read_source).
THEOREM SourcesAreWhole == InputsSpec => AcceptedSourceIsWhole
  <1> DEFINE Whole == /\ Len(buffer') <= MaxSource + 1
                      /\ phase = "read" /\ phase' = "environment" =>
                           buffer = source /\ Len(buffer) <= MaxSource
  <1>1. InputsInit => InputsInv
    BY InputsInitial
  <1>2. InputsInv /\ [InputsNext]_inputVars => InputsInv'
    BY InputsStep
  <1>3. InputsInv /\ InputsInv' /\ [InputsNext]_inputVars => [Whole]_inputVars
    <2> SUFFICES ASSUME InputsInv, InputsInv', InputsNext
                 PROVE  Whole
      OBVIOUS
    <2>1. Len(buffer') <= MaxSource + 1
      BY DEF InputsInv, BufferIsPrefix, TakeLimit
    <2> QED BY <2>1, OnlyWholeFilesPass
  <1> QED BY <1>1, <1>2, <1>3, PTL DEF InputsSpec, AcceptedSourceIsWhole

-----------------------------------------------------------------------------
(***************************************************************************)
(* Induction, from the least number for which a statement would be false:  *)
(* the provers cannot instantiate a theorem that takes an operator.        *)
(***************************************************************************)
Less == {pair \in Nat \X Nat : pair[1] < pair[2]}

\* A set of natural numbers has a least element.
LEMMA LeastNumber ==
  ASSUME NEW S \in SUBSET Nat, S # {}
  PROVE  \E m \in S : \A k \in S : m <= k
  <1>1. IsWellFoundedOn(Less, Nat)
    BY NatLessThanWellFounded DEF Less, OpToRel
  <1>2. PICK m \in S : \A k \in S : <<k, m>> \notin Less
    BY <1>1, WFMin
  <1>3. \A k, n \in Nat : <<k, n>> \in Less <=> k < n
    BY DEF Less
  <1>4. \A k \in S : ~ (k < m)
    BY <1>2, <1>3
  <1> QED
    BY <1>4

(***************************************************************************)
(* Stores.  Upto says that a store has the last of the first m entries of  *)
(* a list for each name.                                                   *)
(***************************************************************************)
IsLast(L, m, i) ==
  /\ IsAssignment(L[i])
  /\ \A j \in 1 .. m : j > i => ~ (IsAssignment(L[j]) /\ L[j].name = L[i].name)

Upto(f, L, m) ==
  /\ f = [n \in DOMAIN f |-> f[n]]
  /\ \A n : n \in DOMAIN f <=> \E i \in 1 .. m : IsAssignment(L[i]) /\ L[i].name = n
  /\ \A i \in 1 .. m : IsLast(L, m, i) => f[L[i].name] = L[i].value

\* One more entry is inserted or passed over.
LEMMA OneMore ==
  ASSUME NEW f, NEW L, NEW m \in Nat, Upto(f, L, m)
  PROVE  Upto(IF IsAssignment(L[m + 1]) THEN InsertPredefined(f, L[m + 1]) ELSE f, L, m + 1)
  <1>1. 1 .. m + 1 = 1 .. m \cup {m + 1} /\ \A i \in 1 .. m : m + 1 > i
    OBVIOUS
  <1>2. \A i \in 1 .. m : IsLast(L, m + 1, i) =>
           IsLast(L, m, i) /\ ~ (IsAssignment(L[m + 1]) /\ L[m + 1].name = L[i].name)
    BY <1>1 DEF IsLast
  <1>3. CASE ~ IsAssignment(L[m + 1])
    <2>1. ~ IsLast(L, m + 1, m + 1)
      BY <1>3 DEF IsLast
    <2> QED
      BY <1>1, <1>2, <1>3, <2>1 DEF Upto
  <1>4. CASE IsAssignment(L[m + 1])
    <2> DEFINE e == L[m + 1]
               g == InsertPredefined(f, e)
    <2>1. /\ g = [n \in DOMAIN f \cup {e.name} |-> IF n = e.name THEN e.value ELSE f[n]]
          /\ DOMAIN g = DOMAIN f \cup {e.name}
      BY DEF InsertPredefined
    <2>2. g = [n \in DOMAIN g |-> g[n]]
      BY <2>1
    <2>3. g[e.name] = e.value /\ \A n \in DOMAIN f : n # e.name => g[n] = f[n]
      BY <2>1
    <2>4. \A n : n \in DOMAIN g <=> \E i \in 1 .. m + 1 : IsAssignment(L[i]) /\ L[i].name = n
      BY <1>1, <1>4, <2>1 DEF Upto
    <2>5. ASSUME NEW i \in 1 .. m + 1, IsLast(L, m + 1, i)
          PROVE  g[L[i].name] = L[i].value
      <3>1. CASE i = m + 1
        BY <2>3, <3>1
      <3>2. CASE i \in 1 .. m
        <4>1. IsLast(L, m, i) /\ L[i].name # e.name
          BY <1>2, <1>4, <2>5, <3>2
        <4>2. f[L[i].name] = L[i].value /\ L[i].name \in DOMAIN f
          BY <3>2, <4>1 DEF Upto, IsLast
        <4> QED
          BY <2>3, <4>1, <4>2
      <3> QED
        BY <1>1, <3>1, <3>2
    <2> HIDE DEF g
    <2>6. Upto(g, L, m + 1)
      BY <2>2, <2>4, <2>5 DEF Upto
    <2> QED
      BY <1>4, <2>6 DEF g
  <1> QED
    BY <1>3, <1>4

IsLoop(after, s, entries, n) ==
  after = [i \in 0 .. n |->
             IF i = 0 THEN s
             ELSE IF IsAssignment(entries[i]) THEN InsertPredefined(after[i - 1], entries[i])
             ELSE after[i - 1]]

\* The stores of the loop exist.
LEMMA LoopExists ==
  ASSUME NEW s, NEW entries \in Seq(Entries)
  PROVE  \E after : IsLoop(after, s, entries, Len(entries))
  <1> DEFINE Bad == {n \in 0 .. Len(entries) : ~ \E after : IsLoop(after, s, entries, n)}
  <1>1. ASSUME Bad # {}
        PROVE  FALSE
    <2>1. Bad \in SUBSET Nat
      OBVIOUS
    <2>2. PICK n \in Bad : \A k \in Bad : n <= k
      BY <1>1, <2>1, LeastNumber
    <2>3. n # 0
      <3>1. IsLoop([i \in 0 .. 0 |-> s], s, entries, 0)
        BY DEF IsLoop
      <3> QED
        BY <2>2, <3>1
    <2>4. PICK after : IsLoop(after, s, entries, n - 1)
      <3>1. n - 1 \in 0 .. Len(entries) /\ ~ (n <= n - 1)
        BY <2>2, <2>3
      <3> QED
        BY <2>2, <3>1
    <2> DEFINE next == IF IsAssignment(entries[n]) THEN InsertPredefined(after[n - 1], entries[n])
                       ELSE after[n - 1]
               longer == [i \in 0 .. n |-> IF i = n THEN next ELSE after[i]]
    <2>5. \A i \in 0 .. n - 1 : longer[i] = after[i]
      BY <2>2, <2>3
    <2>6. \A i \in 0 .. n : longer[i] =
             IF i = 0 THEN s
             ELSE IF IsAssignment(entries[i]) THEN InsertPredefined(longer[i - 1], entries[i])
             ELSE longer[i - 1]
      <3>1. \A i \in 0 .. n - 1 : after[i] =
               IF i = 0 THEN s
               ELSE IF IsAssignment(entries[i]) THEN InsertPredefined(after[i - 1], entries[i])
               ELSE after[i - 1]
        BY <2>4 DEF IsLoop
      <3>2. longer[n] = next
        BY <2>2
      <3>3. longer[n - 1] = after[n - 1]
        BY <2>2, <2>3, <2>5
      <3> HIDE DEF longer
      <3>4. ASSUME NEW i \in 0 .. n - 1, i # 0
            PROVE  longer[i] = IF IsAssignment(entries[i]) THEN InsertPredefined(longer[i - 1], entries[i])
                               ELSE longer[i - 1]
        <4>1. longer[i] = after[i] /\ longer[i - 1] = after[i - 1]
          BY <2>2, <2>5, <3>4
        <4> QED
          BY <3>1, <3>4, <4>1
      <3>5. longer[0] = s
        BY <2>2, <2>3, <2>5, <3>1
      <3> QED
        BY <2>2, <2>3, <3>2, <3>3, <3>4, <3>5
    <2>7. longer = [i \in 0 .. n |-> longer[i]]
      OBVIOUS
    <2> HIDE DEF longer
    <2>8. IsLoop(longer, s, entries, n)
      BY <2>6, <2>7 DEF IsLoop
    <2> QED
      BY <2>2, <2>8
  <1>2. Len(entries) \in 0 .. Len(entries)
    OBVIOUS
  <1>3. Len(entries) \notin Bad
    BY <1>1
  <1> QED
    BY <1>2, <1>3

\* A layer of entries on top of those that came before.
LEMMA LayerOnTop ==
  ASSUME NEW s, NEW entries \in Seq(Entries), NEW L, NEW m \in Nat, Upto(s, L, m),
         \A i \in 1 .. Len(entries) : L[m + i] = entries[i]
  PROVE  Upto(InsertEach(s, entries), L, m + Len(entries))
  <1> DEFINE after == CHOOSE x : IsLoop(x, s, entries, Len(entries))
  <1>1. IsLoop(after, s, entries, Len(entries))
    BY LoopExists
  <1>2. InsertEach(s, entries) = after[Len(entries)]
    BY DEF InsertEach, IsLoop
  <1> HIDE DEF after
  <1> DEFINE Wrong == {n \in 0 .. Len(entries) : ~ Upto(after[n], L, m + n)}
  <1>3. Upto(after[0], L, m + 0)
    BY <1>1 DEF IsLoop
  <1>4. ASSUME NEW n \in 1 .. Len(entries), Upto(after[n - 1], L, m + (n - 1))
        PROVE  Upto(after[n], L, m + n)
    <2>1. after[n] = IF IsAssignment(entries[n]) THEN InsertPredefined(after[n - 1], entries[n])
                     ELSE after[n - 1]
      <3>1. n \in 0 .. Len(entries) /\ n # 0
        OBVIOUS
      <3>2. \A i \in 0 .. Len(entries) : after[i] =
               IF i = 0 THEN s
               ELSE IF IsAssignment(entries[i]) THEN InsertPredefined(after[i - 1], entries[i])
               ELSE after[i - 1]
        BY <1>1 DEF IsLoop
      <3> QED
        BY <3>1, <3>2
    <2>2. entries[n] = L[(m + (n - 1)) + 1] /\ (m + (n - 1)) + 1 = m + n /\ m + (n - 1) \in Nat
      OBVIOUS
    <2> QED
      BY <1>4, <2>1, <2>2, OneMore
  <1>5. ASSUME Wrong # {}
        PROVE  FALSE
    <2>1. Wrong \in SUBSET Nat
      OBVIOUS
    <2>2. PICK n \in Wrong : \A k \in Wrong : n <= k
      BY <1>5, <2>1, LeastNumber
    <2>3. n # 0
      BY <1>3, <2>2
    <2>4. n - 1 \in 0 .. Len(entries) /\ n - 1 \notin Wrong
      BY <2>2, <2>3
    <2> QED
      BY <1>4, <2>2, <2>3, <2>4
  <1>6. Len(entries) \in 0 .. Len(entries) /\ Len(entries) \notin Wrong
    BY <1>5
  <1> QED
    BY <1>2, <1>6

(***************************************************************************)
(* The timeout.                                                            *)
(***************************************************************************)
Letters == Seq(STRING \cup {"m", "s"})
IsWritten(d) == d.number \in Int /\ d.letters \in Letters

\* The reverse of a sequence, index by index.
LEMMA ReverseOf ==
  ASSUME NEW s \in Letters
  PROVE  /\ Reverse(s) \in Letters /\ Len(Reverse(s)) = Len(s) /\ Len(s) \in Nat
         /\ \A i \in 1 .. Len(s) : Reverse(s)[(Len(s) - i) + 1] = s[i]
  BY DEF Reverse, Letters

\* Every text ends with itself, and with no other text as long.
LEMMA SuffixAsLong ==
  ASSUME NEW s \in Letters, NEW t \in Letters, Len(s) = Len(t)
  PROVE  IsSuffix(s, t) <=> s = t
  <1>1. /\ Reverse(s) \in Letters /\ Len(Reverse(s)) = Len(s) /\ Len(s) \in Nat
        /\ Reverse(t) \in Letters /\ Len(Reverse(t)) = Len(t)
    BY ReverseOf
  <1>2. IsSuffix(s, t) <=> Reverse(s) = Reverse(t)
    BY <1>1 DEF IsSuffix, IsPrefix, Letters
  <1>3. ASSUME Reverse(s) = Reverse(t)
        PROVE  s = t
    <2>1. \A i \in 1 .. Len(s) : s[i] = t[i]
      BY <1>3, ReverseOf
    <2> QED
      BY <2>1 DEF Letters
  <1> QED
    BY <1>2, <1>3

\* The units, in the order in which they are tried.
LEMMA UnitsAreLetters ==
  /\ DOMAIN SuffixOrder = {1, 2, 3}
  /\ \A i \in DOMAIN SuffixOrder : SuffixOrder[i] \in Letters
  BY DEF SuffixOrder, Letters

\* What is written after the digits is a unit exactly if a unit of its length
\* is found, and then it is that unit.
LEMMA SuffixFound ==
  ASSUME NEW t \in Letters
  PROVE  /\ t \in {<<"m", "s">>, <<"s">>, <<"m">>} =>
              Matching(t) # {} /\ Len(SuffixOf(t)) = Len(t)
         /\ Matching(t) # {} /\ Len(SuffixOf(t)) = Len(t) =>
              t \in {<<"m", "s">>, <<"s">>, <<"m">>} /\ SuffixOf(t) = t
  <1> DEFINE first == CHOOSE i \in Matching(t) : \A j \in Matching(t) : i <= j
  <1>1. ASSUME Matching(t) # {}
        PROVE  first \in Matching(t) /\ \A j \in Matching(t) : first <= j
    <2>1. Matching(t) \in SUBSET {1, 2, 3}
      BY UnitsAreLetters DEF Matching
    <2>2. \E i \in Matching(t) : \A j \in Matching(t) : i <= j
      BY <1>1, <2>1
    <2> QED
      BY <2>2
  <1>2. SuffixOf(t) = SuffixOrder[first]
    BY DEF SuffixOf
  <1> HIDE DEF first
  <1>3. ASSUME Matching(t) # {}, Len(SuffixOf(t)) = Len(t)
        PROVE  t \in {<<"m", "s">>, <<"s">>, <<"m">>} /\ SuffixOf(t) = t
    <2>1. first \in DOMAIN SuffixOrder /\ IsSuffix(SuffixOrder[first], t)
      BY <1>1, <1>3 DEF Matching
    <2>2. SuffixOrder[first] = t
      BY <1>2, <1>3, <2>1, UnitsAreLetters, SuffixAsLong
    <2> QED
      BY <1>2, <2>1, <2>2, UnitsAreLetters DEF SuffixOrder
  <1>4. ASSUME NEW i \in DOMAIN SuffixOrder, t = SuffixOrder[i]
        PROVE  i \in Matching(t)
    BY <1>4, SuffixAsLong DEF Matching
  <1>5. ASSUME t \in {<<"m", "s">>, <<"s">>, <<"m">>}
        PROVE  Matching(t) # {} /\ Len(SuffixOf(t)) = Len(t)
    <2>1. PICK i \in DOMAIN SuffixOrder : t = SuffixOrder[i]
      BY <1>5, UnitsAreLetters DEF SuffixOrder
    <2>2. i \in Matching(t)
      BY <1>4, <2>1
    <2>3. first \in DOMAIN SuffixOrder /\ IsSuffix(SuffixOrder[first], t) /\ first <= i
      BY <1>1, <2>2 DEF Matching
    <2>4. Len(SuffixOrder[first]) <= Len(t)
      <3>1. SuffixOrder[first] \in Letters
        BY <2>3, UnitsAreLetters
      <3> QED
        BY <2>3, <3>1, ReverseOf DEF IsSuffix, IsPrefix
    <2>5. CASE i = 1
      <3>1. first = 1
        BY <2>3, <2>5, UnitsAreLetters
      <3> QED
        BY <1>2, <2>1, <2>2, <2>5, <3>1
    <2>6. CASE i # 1
      <3>1. Len(t) = 1
        BY <2>1, <2>6, UnitsAreLetters DEF SuffixOrder
      <3>2. first # 1
        BY <2>4, <3>1 DEF SuffixOrder
      <3>3. Len(SuffixOrder[first]) = 1
        BY <2>3, <3>2, UnitsAreLetters DEF SuffixOrder
      <3> QED
        BY <1>2, <2>2, <3>1, <3>3
    <2> QED
      BY <2>5, <2>6
  <1> QED
    BY <1>3, <1>5

\* A duration is accepted exactly if it means a number of milliseconds that
\* is not zero and fits the word, and then it is taken for just that.
LEMMA DurationIsMeant ==
  ASSUME NEW d, IsWritten(d)
  PROVE  Meaning(d) = IF IsDuration(d) THEN {Milliseconds(d)} ELSE {}
  <1>0. d.number \in Int /\ d.letters \in Letters
    BY DEF IsWritten
  <1>1. CASE d.letters \notin {<<"m", "s">>, <<"s">>, <<"m">>}
    <2>1. ~ IsDuration(d)
      BY <1>0, <1>1, SuffixFound DEF IsDuration
    <2>2. {x \in DOMAIN UnitOf : UnitOf[x] = d.letters} = {}
      BY <1>1 DEF UnitOf
    <2> QED
      BY <2>1, <2>2 DEF Meaning
  <1>2. CASE d.letters \in {<<"m", "s">>, <<"s">>, <<"m">>}
    <2>1. /\ Matching(d.letters) # {} /\ Len(SuffixOf(d.letters)) = Len(d.letters)
          /\ SuffixOf(d.letters) = d.letters
      BY <1>0, <1>2, SuffixFound
    <2> DEFINE factor == Multiplier(d.letters)
    <2>2. /\ <<"m", "s">> # <<"s">> /\ <<"m", "s">> # <<"m">> /\ <<"s">> # <<"m">>
      <3>1. Len(<<"m", "s">>) = 2 /\ Len(<<"s">>) = 1 /\ Len(<<"m">>) = 1
        OBVIOUS
      <3>2. <<"s">>[1] = "s" /\ <<"m">>[1] = "m"
        OBVIOUS
      <3> QED
        BY <3>1, <3>2
    <2>3. {d.number * FactorOf[u] : u \in {x \in DOMAIN UnitOf : UnitOf[x] = d.letters}}
             = {d.number * factor}
      <3>1. DOMAIN UnitOf = {"ms", "s", "m"}
        BY DEF UnitOf
      <3>2. UnitOf["ms"] = <<"m", "s">> /\ UnitOf["s"] = <<"s">> /\ UnitOf["m"] = <<"m">>
        BY DEF UnitOf
      <3>3. FactorOf["ms"] = 1 /\ FactorOf["s"] = PerSecond /\ FactorOf["m"] = PerMinute
        BY DEF FactorOf
      <3>4. CASE d.letters = <<"m", "s">>
        <4>1. factor = 1
          BY <3>4 DEF Multiplier
        <4>2. {x \in DOMAIN UnitOf : UnitOf[x] = d.letters} = {"ms"}
          BY <2>2, <3>1, <3>2, <3>4
        <4> QED
          BY <3>3, <4>1, <4>2
      <3>5. CASE d.letters = <<"s">>
        <4>1. factor = PerSecond
          BY <2>2, <3>5 DEF Multiplier
        <4>2. {x \in DOMAIN UnitOf : UnitOf[x] = d.letters} = {"s"}
          BY <2>2, <3>1, <3>2, <3>5
        <4> QED
          BY <3>3, <4>1, <4>2
      <3>6. CASE d.letters = <<"m">>
        <4>1. factor = PerMinute
          BY <2>2, <3>6 DEF Multiplier
        <4>2. {x \in DOMAIN UnitOf : UnitOf[x] = d.letters} = {"m"}
          BY <2>2, <3>1, <3>2, <3>6
        <4> QED
          BY <3>3, <4>1, <4>2
      <3> QED
        BY <1>2, <3>4, <3>5, <3>6
    <2>4. factor \in Nat \ {0}
      BY UnitsArePositive DEF Multiplier
    <2>5. Milliseconds(d) = d.number * factor
      BY <2>1 DEF Milliseconds
    <2> HIDE DEF factor
    <2>6. IsDuration(d) <=> d.number # -1 /\ d.number <= Word /\ d.number * factor \in 1 .. Word
      BY <2>1, <2>5 DEF IsDuration
    <2>7. ASSUME NEW k \in Int, NEW f \in Nat \ {0}, k * f \in 1 .. Word
          PROVE  k # -1 /\ k <= Word
      <3>1. k >= 1
        <4>1. ASSUME k <= 0
              PROVE  k * f <= 0
          BY <4>1
        <4> QED
          BY <2>7, <4>1
      <3>2. k <= k * f
        BY <3>1
      <3> QED
        BY <2>7, <3>1, <3>2, UnitsArePositive
    <2>8. IsDuration(d) <=> d.number * factor \in 1 .. Word
      BY <1>0, <2>4, <2>6, <2>7
    <2> QED
      BY <2>3, <2>5, <2>8 DEF Meaning
  <1> QED
    BY <1>1, <1>2

(***************************************************************************)
(* The layers of the store.                                                *)
(***************************************************************************)
File == IF command.envFile = NoFile THEN <<>> ELSE command.envFile

\* The layers lie one on top of the other.
LEMMA LayersInOrder ==
  ASSUME command \in Commands
  PROVE  LET a == command.environment
             b == File
             c == command.options
         IN /\ a \in Seq(Entries) /\ b \in Seq(Entries) /\ c \in Seq(Entries)
            /\ Layers \in Seq(Entries)
            /\ Len(Layers) = (Len(a) + Len(b)) + Len(c)
            /\ \A i \in 1 .. Len(a) : Layers[0 + i] = a[i]
            /\ \A i \in 1 .. Len(b) : Layers[Len(a) + i] = b[i]
            /\ \A i \in 1 .. Len(c) : Layers[(Len(a) + Len(b)) + i] = c[i]
  <1> DEFINE a == command.environment
             b == File
             c == command.options
  <1>1. a \in Seq(Entries) /\ b \in Seq(Entries) /\ c \in Seq(Entries)
    BY CommandsAreLines DEF CommandLines, File
  <1>2. Layers = (a \o b) \o c
    BY DEF Layers, File
  <1> HIDE DEF a, b, c
  <1>3. Len(a) \in Nat /\ Len(b) \in Nat /\ Len(c) \in Nat
    BY <1>1
  <1>4. /\ a \o b \in Seq(Entries) /\ Len(a \o b) = Len(a) + Len(b)
        /\ \A i \in 1 .. Len(a) : (a \o b)[i] = a[i]
        /\ \A i \in 1 .. Len(b) : (a \o b)[Len(a) + i] = b[i]
    BY <1>1
  <1> DEFINE ab == a \o b
  <1> HIDE DEF ab
  <1>5. ab \in Seq(Entries) /\ Len(ab) = Len(a) + Len(b)
    BY <1>4 DEF ab
  <1>6. /\ ab \o c \in Seq(Entries) /\ Len(ab \o c) = Len(ab) + Len(c)
        /\ \A i \in 1 .. Len(ab) : (ab \o c)[i] = ab[i]
        /\ \A i \in 1 .. Len(c) : (ab \o c)[Len(ab) + i] = c[i]
    <2>1. /\ ab \o c \in Seq(Entries) /\ Len(ab \o c) = Len(ab) + Len(c)
          /\ \A i \in 1 .. Len(ab) + Len(c) :
               (ab \o c)[i] = IF i <= Len(ab) THEN ab[i] ELSE c[i - Len(ab)]
      <3>1. ab \in Seq(Entries) /\ c \in Seq(Entries)
        BY <1>1, <1>5
      <3> QED
        BY <3>1, ConcatProperties
    <2>2. Len(ab) \in Nat /\ Len(c) \in Nat
      BY <1>1, <1>5
    <2>3. \A i \in 1 .. Len(ab) : (ab \o c)[i] = ab[i]
      BY <2>1, <2>2
    <2>4. ASSUME NEW i \in 1 .. Len(c)
          PROVE  (ab \o c)[Len(ab) + i] = c[i]
      <3>1. Len(ab) + i \in 1 .. Len(ab) + Len(c) /\ ~ (Len(ab) + i <= Len(ab)) /\ (Len(ab) + i) - Len(ab) = i
        BY <2>2
      <3> QED
        BY <2>1, <3>1
    <2> QED
      BY <2>1, <2>3, <2>4
  <1>7. \A i \in 1 .. Len(a) : i \in 1 .. Len(ab) /\ 0 + i = i
    BY <1>3, <1>5
  <1>8. \A i \in 1 .. Len(b) : Len(a) + i \in 1 .. Len(ab)
    BY <1>3, <1>5
  <1>9. Layers = ab \o c
    BY <1>2 DEF ab
  <1>10. \A i \in 1 .. Len(a) : Layers[0 + i] = a[i]
    BY <1>4, <1>6, <1>7, <1>9 DEF ab
  <1>11. \A i \in 1 .. Len(b) : Layers[Len(a) + i] = b[i]
    BY <1>4, <1>6, <1>8, <1>9 DEF ab
  <1>12. \A i \in 1 .. Len(c) : Layers[(Len(a) + Len(b)) + i] = c[i]
    BY <1>5, <1>6, <1>9
  <1> QED
    BY <1>1, <1>5, <1>6, <1>9, <1>10, <1>11, <1>12 DEF a, b, c

\* A store that has the last of all entries for each name is what was asked for.
LEMMA AllLayers ==
  ASSUME command \in Commands, Upto(store, Layers, Len(Layers))
  PROVE  store = Layered
  <1>1. Layers \in Seq(Entries) /\ DOMAIN Layers = 1 .. Len(Layers) /\ Len(Layers) \in Nat
    <2>1. Layers \in Seq(Entries)
      BY LayersInOrder
    <2> QED
      BY <2>1
  <1> DEFINE names == {e.name : e \in {x \in ToSet(Layers) : IsAssignment(x)}}
  <1>2. \A n : n \in names <=> \E i \in 1 .. Len(Layers) : IsAssignment(Layers[i]) /\ Layers[i].name = n
    BY <1>1 DEF ToSet
  <1>3. DOMAIN store = names
    BY <1>2 DEF Upto
  <1>4. ASSUME NEW n \in names
        PROVE  store[n] = Layers[LastOf(n)].value
    <2> DEFINE Occurs == {i \in 1 .. Len(Layers) : IsAssignment(Layers[i]) /\ Layers[i].name = n}
               Mirror == {k \in 0 .. Len(Layers) : Len(Layers) - k \in Occurs}
    <2>1. PICK o \in 1 .. Len(Layers) : IsAssignment(Layers[o]) /\ Layers[o].name = n
      BY <1>2
    <2>2. Mirror \in SUBSET Nat /\ Mirror # {}
      <3>1. Len(Layers) - o \in 0 .. Len(Layers) /\ Len(Layers) - (Len(Layers) - o) = o
        BY <1>1
      <3>2. Len(Layers) - o \in Mirror
        BY <2>1, <3>1
      <3>3. Mirror \in SUBSET Nat
        <4>1. 0 .. Len(Layers) \in SUBSET Nat
          BY <1>1
        <4> QED
          BY <4>1
      <3> QED
        BY <3>2, <3>3
    <2>3. PICK k \in Mirror : \A j \in Mirror : k <= j
      BY <2>2, LeastNumber
    <2> DEFINE last == Len(Layers) - k
    <2>4. last \in 1 .. Len(Layers) /\ IsAssignment(Layers[last]) /\ Layers[last].name = n
      BY <2>3
    <2>5. ASSUME NEW j \in DOMAIN Layers, j > last, IsAssignment(Layers[j]), Layers[j].name = n
          PROVE  FALSE
      <3>1. Len(Layers) - j \in Mirror
        BY <1>1, <2>5
      <3> QED
        BY <1>1, <2>3, <2>5, <3>1
    <2> HIDE DEF last, Mirror, Occurs
    <2>6. \E i \in DOMAIN Layers : /\ IsAssignment(Layers[i]) /\ Layers[i].name = n
                                   /\ \A j \in DOMAIN Layers : j > i =>
                                        ~ (IsAssignment(Layers[j]) /\ Layers[j].name = n)
      BY <1>1, <2>4, <2>5
    <2>7. /\ LastOf(n) \in DOMAIN Layers
          /\ IsAssignment(Layers[LastOf(n)]) /\ Layers[LastOf(n)].name = n
          /\ \A j \in DOMAIN Layers : j > LastOf(n) =>
               ~ (IsAssignment(Layers[j]) /\ Layers[j].name = n)
      BY <2>6 DEF LastOf
    <2>8. IsLast(Layers, Len(Layers), LastOf(n))
      BY <1>1, <2>7 DEF IsLast
    <2> QED
      BY <1>1, <2>7, <2>8 DEF Upto
  <1>5. store = [n \in names |-> store[n]]
    BY <1>3 DEF Upto
  <1> HIDE DEF names
  <1>6. store = [n \in names |-> Layers[LastOf(n)].value]
    BY <1>4, <1>5
  <1> QED
    BY <1>6 DEF Layered, names

(***************************************************************************)
(* What is prepared, step by step.                                         *)
(***************************************************************************)
TimeoutMeant ==
  \/ timeout = 0 /\ command.duration.letters = <<"default">>
  \/ {timeout} = Meaning(command.duration)

RefusedRightly ==
  phase = "refused" =>
    /\ reason \in {"duration", "io", "source", "env_file", "option"}
    /\ reason = "duration" => Meaning(command.duration) = {}
    /\ reason # "duration" => TimeoutMeant
    /\ reason = "env_file" => ~ UsableEnvFile
    /\ reason = "option" => ~ UsableOptions

StoreSoFar ==
  /\ phase \in {"timeout", "open", "read", "environment"} => Upto(store, Layers, 0)
  /\ phase = "env_file" => command.envFile # NoFile /\ Upto(store, Layers, Len(command.environment))
  /\ phase = "options" =>
       UsableEnvFile /\ Upto(store, Layers, Len(command.environment) + Len(File))
  /\ phase = "prepared" => UsableEnvFile /\ UsableOptions /\ Upto(store, Layers, Len(Layers))

PreparedInv ==
  /\ phase \in Phases
  /\ command \in Commands
  /\ phase = "timeout" => timeout = 0
  /\ phase \notin {"timeout", "refused"} => TimeoutMeant
  /\ RefusedRightly
  /\ StoreSoFar

\* Nothing is stored at first.
LEMMA InitPrepared == InputsInit => PreparedInv
  <1> SUFFICES ASSUME InputsInit
               PROVE  PreparedInv
    OBVIOUS
  <1>1. Upto(<<>>, Layers, 0)
    <2>1. DOMAIN <<>> = {} /\ 1 .. 0 = {}
      OBVIOUS
    <2>2. <<>> = [n \in {} |-> <<>>[n]]
      OBVIOUS
    <2> QED
      BY <2>1, <2>2 DEF Upto
  <1> QED
    BY <1>1 DEF InputsInit, PreparedInv, RefusedRightly, StoreSoFar, Phases

\* What was asked for does not change, and so does not what it means.
LEMMA SameCommand ==
  ASSUME command' = command
  PROVE  /\ Layers' = Layers /\ File' = File
         /\ UsableEnvFile' = UsableEnvFile /\ UsableOptions' = UsableOptions
         /\ Meaning(command.duration)' = Meaning(command.duration)
  BY DEF Layers, File, UsableEnvFile, UsableOptions

\* A step that touches neither the timeout nor the store.
LEMMA NothingIsPrepared ==
  ASSUME PreparedInv, UNCHANGED <<command, timeout, store>>,
         \/ UNCHANGED <<phase, reason>>
         \/ /\ {phase, phase'} \subseteq {"open", "read", "environment"}
  PROVE  PreparedInv'
  <1>1. /\ Layers' = Layers /\ File' = File
        /\ UsableEnvFile' = UsableEnvFile /\ UsableOptions' = UsableOptions
    BY SameCommand
  <1>2. Upto(store, Layers, 0)' <=> Upto(store, Layers, 0)
    BY <1>1
  <1>3. TimeoutMeant' <=> TimeoutMeant
    BY SameCommand DEF TimeoutMeant
  <1> QED
    BY <1>1, <1>2, <1>3, SameCommand DEF PreparedInv, RefusedRightly, StoreSoFar, Phases

\* A refusal for one of the reasons that make the command unusable.
LEMMA RefusalIsRight ==
  ASSUME PreparedInv, NEW why \in {"duration", "io", "source", "env_file", "option"}, Refuse(why),
         why = "duration" => Meaning(command.duration) = {},
         why # "duration" => TimeoutMeant,
         why = "env_file" => ~ UsableEnvFile,
         why = "option" => ~ UsableOptions
  PROVE  PreparedInv'
  <1>1. UNCHANGED <<command, timeout, store>> /\ phase' = "refused" /\ reason' = why
    BY DEF Refuse
  <1>2. TimeoutMeant' <=> TimeoutMeant
    BY <1>1, SameCommand DEF TimeoutMeant
  <1> QED
    BY <1>1, <1>2, SameCommand DEF PreparedInv, RefusedRightly, StoreSoFar, Phases

\* The duration is read.
LEMMA TimeoutStep ==
  ASSUME PreparedInv, ParseTimeout
  PROVE  PreparedInv'
  <1> DEFINE d == command.duration
  <1>1. IsWritten(d)
    <2>1. command \in CommandLines
      BY CommandsAreLines DEF PreparedInv
    <2>2. Seq(STRING) \subseteq Letters
      BY DEF Letters
    <2> QED
      BY <2>1, <2>2 DEF CommandLines, IsWritten
  <1>2. Meaning(d) = IF IsDuration(d) THEN {Milliseconds(d)} ELSE {}
    BY <1>1, DurationIsMeant
  <1>3. CASE phase' = "open"
    <2>1. /\ phase = "timeout" /\ UNCHANGED <<command, store, reason>>
          /\ d.letters = <<"default">> \/ IsDuration(d)
          /\ timeout' = IF IsDuration(d) THEN Milliseconds(d) ELSE 0
      BY <1>3 DEF ParseTimeout, Refuse
    <2>2. TimeoutMeant'
      BY <1>2, <2>1, SameCommand DEF TimeoutMeant
    <2>3. Upto(store, Layers, 0)'
      BY <2>1, SameCommand DEF PreparedInv, StoreSoFar
    <2> QED
      BY <1>3, <2>1, <2>2, <2>3 DEF PreparedInv, RefusedRightly, StoreSoFar, Phases
  <1>4. CASE phase' # "open"
    <2>1. Refuse("duration") /\ ~ IsDuration(d)
      BY <1>4 DEF ParseTimeout
    <2> QED
      BY <1>2, <2>1, RefusalIsRight
  <1> QED
    BY <1>3, <1>4

\* The environment is the first layer.
LEMMA EnvironmentStep ==
  ASSUME PreparedInv, ExtendEnvironment
  PROVE  PreparedInv'
  <1>1. /\ phase = "environment" /\ UNCHANGED <<command, timeout, reason>>
        /\ store' = InsertEach(store, command.environment)
        /\ phase' = IF command.envFile = NoFile THEN "options" ELSE "env_file"
    BY DEF ExtendEnvironment
  <1>2. Upto(store, Layers, 0) /\ TimeoutMeant /\ command \in Commands
    BY <1>1 DEF PreparedInv, StoreSoFar
  <1>3. Upto(store', Layers, 0 + Len(command.environment))
    BY <1>1, <1>2, LayersInOrder, LayerOnTop
  <1>4. Len(command.environment) \in Nat
    BY <1>2, LayersInOrder
  <1>5. TimeoutMeant'
    BY <1>1, <1>2, SameCommand DEF TimeoutMeant
  <1>6. CASE command.envFile = NoFile
    <2>1. Len(File) = 0 /\ UsableEnvFile
      BY <1>6 DEF File, UsableEnvFile
    <2>2. Upto(store', Layers, Len(command.environment) + Len(File))
      BY <1>3, <1>4, <2>1
    <2>3. (UsableEnvFile /\ Upto(store, Layers, Len(command.environment) + Len(File)))'
      BY <1>1, <2>1, <2>2, SameCommand
    <2> QED
      BY <1>1, <1>2, <1>5, <1>6, <2>3 DEF PreparedInv, RefusedRightly, StoreSoFar, Phases
  <1>7. CASE command.envFile # NoFile
    <2>1. Upto(store', Layers, Len(command.environment))
      BY <1>3, <1>4
    <2>2. Upto(store, Layers, Len(command.environment))'
      BY <1>1, <2>1, SameCommand
    <2> QED
      BY <1>1, <1>2, <1>5, <1>7, <2>2 DEF PreparedInv, RefusedRightly, StoreSoFar, Phases
  <1> QED
    BY <1>6, <1>7

\* The env file is the second layer.
LEMMA EnvFileStep ==
  ASSUME PreparedInv, LoadEnvFile
  PROVE  PreparedInv'
  <1>1. /\ phase = "env_file" /\ command.envFile # NoFile /\ TimeoutMeant /\ command \in Commands
        /\ Upto(store, Layers, Len(command.environment))
        /\ File = command.envFile
    BY DEF LoadEnvFile, PreparedInv, StoreSoFar, File
  <1>2. /\ command.environment \in Seq(Entries) /\ File \in Seq(Entries)
        /\ \A i \in 1 .. Len(File) : Layers[Len(command.environment) + i] = File[i]
    BY <1>1, LayersInOrder
  <1>3. UsableEnvFile <=> /\ Len(command.envFile) <= MaxEnvFile
                          /\ \A i \in DOMAIN command.envFile : IsUsable(command.envFile[i])
    BY <1>1 DEF UsableEnvFile, IsUsable, ToSet
  <1>4. CASE Refuse("io")
    BY <1>1, <1>4, RefusalIsRight
  <1>5. CASE Refuse("env_file") /\ ~ UsableEnvFile
    BY <1>1, <1>5, RefusalIsRight
  <1>6. CASE /\ UsableEnvFile /\ phase' = "options" /\ UNCHANGED <<command, timeout, reason>>
             /\ store' = InsertEach(store, command.envFile)
    <2>1. Len(command.environment) \in Nat
      BY <1>2
    <2>2. Upto(store', Layers, Len(command.environment) + Len(File))
      BY <1>1, <1>2, <1>6, <2>1, LayerOnTop
    <2>3. (UsableEnvFile /\ Upto(store, Layers, Len(command.environment) + Len(File)))'
      BY <1>6, <2>2, SameCommand
    <2>4. TimeoutMeant'
      BY <1>1, <1>6, SameCommand DEF TimeoutMeant
    <2> QED
      BY <1>1, <1>6, <2>3, <2>4 DEF PreparedInv, RefusedRightly, StoreSoFar, Phases
  <1> QED
    <2>1. Len(command.envFile) \in Nat /\ MaxEnvFile \in Nat
      BY <1>1, <1>2, LimitsAreNatural
    <2>2. \/ Refuse("io")
          \/ Refuse("env_file") /\ ~ UsableEnvFile
          \/ /\ UsableEnvFile /\ phase' = "options" /\ UNCHANGED <<command, timeout, reason>>
             /\ store' = InsertEach(store, command.envFile)
      BY <1>3, <2>1 DEF LoadEnvFile
    <2> QED
      BY <1>4, <1>5, <1>6, <2>2

\* The options are the last layer.
LEMMA OptionsStep ==
  ASSUME PreparedInv, ApplyOptions
  PROVE  PreparedInv'
  <1>1. /\ phase = "options" /\ TimeoutMeant /\ command \in Commands /\ UsableEnvFile
        /\ Upto(store, Layers, Len(command.environment) + Len(File))
    BY DEF ApplyOptions, PreparedInv, StoreSoFar
  <1>2. /\ command.environment \in Seq(Entries) /\ File \in Seq(Entries)
        /\ command.options \in Seq(Entries)
        /\ Len(Layers) = (Len(command.environment) + Len(File)) + Len(command.options)
        /\ \A i \in 1 .. Len(command.options) :
             Layers[(Len(command.environment) + Len(File)) + i] = command.options[i]
    BY <1>1, LayersInOrder
  <1>3. UsableOptions <=> \A i \in DOMAIN command.options : IsAssignment(command.options[i])
    BY DEF UsableOptions, ToSet
  <1>4. CASE Refuse("option") /\ ~ UsableOptions
    BY <1>1, <1>4, RefusalIsRight
  <1>5. CASE /\ UsableOptions /\ phase' = "prepared" /\ UNCHANGED <<command, timeout, reason>>
             /\ store' = InsertEach(store, command.options)
    <2>1. Len(command.environment) + Len(File) \in Nat
      BY <1>2
    <2>2. Upto(store', Layers, Len(Layers))
      BY <1>1, <1>2, <1>5, <2>1, LayerOnTop
    <2>3. (UsableEnvFile /\ UsableOptions /\ Upto(store, Layers, Len(Layers)))'
      BY <1>1, <1>5, <2>2, SameCommand
    <2>4. TimeoutMeant'
      BY <1>1, <1>5, SameCommand DEF TimeoutMeant
    <2> QED
      BY <1>1, <1>5, <2>3, <2>4 DEF PreparedInv, RefusedRightly, StoreSoFar, Phases
  <1> QED
    BY <1>3, <1>4, <1>5 DEF ApplyOptions

\* Every step keeps the invariant; one case per action.
LEMMA PreparedStep == PreparedInv /\ [InputsNext]_inputVars => PreparedInv'
  <1> SUFFICES ASSUME PreparedInv, [InputsNext]_inputVars
               PROVE  PreparedInv'
    OBVIOUS
  <1>1. CASE Grow
    BY <1>1, NothingIsPrepared DEF Grow
  <1>2. CASE OpenSource
    <2>1. TimeoutMeant
      BY <1>2 DEF OpenSource, PreparedInv
    <2>2. CASE Refuse("io") \/ Refuse("source")
      BY <2>1, <2>2, RefusalIsRight
    <2>3. CASE ~ (Refuse("io") \/ Refuse("source"))
      BY <1>2, <2>3, NothingIsPrepared DEF OpenSource
    <2> QED
      BY <2>2, <2>3
  <1>3. CASE ReadSource
    <2>1. TimeoutMeant
      BY <1>3 DEF ReadSource, PreparedInv
    <2>2. CASE Refuse("io")
      BY <2>1, <2>2, RefusalIsRight
    <2>3. CASE ~ Refuse("io")
      BY <1>3, <2>3, NothingIsPrepared DEF ReadSource
    <2> QED
      BY <2>2, <2>3
  <1>4. CASE EndOfSource
    <2>1. TimeoutMeant
      BY <1>4 DEF EndOfSource, PreparedInv
    <2>2. CASE Refuse("source")
      BY <2>1, <2>2, RefusalIsRight
    <2>3. CASE ~ Refuse("source")
      BY <1>4, <2>3, NothingIsPrepared DEF EndOfSource
    <2> QED
      BY <2>2, <2>3
  <1>5. CASE UNCHANGED inputVars
    BY <1>5, NothingIsPrepared DEF inputVars
  <1> QED
    BY <1>1, <1>2, <1>3, <1>4, <1>5, TimeoutStep, EnvironmentStep, EnvFileStep, OptionsStep
    DEF InputsNext

\* For every limit, word, unit and command line: a command starts with the
\* timeout that was written and, for each name, the value of its last --var,
\* else of its last line in the env file, else of the environment; and it is
\* refused only for what makes it unusable (parse_duration, prepare_source).
THEOREM CommandsArePrepared == InputsSpec => []PreparedAsWritten
  <1>1. PreparedInv => PreparedAsWritten
    <2> SUFFICES ASSUME PreparedInv
                 PROVE  PreparedAsWritten
      OBVIOUS
    <2>1. CASE phase = "prepared"
      <3>1. command \in Commands /\ Upto(store, Layers, Len(Layers)) /\ UsableEnvFile /\ UsableOptions
        BY <2>1 DEF PreparedInv, StoreSoFar
      <3>2. store = Layered
        BY <3>1, AllLayers
      <3>3. TimeoutMeant
        BY <2>1 DEF PreparedInv
      <3> QED
        BY <2>1, <3>1, <3>2, <3>3 DEF PreparedAsWritten, TimeoutMeant
    <2>2. CASE phase = "refused"
      <3>1. /\ reason = "duration" => Meaning(command.duration) = {}
            /\ reason # "duration" => timeout = 0 \/ {timeout} = Meaning(command.duration)
            /\ reason = "env_file" => ~ UsableEnvFile
            /\ reason = "option" => ~ UsableOptions
        BY <2>2 DEF PreparedInv, RefusedRightly, TimeoutMeant
      <3> QED
        BY <2>2, <3>1 DEF PreparedAsWritten
    <2>3. CASE phase \notin {"prepared", "refused"}
      BY <2>3 DEF PreparedAsWritten
    <2> QED
      BY <2>1, <2>2, <2>3
  <1> QED
    BY <1>1, InitPrepared, PreparedStep, PTL DEF InputsSpec
=============================================================================
