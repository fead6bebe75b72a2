--------------------------- MODULE CaptureProofs ---------------------------
(***************************************************************************)
(* Theorems about CaptureEngine, for every exchange, limit, height of JSON *)
(* and set of floats that its assumptions allow:                           *)
(*   SuccessIsSatisfaction   a test succeeds exactly if everything holds   *)
(*   LimitsOnlyTruncate      the report is a prefix of all failures        *)
(*   CapturesAreReadable     a staged value is the one of its field        *)
(*   WalkFailureIsStatic     the walk fails for reasons of the source only *)
(*                                                                         *)
(* The recursive functions are solved height by height.  A check is then   *)
(* shown to add one list of failures, as far as it fits, whatever the      *)
(* report holds; the list is empty exactly if the reference definition of  *)
(* the check holds.  The walk, begun after a success, stages only what is  *)
(* there, and stops exactly at a name that is taken or at a nested         *)
(* assertion where no object can be.  The inductive invariants, Evaluated  *)
(* and Extracted, say what each phase leaves behind in these terms.        *)
(***************************************************************************)
EXTENDS CaptureEngine, TLAPS, WellFoundedInduction

(***************************************************************************)
(* Induction, from the least number for which a statement would be false.  *)
(***************************************************************************)
Less == {pair \in Nat \X Nat : pair[1] < pair[2]}

\* A set of natural numbers has a least element.
LEMMA LeastNumber ==
  ASSUME NEW S \in SUBSET Nat, S # {}
  PROVE  \E m \in S : \A k \in S : m <= k
  <1>1. IsWellFoundedOn(Less, Nat)
    BY NatLessThanWellFounded DEF Less, OpToRel
  <1>2. PICK m \in S : \A k \in S : <<k, m>> \notin Less
    BY <1>1, WFMin
  <1>3. \A k, n \in Nat : <<k, n>> \in Less <=> k < n
    BY DEF Less
  <1>4. \A k \in S : ~ (k < m)
    BY <1>2, <1>3
  <1> QED
    BY <1>4

-----------------------------------------------------------------------------
(***************************************************************************)
(* The recursive definitions.  Each is a function on heights, whose value  *)
(* at n is made of the one at n - 1 by a step; it is solved on 0 .. m for  *)
(* every m, since the least m without a solution would have one.           *)
(***************************************************************************)
\* JSON values.
JsonsStep(n, prev) ==
  IF n = 0 THEN Scalar
  ELSE Scalar \cup [array : Seq(prev)] \cup [object : Members(prev)]

IsJsons(f, m) == f = [n \in 0 .. m |-> JsonsStep(n, f[n - 1])]

\* At height 0 there are scalars only.
LEMMA JsonsBase == \A p, q : JsonsStep(0, p) = JsonsStep(0, q)
  BY DEF JsonsStep

\* The recursive definition of JsonUpTo has a solution.
LEMMA JsonsExists == \E f : IsJsons(f, MaxHeight)
  <1> DEFINE Bad == {m \in 0 .. MaxHeight : ~ \E f : IsJsons(f, m)}
  <1>1. ASSUME NEW m \in Bad, \A k \in Bad : m <= k
        PROVE  FALSE
    <2>1. m # 0
      <3>1. IsJsons([n \in 0 .. 0 |-> JsonsStep(0, 0)], 0)
        BY JsonsBase DEF IsJsons
      <3> QED
        BY <1>1, <3>1
    <2>2. PICK f : IsJsons(f, m - 1)
      <3>1. m - 1 \in 0 .. MaxHeight /\ ~ (m <= m - 1)
        BY <2>1, HeightAssumption
      <3> QED
        BY <1>1, <3>1
    <2> DEFINE longer == [n \in 0 .. m |-> IF n = m THEN JsonsStep(m, f[m - 1]) ELSE f[n]]
    <2>3. ASSUME NEW n \in 0 .. m
          PROVE  longer[n] = JsonsStep(n, longer[n - 1])
      <3>1. CASE n = m
        BY <2>1, <3>1
      <3>2. CASE n # m
        <4>1. n \in 0 .. m - 1 /\ longer[n] = f[n]
          BY <3>2
        <4>2. f[n] = JsonsStep(n, f[n - 1])
          BY <2>2, <4>1 DEF IsJsons
        <4>3. n # 0 => longer[n - 1] = f[n - 1]
          BY <3>2
        <4> QED
          BY <4>1, <4>2, <4>3, JsonsBase
      <3> QED
        BY <3>1, <3>2
    <2>4. IsJsons(longer, m)
      BY <2>3 DEF IsJsons
    <2> QED
      BY <1>1, <2>4
  <1>2. Bad \in SUBSET Nat
    BY HeightAssumption
  <1>3. Bad = {}
    BY <1>1, <1>2, LeastNumber
  <1> QED
    BY <1>3, HeightAssumption

\* What JsonUpTo is at each height.
LEMMA JsonsEquation == \A n \in 0 .. MaxHeight : JsonUpTo[n] = JsonsStep(n, JsonUpTo[n - 1])
  <1>1. IsJsons(JsonUpTo, MaxHeight)
    BY JsonsExists DEF IsJsons, JsonUpTo, JsonsStep
  <1> QED
    BY <1>1 DEF IsJsons

\* Object assertions.
AssertionsStep(n, prev) == Assertion(IF n = 0 THEN {} ELSE prev)

IsAssertions(f, m) == f = [n \in 0 .. m |-> AssertionsStep(n, f[n - 1])]

\* At height 0 nothing is nested.
LEMMA AssertionsBase == \A p, q : AssertionsStep(0, p) = AssertionsStep(0, q)
  BY DEF AssertionsStep

\* The recursive definition of AssertionUpTo has a solution.
LEMMA AssertionsExists == \E f : IsAssertions(f, MaxHeight)
  <1> DEFINE Bad == {m \in 0 .. MaxHeight : ~ \E f : IsAssertions(f, m)}
  <1>1. ASSUME NEW m \in Bad, \A k \in Bad : m <= k
        PROVE  FALSE
    <2>1. m # 0
      <3>1. IsAssertions([n \in 0 .. 0 |-> AssertionsStep(0, 0)], 0)
        BY AssertionsBase DEF IsAssertions
      <3> QED
        BY <1>1, <3>1
    <2>2. PICK f : IsAssertions(f, m - 1)
      <3>1. m - 1 \in 0 .. MaxHeight /\ ~ (m <= m - 1)
        BY <2>1, HeightAssumption
      <3> QED
        BY <1>1, <3>1
    <2> DEFINE longer == [n \in 0 .. m |-> IF n = m THEN AssertionsStep(m, f[m - 1]) ELSE f[n]]
    <2>3. ASSUME NEW n \in 0 .. m
          PROVE  longer[n] = AssertionsStep(n, longer[n - 1])
      <3>1. CASE n = m
        BY <2>1, <3>1
      <3>2. CASE n # m
        <4>1. n \in 0 .. m - 1 /\ longer[n] = f[n]
          BY <3>2
        <4>2. f[n] = AssertionsStep(n, f[n - 1])
          BY <2>2, <4>1 DEF IsAssertions
        <4>3. n # 0 => longer[n - 1] = f[n - 1]
          BY <3>2
        <4> QED
          BY <4>1, <4>2, <4>3, AssertionsBase
      <3> QED
        BY <3>1, <3>2
    <2>4. IsAssertions(longer, m)
      BY <2>3 DEF IsAssertions
    <2> QED
      BY <1>1, <2>4
  <1>2. Bad \in SUBSET Nat
    BY HeightAssumption
  <1>3. Bad = {}
    BY <1>1, <1>2, LeastNumber
  <1> QED
    BY <1>3, HeightAssumption

\* What AssertionUpTo is at each height.
LEMMA AssertionsEquation == \A n \in 0 .. MaxHeight : AssertionUpTo[n] = AssertionsStep(n, AssertionUpTo[n - 1])
  <1>1. IsAssertions(AssertionUpTo, MaxHeight)
    BY AssertionsExists DEF IsAssertions, AssertionUpTo, AssertionsStep
  <1> QED
    BY <1>1 DEF IsAssertions

\* The kind of a value is the name of its field.
LEMMA KindOfRecord ==
  ASSUME NEW v, NEW k, DOMAIN v = {k}
  PROVE  KindOf(v) = k
  BY DEF KindOf

\* What a value of each height looks like.
LEMMA JsonForms ==
  ASSUME NEW n \in 0 .. MaxHeight, NEW v \in JsonUpTo[n]
  PROVE  \/ KindOf(v) = "null" /\ v = [null |-> TRUE]
         \/ KindOf(v) = "boolean" /\ v = [boolean |-> v.boolean] /\ v.boolean \in BOOLEAN
         \/ KindOf(v) = "string" /\ v = [string |-> v.string]
         \/ KindOf(v) = "integer" /\ v.integer \in Int
         \/ KindOf(v) = "float" /\ v.float \in Floats
         \/ /\ KindOf(v) = "array"
            /\ n - 1 \in 0 .. MaxHeight
            /\ v.array \in Seq(JsonUpTo[n - 1])
         \/ /\ KindOf(v) = "object"
            /\ n - 1 \in 0 .. MaxHeight
            /\ v.object \in Members(JsonUpTo[n - 1])
  <1>1. v \in JsonsStep(n, JsonUpTo[n - 1])
    BY JsonsEquation
  <1>2. CASE v \in [null : {TRUE}]
    <2>1. DOMAIN v = {"null"} /\ v = [null |-> TRUE]
      BY <1>2
    <2> QED
      BY <2>1, KindOfRecord
  <1>3. CASE v \in [boolean : BOOLEAN]
    <2>1. DOMAIN v = {"boolean"} /\ v = [boolean |-> v.boolean] /\ v.boolean \in BOOLEAN
      BY <1>3
    <2> QED
      BY <2>1, KindOfRecord
  <1>4. CASE v \in [string : STRING]
    <2>1. DOMAIN v = {"string"} /\ v = [string |-> v.string]
      BY <1>4
    <2> QED
      BY <2>1, KindOfRecord
  <1>5. CASE v \in [integer : Int]
    <2>1. DOMAIN v = {"integer"} /\ v.integer \in Int
      BY <1>5
    <2> QED
      BY <2>1, KindOfRecord
  <1>6. CASE v \in [float : Floats]
    <2>1. DOMAIN v = {"float"} /\ v.float \in Floats
      BY <1>6
    <2> QED
      BY <2>1, KindOfRecord
  <1>7. n # 0 => n - 1 \in 0 .. MaxHeight
    BY HeightAssumption
  <1>8. CASE n # 0 /\ v \in [array : Seq(JsonUpTo[n - 1])]
    <2>1. DOMAIN v = {"array"} /\ v.array \in Seq(JsonUpTo[n - 1])
      BY <1>8
    <2> QED
      BY <1>7, <1>8, <2>1, KindOfRecord
  <1>9. CASE n # 0 /\ v \in [object : Members(JsonUpTo[n - 1])]
    <2>1. DOMAIN v = {"object"} /\ v.object \in Members(JsonUpTo[n - 1])
      BY <1>9
    <2> QED
      BY <1>7, <1>9, <2>1, KindOfRecord
  <1> QED
    BY <1>1, <1>2, <1>3, <1>4, <1>5, <1>6, <1>8, <1>9 DEF JsonsStep, Scalar

\* A sequence over a set is one over a larger set.
LEMMA HigherSeq ==
  ASSUME NEW S, NEW T, S \subseteq T
  PROVE  Seq(S) \subseteq Seq(T)
  OBVIOUS

\* A value is one of the next height, too.
LEMMA HigherJson == \A n \in 0 .. MaxHeight : JsonUpTo[n] \subseteq Json
  <1> DEFINE Bad == {m \in 0 .. MaxHeight : m # MaxHeight /\ ~ JsonUpTo[m] \subseteq JsonUpTo[m + 1]}
  <1>1. ASSUME NEW m \in Bad, \A k \in Bad : m <= k
        PROVE  FALSE
    <2>1. m + 1 \in 0 .. MaxHeight /\ m + 1 # 0 /\ m + 1 - 1 = m
      BY HeightAssumption
    <2>2. JsonUpTo[m + 1] = Scalar \cup [array : Seq(JsonUpTo[m])] \cup [object : Members(JsonUpTo[m])]
      <3>1. JsonUpTo[m + 1] = JsonsStep(m + 1, JsonUpTo[m + 1 - 1])
        BY <2>1, JsonsEquation
      <3> QED
        BY <2>1, <3>1 DEF JsonsStep
    <2>3. CASE m = 0
      <3>1. JsonUpTo[m] = Scalar
        BY <2>3, JsonsEquation DEF JsonsStep
      <3> QED
        BY <2>2, <3>1
    <2>4. CASE m # 0
      <3>1. m - 1 \in 0 .. MaxHeight /\ m - 1 # MaxHeight /\ ~ (m <= m - 1) /\ m - 1 + 1 = m
        BY <2>4, HeightAssumption
      <3>2. JsonUpTo[m - 1] \subseteq JsonUpTo[m]
        BY <1>1, <3>1
      <3>3. JsonUpTo[m] = Scalar \cup [array : Seq(JsonUpTo[m - 1])] \cup [object : Members(JsonUpTo[m - 1])]
        BY <2>4, JsonsEquation DEF JsonsStep
      <3>4. Seq(JsonUpTo[m - 1]) \subseteq Seq(JsonUpTo[m])
        BY <3>2, HigherSeq
      <3>5. Members(JsonUpTo[m - 1]) \subseteq Members(JsonUpTo[m])
        <4> DEFINE lower == [key : STRING, value : JsonUpTo[m - 1]]
                   higher == [key : STRING, value : JsonUpTo[m]]
        <4>2. lower \subseteq higher
          BY <3>2
        <4>1. Seq(lower) \subseteq Seq(higher)
          <5> HIDE DEF lower, higher
          <5> QED
            BY <4>2, HigherSeq
        <4> QED
          BY <4>1 DEF Members
      <3> QED
        BY <2>2, <3>3, <3>4, <3>5
    <2> QED
      BY <2>3, <2>4
  <1>2. Bad \in SUBSET Nat
    BY HeightAssumption
  <1>3. \A m \in 0 .. MaxHeight : m # MaxHeight => JsonUpTo[m] \subseteq JsonUpTo[m + 1]
    BY <1>1, <1>2, LeastNumber
  <1> DEFINE Far == {d \in 0 .. MaxHeight : ~ JsonUpTo[MaxHeight - d] \subseteq Json}
  <1>4. ASSUME NEW d \in Far, \A k \in Far : d <= k
        PROVE  FALSE
    <2>1. d # 0
      BY HeightAssumption DEF Json
    <2>2. d - 1 \in 0 .. MaxHeight /\ ~ (d <= d - 1) /\ MaxHeight - d + 1 = MaxHeight - (d - 1)
          /\ MaxHeight - d \in 0 .. MaxHeight /\ MaxHeight - d # MaxHeight
      BY <2>1, HeightAssumption
    <2>3. JsonUpTo[MaxHeight - (d - 1)] \subseteq Json
      BY <1>4, <2>2
    <2>4. JsonUpTo[MaxHeight - d] \subseteq JsonUpTo[MaxHeight - d + 1]
      BY <1>3, <2>2
    <2> QED
      BY <2>2, <2>3, <2>4
  <1>5. Far \in SUBSET Nat
    BY HeightAssumption
  <1>6. Far = {}
    BY <1>4, <1>5, LeastNumber
  <1>7. ASSUME NEW n \in 0 .. MaxHeight
        PROVE  JsonUpTo[n] \subseteq Json
    <2>1. MaxHeight - n \in 0 .. MaxHeight /\ MaxHeight - (MaxHeight - n) = n
      BY HeightAssumption
    <2> QED
      BY <1>6, <2>1
  <1> QED
    BY <1>7

-----------------------------------------------------------------------------
(***************************************************************************)
(* The children of a value.                                                *)
(***************************************************************************)
\* What is not there has no kind that JSON has, and nothing below it.
LEMMA MissingForm == KindOf(Missing) = "missing" /\ Segments(Missing) = {}
  <1>1. KindOf(Missing) = "missing"
    <2>1. DOMAIN Missing = {"missing"}
      BY DEF Missing
    <2> QED
      BY <2>1, KindOfRecord
  <1> QED
    BY <1>1 DEF Segments

\* A value is never Missing.
LEMMA JsonIsThere == \A n \in 0 .. MaxHeight : \A v \in JsonUpTo[n] : v # Missing
  <1>1. ASSUME NEW n \in 0 .. MaxHeight, NEW v \in JsonUpTo[n], v = Missing
        PROVE  FALSE
    <2>1. KindOf(v) = "missing"
      BY <1>1, MissingForm
    <2> QED
      BY <2>1, JsonForms
  <1> QED
    BY <1>1

\* The child of an object at the key of a member is its value.
LEMMA MemberChild ==
  ASSUME NEW n \in 0 .. MaxHeight, NEW v \in JsonUpTo[n], KindOf(v) = "object",
         NEW i \in DOMAIN v.object
  PROVE  /\ Key(v.object[i].key) \in Segments(v)
         /\ Child(v, Key(v.object[i].key)) = v.object[i].value
         /\ Child(v, Key(v.object[i].key)) \in JsonUpTo[n - 1]
         /\ Key(v.object[i].key) \in [key : STRING] \cup [index : Nat]
  <1>1. n - 1 \in 0 .. MaxHeight /\ v.object \in Members(JsonUpTo[n - 1])
    BY JsonForms
  <1>2. v.object \in Seq([key : STRING, value : JsonUpTo[n - 1]])
    BY <1>1 DEF Members
  <1>3. v.object[i] \in [key : STRING, value : JsonUpTo[n - 1]]
    <2> DEFINE member == [key : STRING, value : JsonUpTo[n - 1]]
    <2>1. v.object \in Seq(member)
      BY <1>2
    <2>2. v.object[i] \in member
      <3> HIDE DEF member
      <3> QED
        BY <2>1
    <2> QED
      BY <2>2
  <1>4. Key(v.object[i].key) \in Segments(v)
    BY DEF Segments
  <1> DEFINE j == CHOOSE j \in DOMAIN v.object : v.object[j].key = Key(v.object[i].key).key
  <1>5. j \in DOMAIN v.object /\ v.object[j].key = v.object[i].key
    BY DEF Key
  <1>6. j = i
    BY <1>1, <1>5 DEF Members
  <1>7. Child(v, Key(v.object[i].key)) = v.object[j].value
    BY <1>4 DEF Child
  <1> QED
    BY <1>3, <1>4, <1>6, <1>7 DEF Key

\* The child of an array at a position is the item there.
LEMMA ItemChild ==
  ASSUME NEW n \in 0 .. MaxHeight, NEW v \in JsonUpTo[n], KindOf(v) = "array",
         NEW i \in DOMAIN v.array
  PROVE  /\ Index(i) \in Segments(v)
         /\ Child(v, Index(i)) = v.array[i]
         /\ Child(v, Index(i)) \in JsonUpTo[n - 1]
         /\ Index(i) \in [key : STRING] \cup [index : Nat]
  <1>1. n - 1 \in 0 .. MaxHeight /\ v.array \in Seq(JsonUpTo[n - 1])
    BY JsonForms
  <1>2. i \in 1 .. Len(v.array) /\ v.array[i] \in JsonUpTo[n - 1]
    BY <1>1
  <1>3. Index(i) \in Segments(v)
    BY DEF Segments
  <1>4. Child(v, Index(i)) = v.array[Index(i).index + 1]
    BY <1>3 DEF Child
  <1>5. Index(i).index + 1 = i /\ Index(i).index \in Nat
    BY <1>2 DEF Index
  <1> QED
    BY <1>2, <1>3, <1>4, <1>5 DEF Index

\* The children of a value are values of the height below.
LEMMA ChildForm ==
  ASSUME NEW n \in 0 .. MaxHeight, NEW v \in JsonUpTo[n], NEW s \in Segments(v)
  PROVE  /\ n - 1 \in 0 .. MaxHeight
         /\ Child(v, s) \in JsonUpTo[n - 1]
         /\ Child(v, s) \in Json
         /\ s \in [key : STRING] \cup [index : Nat]
  <1>1. KindOf(v) \in {"object", "array"}
    BY DEF Segments
  <1>2. n - 1 \in 0 .. MaxHeight
    BY <1>1, JsonForms
  <1>3. CASE KindOf(v) = "object"
    <2>1. PICK i \in DOMAIN v.object : s = Key(v.object[i].key)
      BY <1>3 DEF Segments
    <2> QED
      BY <1>2, <1>3, <2>1, MemberChild, HigherJson
  <1>4. CASE KindOf(v) = "array"
    <2>1. PICK i \in DOMAIN v.array : s = Index(i)
      BY <1>4 DEF Segments
    <2> QED
      BY <1>2, <1>4, <2>1, ItemChild, HigherJson
  <1> QED
    BY <1>1, <1>3, <1>4

\* Elsewhere there is nothing.
LEMMA NoChild == \A v, s : s \notin Segments(v) => Child(v, s) = Missing
  BY DEF Child

\* At height 0 nothing has children.
LEMMA FlatValues == \A v \in JsonUpTo[0] : Segments(v) = {} /\ ~ IsStructured(v)
  <1>1. ASSUME NEW v \in JsonUpTo[0]
        PROVE  KindOf(v) \notin {"object", "array"}
    <2>1. 0 \in 0 .. MaxHeight /\ ~ (0 - 1 \in 0 .. MaxHeight)
      BY HeightAssumption
    <2> QED
      BY <2>1, JsonForms
  <1> QED
    BY <1>1 DEF Segments, IsStructured

\* The paths of a value.
PathsStep(n, prev) ==
  [v \in JsonUpTo[n] |->
     {<<>>} \cup (UNION {{<<s>> \o p : p \in prev[Child(v, s)]} : s \in Segments(v)})]

IsPaths(f, m) == f = [n \in 0 .. m |-> PathsStep(n, f[n - 1])]

\* A scalar has the empty path only.
LEMMA PathsBase == \A p, q : PathsStep(0, p) = PathsStep(0, q)
  BY FlatValues DEF PathsStep

\* The recursive definition of PathsUpTo has a solution.
LEMMA PathsExists == \E f : IsPaths(f, MaxHeight)
  <1> DEFINE Bad == {m \in 0 .. MaxHeight : ~ \E f : IsPaths(f, m)}
  <1>1. ASSUME NEW m \in Bad, \A k \in Bad : m <= k
        PROVE  FALSE
    <2>1. m # 0
      <3>1. IsPaths([n \in 0 .. 0 |-> PathsStep(0, 0)], 0)
        BY PathsBase DEF IsPaths
      <3> QED
        BY <1>1, <3>1
    <2>2. PICK f : IsPaths(f, m - 1)
      <3>1. m - 1 \in 0 .. MaxHeight /\ ~ (m <= m - 1)
        BY <2>1, HeightAssumption
      <3> QED
        BY <1>1, <3>1
    <2> DEFINE longer == [n \in 0 .. m |-> IF n = m THEN PathsStep(m, f[m - 1]) ELSE f[n]]
    <2>3. ASSUME NEW n \in 0 .. m
          PROVE  longer[n] = PathsStep(n, longer[n - 1])
      <3>1. CASE n = m
        BY <2>1, <3>1
      <3>2. CASE n # m
        <4>1. n \in 0 .. m - 1 /\ longer[n] = f[n]
          BY <3>2
        <4>2. f[n] = PathsStep(n, f[n - 1])
          BY <2>2, <4>1 DEF IsPaths
        <4>3. n # 0 => longer[n - 1] = f[n - 1]
          BY <3>2
        <4> QED
          BY <4>1, <4>2, <4>3, PathsBase
      <3> QED
        BY <3>1, <3>2
    <2>4. IsPaths(longer, m)
      BY <2>3 DEF IsPaths
    <2> QED
      BY <1>1, <2>4
  <1>2. Bad \in SUBSET Nat
    BY HeightAssumption
  <1>3. Bad = {}
    BY <1>1, <1>2, LeastNumber
  <1> QED
    BY <1>3, HeightAssumption

\* What PathsUpTo is at each height.
LEMMA PathsEquation == \A n \in 0 .. MaxHeight : PathsUpTo[n] = PathsStep(n, PathsUpTo[n - 1])
  <1>1. IsPaths(PathsUpTo, MaxHeight)
    BY PathsExists DEF IsPaths, PathsUpTo, PathsStep
  <1> QED
    BY <1>1 DEF IsPaths

\* Comparisons.
ComparesStep(n, prev) ==
  [c \in Comparison(n) |->
     IF ~ TypeMatches(c) THEN Fails(c.path, "TypeMismatch")
     ELSE IF IsStructured(c.expected) /\ c.depth > MaxDepth THEN Fails(c.path, "InvalidBody")
     ELSE IF KindOf(c.expected) = "object"
     THEN InTurn([i \in DOMAIN c.expected.object |->
                    LET s == Key(c.expected.object[i].key)
                    IN IF s \in Segments(c.actual) THEN prev[Below(c, s)]
                       ELSE Fails(Append(c.path, s), "MissingField")])
     ELSE IF KindOf(c.expected) = "array"
     THEN InTurn(<<Requires(Len(c.expected.array) = Len(c.actual.array),
                            c.path, "ValueMismatch")>>
                   \o [i \in Common(c) |-> prev[Below(c, Index(i))]])
     ELSE IF IsNumber(c.expected)
     THEN Requires(NumbersEqual(c.expected, c.actual), c.path, "ValueMismatch")
     ELSE Requires(c.expected = c.actual, c.path, "ValueMismatch")]

IsCompares(f, m) == f = [n \in 0 .. m |-> ComparesStep(n, f[n - 1])]

\* Scalars are compared without what is below them.
LEMMA ComparesBase == \A p, q : ComparesStep(0, p) = ComparesStep(0, q)
  <1>1. ASSUME NEW c \in Comparison(0)
        PROVE  KindOf(c.expected) \notin {"object", "array"}
    BY FlatValues DEF Comparison, IsStructured
  <1> QED
    BY <1>1 DEF ComparesStep

\* The recursive definition of CompareUpTo has a solution.
LEMMA ComparesExists == \E f : IsCompares(f, MaxHeight)
  <1> DEFINE Bad == {m \in 0 .. MaxHeight : ~ \E f : IsCompares(f, m)}
  <1>1. ASSUME NEW m \in Bad, \A k \in Bad : m <= k
        PROVE  FALSE
    <2>1. m # 0
      <3>1. IsCompares([n \in 0 .. 0 |-> ComparesStep(0, 0)], 0)
        BY ComparesBase DEF IsCompares
      <3> QED
        BY <1>1, <3>1
    <2>2. PICK f : IsCompares(f, m - 1)
      <3>1. m - 1 \in 0 .. MaxHeight /\ ~ (m <= m - 1)
        BY <2>1, HeightAssumption
      <3> QED
        BY <1>1, <3>1
    <2> DEFINE longer == [n \in 0 .. m |-> IF n = m THEN ComparesStep(m, f[m - 1]) ELSE f[n]]
    <2>3. ASSUME NEW n \in 0 .. m
          PROVE  longer[n] = ComparesStep(n, longer[n - 1])
      <3>1. CASE n = m
        BY <2>1, <3>1
      <3>2. CASE n # m
        <4>1. n \in 0 .. m - 1 /\ longer[n] = f[n]
          BY <3>2
        <4>2. f[n] = ComparesStep(n, f[n - 1])
          BY <2>2, <4>1 DEF IsCompares
        <4>3. n # 0 => longer[n - 1] = f[n - 1]
          BY <3>2
        <4> QED
          BY <4>1, <4>2, <4>3, ComparesBase
      <3> QED
        BY <3>1, <3>2
    <2>4. IsCompares(longer, m)
      BY <2>3 DEF IsCompares
    <2> QED
      BY <1>1, <2>4
  <1>2. Bad \in SUBSET Nat
    BY HeightAssumption
  <1>3. Bad = {}
    BY <1>1, <1>2, LeastNumber
  <1> QED
    BY <1>3, HeightAssumption

\* What CompareUpTo is at each height.
LEMMA ComparesEquation == \A n \in 0 .. MaxHeight : CompareUpTo[n] = ComparesStep(n, CompareUpTo[n - 1])
  <1>1. IsCompares(CompareUpTo, MaxHeight)
    BY ComparesExists DEF IsCompares, CompareUpTo, ComparesStep
  <1> QED
    BY <1>1 DEF IsCompares

-----------------------------------------------------------------------------
(***************************************************************************)
(* The fields of an assertion.                                             *)
(***************************************************************************)
\* What a field of each height looks like.
LEMMA FieldForms ==
  ASSUME NEW n \in 0 .. MaxHeight, NEW a \in AssertionUpTo[n], NEW i \in DOMAIN a.fields
  PROVE  /\ a.mode \in {"partial", "exact"}
         /\ DOMAIN a.fields = 1 .. Len(a.fields) /\ Len(a.fields) \in Nat
         /\ a.fields[i].name \in STRING
         /\ a.fields[i].type \in Types
         /\ a.fields[i].value \in Seq(Json)
         /\ a.fields[i].nested # <<>> =>
              n - 1 \in 0 .. MaxHeight /\ a.fields[i].nested[1] \in AssertionUpTo[n - 1]
         /\ a.fields[i].capture # <<>> => a.fields[i].capture[1] \in STRING
         /\ \A j \in DOMAIN a.fields : a.fields[i].name = a.fields[j].name => i = j
  <1> DEFINE nested == IF n = 0 THEN {} ELSE AssertionUpTo[n - 1]
             field == [name : STRING, type : Types, value : Optional(Json),
                       nested : Optional(nested), capture : Optional(STRING)]
  <1>1. a \in Assertion(nested)
    BY AssertionsEquation DEF AssertionsStep
  <1>2. a.mode \in {"partial", "exact"} /\ a.fields \in Seq(field)
    BY <1>1 DEF Assertion
  <1>3. a.fields[i] \in field
    <2> HIDE DEF field
    <2> QED
      BY <1>2
  <1>4. DOMAIN a.fields = 1 .. Len(a.fields) /\ Len(a.fields) \in Nat
    BY <1>2
  <1>5. /\ a.fields[i].name \in STRING /\ a.fields[i].type \in Types
        /\ a.fields[i].value \in Seq(Json) /\ a.fields[i].nested \in Seq(nested)
        /\ a.fields[i].capture \in Seq(STRING)
    BY <1>3 DEF Optional
  <1>6. a.fields[i].capture # <<>> => a.fields[i].capture[1] \in STRING
    <2> DEFINE capture == a.fields[i].capture
    <2> HIDE DEF capture
    <2>1. capture \in Seq(STRING)
      BY <1>5 DEF capture
    <2>2. capture # <<>> => capture[1] \in STRING
      BY <2>1
    <2> QED
      BY <2>2 DEF capture
  <1>7. ASSUME a.fields[i].nested # <<>>
        PROVE  n - 1 \in 0 .. MaxHeight /\ a.fields[i].nested[1] \in AssertionUpTo[n - 1]
    <2>1. a.fields[i].nested[1] \in nested
      <3> HIDE DEF nested
      <3> QED
        BY <1>5, <1>7
    <2>2. n # 0
      BY <2>1
    <2> QED
      BY <2>1, <2>2, HeightAssumption
  <1>8. \A j \in DOMAIN a.fields : a.fields[i].name = a.fields[j].name => i = j
    BY <1>1 DEF Assertion
  <1> QED
    BY <1>2, <1>4, <1>5, <1>6, <1>7, <1>8

\* At height 0 nothing is nested.
LEMMA FlatFields ==
  \A a \in AssertionUpTo[0] : \A i \in DOMAIN a.fields : a.fields[i].nested = <<>>
  <1>1. 0 \in 0 .. MaxHeight /\ ~ (0 - 1 \in 0 .. MaxHeight)
    BY HeightAssumption
  <1> QED
    BY <1>1, FieldForms

\* Object assertions.
PlacesStep(n, prev) ==
  [place \in Place(n) |->
     IF place.depth > MaxDepth THEN Fails(place.path, "InvalidBody")
     ELSE InTurn(
       [i \in DOMAIN place.assertion.fields |->
          IF FieldKey(place, i) \notin Segments(place.actual)
          THEN Fails(FieldPath(place, i), "MissingField")
          ELSE IF ~ HasType(FieldValue(place, i), FieldOf(place, i).type)
          THEN Fails(FieldPath(place, i), "TypeMismatch")
          ELSE InTurn(FieldComparison(place, i)
                        \o IF FieldOf(place, i).nested = <<>>
                                \/ KindOf(FieldValue(place, i)) # "object"
                           THEN <<>>
                           ELSE <<prev[Nested(place, i)]>>)]
       \o UnexpectedFields(place))]

IsPlaces(f, m) == f = [n \in 0 .. m |-> PlacesStep(n, f[n - 1])]

\* A flat assertion is evaluated without another one.
LEMMA PlacesBase == \A p, q : PlacesStep(0, p) = PlacesStep(0, q)
  <1>1. ASSUME NEW place \in Place(0), NEW i \in DOMAIN place.assertion.fields
        PROVE  FieldOf(place, i).nested = <<>>
    BY FlatFields DEF Place, FieldOf
  <1> QED
    BY <1>1 DEF PlacesStep

\* The recursive definition of AssertObjectUpTo has a solution.
LEMMA PlacesExists == \E f : IsPlaces(f, MaxHeight)
  <1> DEFINE Bad == {m \in 0 .. MaxHeight : ~ \E f : IsPlaces(f, m)}
  <1>1. ASSUME NEW m \in Bad, \A k \in Bad : m <= k
        PROVE  FALSE
    <2>1. m # 0
      <3>1. IsPlaces([n \in 0 .. 0 |-> PlacesStep(0, 0)], 0)
        BY PlacesBase DEF IsPlaces
      <3> QED
        BY <1>1, <3>1
    <2>2. PICK f : IsPlaces(f, m - 1)
      <3>1. m - 1 \in 0 .. MaxHeight /\ ~ (m <= m - 1)
        BY <2>1, HeightAssumption
      <3> QED
        BY <1>1, <3>1
    <2> DEFINE longer == [n \in 0 .. m |-> IF n = m THEN PlacesStep(m, f[m - 1]) ELSE f[n]]
    <2>3. ASSUME NEW n \in 0 .. m
          PROVE  longer[n] = PlacesStep(n, longer[n - 1])
      <3>1. CASE n = m
        BY <2>1, <3>1
      <3>2. CASE n # m
        <4>1. n \in 0 .. m - 1 /\ longer[n] = f[n]
          BY <3>2
        <4>2. f[n] = PlacesStep(n, f[n - 1])
          BY <2>2, <4>1 DEF IsPlaces
        <4>3. n # 0 => longer[n - 1] = f[n - 1]
          BY <3>2
        <4> QED
          BY <4>1, <4>2, <4>3, PlacesBase
      <3> QED
        BY <3>1, <3>2
    <2>4. IsPlaces(longer, m)
      BY <2>3 DEF IsPlaces
    <2> QED
      BY <1>1, <2>4
  <1>2. Bad \in SUBSET Nat
    BY HeightAssumption
  <1>3. Bad = {}
    BY <1>1, <1>2, LeastNumber
  <1> QED
    BY <1>3, HeightAssumption

\* What AssertObjectUpTo is at each height.
LEMMA PlacesEquation == \A n \in 0 .. MaxHeight : AssertObjectUpTo[n] = PlacesStep(n, AssertObjectUpTo[n - 1])
  <1>1. IsPlaces(AssertObjectUpTo, MaxHeight)
    BY PlacesExists DEF IsPlaces, AssertObjectUpTo, PlacesStep
  <1> QED
    BY <1>1 DEF IsPlaces

\* Nested assertions.
ScopesStep(n, prev) ==
  [a \in AssertionUpTo[n] |->
     {[path |-> <<>>, assertion |-> a]}
       \cup (UNION {IF a.fields[i].nested = <<>> THEN {}
                    ELSE Under(a.fields[i].name, prev[a.fields[i].nested[1]]) :
                      i \in DOMAIN a.fields})]

IsScopes(f, m) == f = [n \in 0 .. m |-> ScopesStep(n, f[n - 1])]

\* A flat assertion is its only scope.
LEMMA ScopesBase == \A p, q : ScopesStep(0, p) = ScopesStep(0, q)
  BY FlatFields DEF ScopesStep

\* The recursive definition of ScopesUpTo has a solution.
LEMMA ScopesExists == \E f : IsScopes(f, MaxHeight)
  <1> DEFINE Bad == {m \in 0 .. MaxHeight : ~ \E f : IsScopes(f, m)}
  <1>1. ASSUME NEW m \in Bad, \A k \in Bad : m <= k
        PROVE  FALSE
    <2>1. m # 0
      <3>1. IsScopes([n \in 0 .. 0 |-> ScopesStep(0, 0)], 0)
        BY ScopesBase DEF IsScopes
      <3> QED
        BY <1>1, <3>1
    <2>2. PICK f : IsScopes(f, m - 1)
      <3>1. m - 1 \in 0 .. MaxHeight /\ ~ (m <= m - 1)
        BY <2>1, HeightAssumption
      <3> QED
        BY <1>1, <3>1
    <2> DEFINE longer == [n \in 0 .. m |-> IF n = m THEN ScopesStep(m, f[m - 1]) ELSE f[n]]
    <2>3. ASSUME NEW n \in 0 .. m
          PROVE  longer[n] = ScopesStep(n, longer[n - 1])
      <3>1. CASE n = m
        BY <2>1, <3>1
      <3>2. CASE n # m
        <4>1. n \in 0 .. m - 1 /\ longer[n] = f[n]
          BY <3>2
        <4>2. f[n] = ScopesStep(n, f[n - 1])
          BY <2>2, <4>1 DEF IsScopes
        <4>3. n # 0 => longer[n - 1] = f[n - 1]
          BY <3>2
        <4> QED
          BY <4>1, <4>2, <4>3, ScopesBase
      <3> QED
        BY <3>1, <3>2
    <2>4. IsScopes(longer, m)
      BY <2>3 DEF IsScopes
    <2> QED
      BY <1>1, <2>4
  <1>2. Bad \in SUBSET Nat
    BY HeightAssumption
  <1>3. Bad = {}
    BY <1>1, <1>2, LeastNumber
  <1> QED
    BY <1>3, HeightAssumption

\* What ScopesUpTo is at each height.
LEMMA ScopesEquation == \A n \in 0 .. MaxHeight : ScopesUpTo[n] = ScopesStep(n, ScopesUpTo[n - 1])
  <1>1. IsScopes(ScopesUpTo, MaxHeight)
    BY ScopesExists DEF IsScopes, ScopesUpTo, ScopesStep
  <1> QED
    BY <1>1 DEF IsScopes

\* Walks.
WalksStep(n, prev) ==
  [site \in Site(n) |->
     UntilError([i \in DOMAIN site.assertion.fields |-> [walk \in Walk |->
       IF FieldKey(site, i) \notin Segments(site.actual)
       THEN Failed(walk, "MissingCaptureField")
       ELSE LET taken == CaptureField(walk, site, i)
            IN IF taken.error # "none" \/ FieldOf(site, i).nested = <<>> THEN taken
               ELSE IF KindOf(FieldValue(site, i)) # "object"
               THEN Failed(taken, "InvalidNestedCaptureField")
               ELSE prev[SiteBelow(site, i)][taken]]])]

IsWalks(f, m) == f = [n \in 0 .. m |-> WalksStep(n, f[n - 1])]

\* A flat assertion is walked without another one.
LEMMA WalksBase == \A p, q : WalksStep(0, p) = WalksStep(0, q)
  <1>1. ASSUME NEW site \in Site(0), NEW i \in DOMAIN site.assertion.fields
        PROVE  FieldOf(site, i).nested = <<>>
    BY FlatFields DEF Site, FieldOf
  <1> QED
    BY <1>1 DEF WalksStep

\* The recursive definition of ExtractUpTo has a solution.
LEMMA WalksExists == \E f : IsWalks(f, MaxHeight)
  <1> DEFINE Bad == {m \in 0 .. MaxHeight : ~ \E f : IsWalks(f, m)}
  <1>1. ASSUME NEW m \in Bad, \A k \in Bad : m <= k
        PROVE  FALSE
    <2>1. m # 0
      <3>1. IsWalks([n \in 0 .. 0 |-> WalksStep(0, 0)], 0)
        BY WalksBase DEF IsWalks
      <3> QED
        BY <1>1, <3>1
    <2>2. PICK f : IsWalks(f, m - 1)
      <3>1. m - 1 \in 0 .. MaxHeight /\ ~ (m <= m - 1)
        BY <2>1, HeightAssumption
      <3> QED
        BY <1>1, <3>1
    <2> DEFINE longer == [n \in 0 .. m |-> IF n = m THEN WalksStep(m, f[m - 1]) ELSE f[n]]
    <2>3. ASSUME NEW n \in 0 .. m
          PROVE  longer[n] = WalksStep(n, longer[n - 1])
      <3>1. CASE n = m
        BY <2>1, <3>1
      <3>2. CASE n # m
        <4>1. n \in 0 .. m - 1 /\ longer[n] = f[n]
          BY <3>2
        <4>2. f[n] = WalksStep(n, f[n - 1])
          BY <2>2, <4>1 DEF IsWalks
        <4>3. n # 0 => longer[n - 1] = f[n - 1]
          BY <3>2
        <4> QED
          BY <4>1, <4>2, <4>3, WalksBase
      <3> QED
        BY <3>1, <3>2
    <2>4. IsWalks(longer, m)
      BY <2>3 DEF IsWalks
    <2> QED
      BY <1>1, <2>4
  <1>2. Bad \in SUBSET Nat
    BY HeightAssumption
  <1>3. Bad = {}
    BY <1>1, <1>2, LeastNumber
  <1> QED
    BY <1>3, HeightAssumption

\* What ExtractUpTo is at each height.
LEMMA WalksEquation == \A n \in 0 .. MaxHeight : ExtractUpTo[n] = WalksStep(n, ExtractUpTo[n - 1])
  <1>1. IsWalks(ExtractUpTo, MaxHeight)
    BY WalksExists DEF IsWalks, ExtractUpTo, WalksStep
  <1> QED
    BY <1>1 DEF IsWalks

-----------------------------------------------------------------------------
(***************************************************************************)
(* Going down a path.                                                      *)
(***************************************************************************)
IsDescent(f, v, path, m) == f = [n \in 0 .. m |-> IF n = 0 THEN v ELSE Child(f[n - 1], path[n])]

\* The values on the way down a path.
LEMMA DescentExists ==
  ASSUME NEW v, NEW path, NEW length \in Nat
  PROVE  \E f : IsDescent(f, v, path, length)
  <1> DEFINE Bad == {m \in 0 .. length : ~ \E f : IsDescent(f, v, path, m)}
  <1>1. ASSUME NEW m \in Bad, \A k \in Bad : m <= k
        PROVE  FALSE
    <2>1. m # 0
      <3>1. IsDescent([n \in 0 .. 0 |-> v], v, path, 0)
        BY DEF IsDescent
      <3> QED
        BY <1>1, <3>1
    <2>2. PICK f : IsDescent(f, v, path, m - 1)
      <3>1. m - 1 \in 0 .. length /\ ~ (m <= m - 1)
        BY <2>1
      <3> QED
        BY <1>1, <3>1
    <2> DEFINE last == Child(f[m - 1], path[m])
               longer == [n \in 0 .. m |-> IF n = m THEN last ELSE f[n]]
    <2>3. ASSUME NEW n \in 0 .. m
          PROVE  longer[n] = IF n = 0 THEN v ELSE Child(longer[n - 1], path[n])
      <3>1. CASE n = m
        BY <2>1, <3>1
      <3>2. CASE n # m
        <4>1. n \in 0 .. m - 1 /\ longer[n] = f[n]
          BY <3>2
        <4>2. f[n] = IF n = 0 THEN v ELSE Child(f[n - 1], path[n])
          BY <2>2, <4>1 DEF IsDescent
        <4>3. n # 0 => longer[n - 1] = f[n - 1]
          BY <3>2
        <4> QED
          BY <4>1, <4>2, <4>3
      <3> QED
        BY <3>1, <3>2
    <2> HIDE DEF last
    <2>4. IsDescent(longer, v, path, m)
      BY <2>3 DEF IsDescent
    <2> QED
      BY <1>1, <2>4
  <1>2. Bad \in SUBSET Nat
    OBVIOUS
  <1>3. Bad = {}
    BY <1>1, <1>2, LeastNumber
  <1> QED
    BY <1>3

\* There is one way down a path.
LEMMA DescentIsUnique ==
  ASSUME NEW v, NEW path, NEW length \in Nat, NEW f, NEW g,
         IsDescent(f, v, path, length), IsDescent(g, v, path, length)
  PROVE  \A n \in 0 .. length : f[n] = g[n]
  <1> DEFINE Bad == {m \in 0 .. length : f[m] # g[m]}
  <1>1. ASSUME NEW m \in Bad, \A k \in Bad : m <= k
        PROVE  FALSE
    <2>1. /\ f[m] = IF m = 0 THEN v ELSE Child(f[m - 1], path[m])
          /\ g[m] = IF m = 0 THEN v ELSE Child(g[m - 1], path[m])
      BY DEF IsDescent
    <2>2. m # 0
      BY <2>1
    <2>3. m - 1 \in 0 .. length /\ ~ (m <= m - 1)
      BY <2>2
    <2>4. f[m - 1] = g[m - 1]
      BY <1>1, <2>3
    <2> QED
      BY <2>1, <2>2, <2>4
  <1>2. Bad \in SUBSET Nat
    OBVIOUS
  <1>3. Bad = {}
    BY <1>1, <1>2, LeastNumber
  <1> QED
    BY <1>3

\* The value at a path is the last one of any descent.
LEMMA AtIsLast ==
  ASSUME NEW v, NEW path, Len(path) \in Nat, NEW f, IsDescent(f, v, path, Len(path))
  PROVE  At(v, path) = f[Len(path)]
  <1> DEFINE at == CHOOSE g : IsDescent(g, v, path, Len(path))
  <1>1. IsDescent(at, v, path, Len(path))
    BY DescentExists
  <1>2. At(v, path) = at[Len(path)]
    BY DEF At, IsDescent
  <1> HIDE DEF at
  <1>3. at[Len(path)] = f[Len(path)]
    BY <1>1, DescentIsUnique
  <1> QED
    BY <1>2, <1>3

\* The empty path leads nowhere.
LEMMA AtRoot == \A v : At(v, <<>>) = v
  <1>1. ASSUME NEW v
        PROVE  At(v, <<>>) = v
    <2>1. Len(<<>>) = 0
      OBVIOUS
    <2>2. IsDescent([n \in 0 .. 0 |-> v], v, <<>>, 0)
      BY DEF IsDescent
    <2>3. Len(<<>>) \in Nat /\ IsDescent([n \in 0 .. 0 |-> v], v, <<>>, Len(<<>>))
      BY <2>1, <2>2
    <2> QED
      BY <2>1, <2>3, AtIsLast
  <1> QED
    BY <1>1

\* A path of one segment leads to a child.
LEMMA AtChild == \A v, s : At(v, <<s>>) = Child(v, s)
  <1>1. ASSUME NEW v, NEW s
        PROVE  At(v, <<s>>) = Child(v, s)
    <2> DEFINE f == [n \in 0 .. 1 |-> IF n = 0 THEN v ELSE Child(v, s)]
    <2>1. Len(<<s>>) = 1 /\ Len(<<s>>) \in Nat /\ <<s>>[1] = s
      OBVIOUS
    <2>2. IsDescent(f, v, <<s>>, 1)
      <3>1. ASSUME NEW n \in 0 .. 1
            PROVE  f[n] = IF n = 0 THEN v ELSE Child(f[n - 1], <<s>>[n])
        <4>1. n = 0 \/ n = 1
          OBVIOUS
        <4> QED
          BY <2>1, <4>1
      <3> QED
        BY <3>1 DEF IsDescent
    <2>3. At(v, <<s>>) = f[1]
      BY <2>1, <2>2, AtIsLast
    <2> QED
      BY <2>3
  <1> QED
    BY <1>1

\* Down one path and then another.
LEMMA AtConcat ==
  ASSUME NEW v, NEW S, NEW p \in Seq(S), NEW q \in Seq(S)
  PROVE  At(v, p \o q) = At(At(v, p), q)
  <1> DEFINE first == Len(p)
             all == Len(p) + Len(q)
  <1>1. /\ Len(p) \in Nat /\ Len(q) \in Nat /\ Len(p \o q) = all
        /\ \A n \in 1 .. first : (p \o q)[n] = p[n]
        /\ \A n \in 1 .. all : n > first => (p \o q)[n] = q[n - first]
    OBVIOUS
  <1>2. PICK f : IsDescent(f, v, p, Len(p))
    BY <1>1, DescentExists
  <1>3. At(v, p) = f[Len(p)]
    BY <1>1, <1>2, AtIsLast
  <1>4. PICK g : IsDescent(g, At(v, p), q, Len(q))
    BY <1>1, DescentExists
  <1>5. At(At(v, p), q) = g[Len(q)]
    BY <1>1, <1>4, AtIsLast
  <1> DEFINE h == [n \in 0 .. all |-> IF n <= first THEN f[n] ELSE g[n - first]]
  <1>6. g[0] = f[first]
    BY <1>1, <1>3, <1>4 DEF IsDescent
  <1>7. ASSUME NEW n \in 0 .. all
        PROVE  h[n] = IF n = 0 THEN v ELSE Child(h[n - 1], (p \o q)[n])
    <2>1. CASE n = 0
      <3>1. h[n] = f[0] /\ 0 \in 0 .. Len(p)
        BY <1>1, <2>1
      <3> QED
        BY <1>2, <2>1, <3>1 DEF IsDescent
    <2>2. CASE n # 0 /\ n <= first
      <3>1. n \in 0 .. Len(p) /\ n - 1 \in 0 .. all /\ n - 1 <= first /\ n \in 1 .. first
        BY <1>1, <2>2
      <3>2. f[n] = Child(f[n - 1], p[n])
        BY <1>2, <2>2, <3>1 DEF IsDescent
      <3>3. h[n] = f[n] /\ h[n - 1] = f[n - 1]
        BY <2>2, <3>1
      <3> QED
        BY <1>1, <2>2, <3>1, <3>2, <3>3
    <2>3. CASE n > first
      <3>1. n - first \in 0 .. Len(q) /\ n - first # 0 /\ n \in 1 .. all /\ n - 1 \in 0 .. all
        BY <1>1, <2>3
      <3>2. g[n - first] = Child(g[n - first - 1], q[n - first])
        BY <1>4, <3>1 DEF IsDescent
      <3>3. h[n] = g[n - first]
        BY <1>1, <2>3
      <3>4. h[n - 1] = g[n - first - 1]
        <4>1. CASE n - 1 = first
          <5>1. h[n - 1] = f[first] /\ n - first - 1 = 0
            BY <1>1, <3>1, <4>1
          <5> QED
            BY <1>6, <5>1
        <4>2. CASE n - 1 # first
          <5>1. ~ (n - 1 <= first) /\ n - 1 - first = n - first - 1
            BY <1>1, <2>3, <4>2
          <5> QED
            BY <3>1, <5>1
        <4> QED
          BY <4>1, <4>2
      <3> QED
        BY <1>1, <2>3, <3>1, <3>2, <3>3, <3>4
    <2> QED
      BY <1>1, <2>1, <2>2, <2>3
  <1>8. IsDescent(h, v, p \o q, all)
    <2> DEFINE step(n) == IF n = 0 THEN v ELSE Child(h[n - 1], (p \o q)[n])
    <2>1. h = [n \in 0 .. all |-> h[n]]
      OBVIOUS
    <2>2. [n \in 0 .. all |-> h[n]] = [n \in 0 .. all |-> step(n)]
      <3>1. \A n \in 0 .. all : h[n] = step(n)
        BY <1>7
      <3> HIDE DEF h, step
      <3> QED
        BY <3>1
    <2>3. h = [n \in 0 .. all |-> step(n)]
      BY <2>1, <2>2
    <2> HIDE DEF h
    <2> QED
      BY <2>3 DEF IsDescent
  <1>9. At(v, p \o q) = h[all]
    <2> HIDE DEF h
    <2> DEFINE path == p \o q
    <2>1. Len(path) \in Nat /\ Len(path) = all /\ IsDescent(h, v, path, Len(path))
      BY <1>1, <1>8
    <2> HIDE DEF path
    <2>2. At(v, path) = h[Len(path)]
      BY <2>1, AtIsLast
    <2> QED
      BY <2>1, <2>2 DEF path
  <1>10. h[all] = g[Len(q)]
    <2>1. CASE Len(q) = 0
      BY <1>1, <1>6, <2>1
    <2>2. CASE Len(q) # 0
      <3>1. ~ (all <= first) /\ all - first = Len(q) /\ all \in 0 .. all
        BY <1>1, <2>2
      <3> QED
        BY <3>1
    <2> QED
      BY <2>1, <2>2
  <1> QED
    BY <1>5, <1>9, <1>10

-----------------------------------------------------------------------------
(***************************************************************************)
(* Checks.  A check has a list of failures of its own; what it does to a   *)
(* report is to add that list, as far as it fits.                          *)
(***************************************************************************)
Open(r) == ~ r.truncated /\ (r.limit < 0 \/ Len(r.failures) <= r.limit)

Fits(r, all) == r.limit < 0 \/ Len(all) <= r.limit

Extends(q, r, list) ==
  LET all == r.failures \o list
  IN /\ q \in Report
     /\ q.limit = r.limit
     /\ Fits(r, all) => q.failures = all /\ ~ q.truncated
     /\ ~ Fits(r, all) => /\ q.truncated
                          /\ Len(q.failures) = r.limit
                          /\ \A i \in 1 .. r.limit : q.failures[i] = all[i]

Adds(F, list) == \A r \in Report : Open(r) => Extends(F[r], r, list)

Check == {F \in [Report -> Report] : \E list \in Seq(Failure) : Adds(F, list)}

Passes(F) == Adds(F, <<>>)

AllPass(checks) == \A i \in DOMAIN checks : Passes(checks[i])

\* Push adds one failure.
LEMMA PushExtends ==
  ASSUME NEW r \in Report, Open(r), NEW f \in Failure
  PROVE  Push(r, f) \in Report /\ Extends(Push(r, f), r, <<f>>)
  <1>1. /\ r.failures \in Seq(Failure) /\ r.truncated \in BOOLEAN /\ r.limit \in Int
        /\ r = [failures |-> r.failures, truncated |-> r.truncated, limit |-> r.limit]
    BY DEF Report
  <1> DEFINE all == r.failures \o <<f>>
  <1>2. /\ all \in Seq(Failure) /\ Len(all) = Len(r.failures) + 1 /\ Len(r.failures) \in Nat
        /\ all = Append(r.failures, f)
        /\ \A i \in 1 .. Len(r.failures) : all[i] = r.failures[i]
    BY <1>1
  <1>3. CASE Len(r.failures) = r.limit
    <2>1. Push(r, f) = [failures |-> r.failures, truncated |-> TRUE, limit |-> r.limit]
      BY <1>1, <1>3 DEF Push
    <2>2. ~ Fits(r, all)
      BY <1>1, <1>2, <1>3 DEF Fits
    <2> QED
      BY <1>1, <1>2, <1>3, <2>1, <2>2 DEF Extends, Report
  <1>4. CASE Len(r.failures) # r.limit
    <2>1. Push(r, f) = [failures |-> all, truncated |-> r.truncated, limit |-> r.limit]
      BY <1>1, <1>2, <1>4 DEF Push
    <2>2. Fits(r, all)
      BY <1>1, <1>2, <1>4 DEF Fits, Open
    <2> QED
      BY <1>1, <1>2, <2>1, <2>2 DEF Extends, Report, Open
  <1> QED
    BY <1>3, <1>4

\* A report that is left alone has nothing added.
LEMMA NothingExtends == \A r \in Report : Open(r) => Extends(r, r, <<>>)
  <1>1. ASSUME NEW r \in Report, Open(r)
        PROVE  Extends(r, r, <<>>)
    <2>1. r.failures \in Seq(Failure) /\ r.failures \o <<>> = r.failures
      BY DEF Report
    <2> QED
      BY <1>1, <2>1 DEF Extends, Fits, Open
  <1> QED
    BY <1>1

\* Lists of failures one after the other.
LEMMA Associative ==
  ASSUME NEW a \in Seq(Failure), NEW b \in Seq(Failure), NEW c \in Seq(Failure)
  PROVE  (a \o b) \o c = a \o (b \o c)
  OBVIOUS

\* A truncated report has seen the end of all that follows.
LEMMA ExtendsStays ==
  ASSUME NEW r \in Report, NEW q, NEW first \in Seq(Failure), NEW second \in Seq(Failure),
         Extends(q, r, first), q.truncated
  PROVE  Extends(q, r, first \o second)
  <1> DEFINE shorter == r.failures \o first
             all == r.failures \o (first \o second)
  <1>1. r.failures \in Seq(Failure) /\ r.limit \in Int
    BY DEF Report
  <1>2. /\ Len(shorter) \in Nat /\ Len(all) \in Nat /\ Len(shorter) <= Len(all)
        /\ \A i \in 1 .. Len(shorter) : all[i] = shorter[i]
    <2>1. all = shorter \o second
      BY <1>1, Associative
    <2>2. shorter \in Seq(Failure)
      BY <1>1
    <2> HIDE DEF shorter, all
    <2> QED
      BY <2>1, <2>2
  <1>3. ~ Fits(r, shorter) /\ r.limit < Len(shorter) /\ ~ (r.limit < 0)
    BY <1>1, <1>2 DEF Extends, Fits
  <1>4. ~ Fits(r, all)
    <2> HIDE DEF shorter, all
    <2> QED
      BY <1>1, <1>2, <1>3 DEF Fits
  <1>5. \A i \in 1 .. r.limit : all[i] = shorter[i]
    <2> HIDE DEF shorter, all
    <2> QED
      BY <1>1, <1>2, <1>3
  <1>6. q \in Report /\ q.limit = r.limit /\ Len(q.failures) = r.limit
        /\ \A i \in 1 .. r.limit : q.failures[i] = shorter[i]
    BY <1>3 DEF Extends
  <1> HIDE DEF shorter, all
  <1>7. \A i \in 1 .. r.limit : q.failures[i] = all[i]
    BY <1>5, <1>6
  <1> QED
    BY <1>4, <1>6, <1>7 DEF Extends, all

\* A list added after another one.
LEMMA ExtendsMore ==
  ASSUME NEW r \in Report, NEW q \in Report, NEW next \in Report,
         NEW first \in Seq(Failure), NEW second \in Seq(Failure),
         Extends(q, r, first), ~ q.truncated, Extends(next, q, second)
  PROVE  Extends(next, r, first \o second)
  <1>1. r.failures \in Seq(Failure) /\ r.limit \in Int /\ q.limit = r.limit
    BY DEF Report, Extends
  <1>2. q.failures = r.failures \o first
    BY DEF Extends
  <1>3. q.failures \o second = r.failures \o (first \o second)
    <2>1. (r.failures \o first) \o second = r.failures \o (first \o second)
      BY <1>1, Associative
    <2> QED
      BY <1>2, <2>1
  <1>4. Fits(q, q.failures \o second) <=> Fits(r, r.failures \o (first \o second))
    BY <1>1, <1>3 DEF Fits
  <1> QED
    BY <1>1, <1>3, <1>4 DEF Extends

\* A report that took a list, and is not truncated, is open for another one.
LEMMA ExtendsOpens ==
  ASSUME NEW r \in Report, NEW q, NEW list \in Seq(Failure), Extends(q, r, list), ~ q.truncated
  PROVE  q \in Report /\ Open(q)
  <1>1. Fits(r, r.failures \o list) /\ q.failures = r.failures \o list /\ q.limit = r.limit
    BY DEF Extends
  <1> QED
    BY <1>1 DEF Extends, Fits, Open

\* A check has one list of failures.
LEMMA AddsOneList ==
  ASSUME NEW F, NEW first \in Seq(Failure), NEW second \in Seq(Failure),
         Adds(F, first), Adds(F, second)
  PROVE  first = second
  <1> DEFINE r == EmptyReport(NoLimit)
  <1>1. r \in Report /\ Open(r) /\ r.failures = <<>> /\ r.limit < 0
    BY DEF Report, EmptyReport, NoLimit, Open
  <1>2. Extends(F[r], r, first) /\ Extends(F[r], r, second)
    BY <1>1 DEF Adds
  <1>3. (F[r]).failures = <<>> \o first /\ (F[r]).failures = <<>> \o second
    BY <1>1, <1>2 DEF Extends, Fits
  <1> QED
    BY <1>3

\* A check passes if its list is empty.
LEMMA AddsNothing ==
  ASSUME NEW F, NEW list \in Seq(Failure), Adds(F, list)
  PROVE  Passes(F) <=> list = <<>>
  <1>1. <<>> \in Seq(Failure)
    OBVIOUS
  <1> QED
    BY <1>1, AddsOneList DEF Passes

\* A requirement is a check, which passes if it holds.
LEMMA RequiresIsCheck ==
  ASSUME NEW path \in Path, NEW kind \in FailureKind
  PROVE  /\ Requires(TRUE, path, kind) \in Check /\ Passes(Requires(TRUE, path, kind))
         /\ Fails(path, kind) \in Check /\ ~ Passes(Fails(path, kind))
  <1> DEFINE f == [path |-> path, kind |-> kind]
  <1>1. f \in Failure /\ <<f>> \in Seq(Failure) /\ <<>> \in Seq(Failure) /\ <<f>> # <<>>
    BY DEF Failure
  <1>2. \A r \in Report : Requires(TRUE, path, kind)[r] = r
    BY DEF Requires
  <1>3. Requires(TRUE, path, kind) \in [Report -> Report]
    BY DEF Requires
  <1>4. Adds(Requires(TRUE, path, kind), <<>>)
    BY <1>2, NothingExtends DEF Adds
  <1>5. \A r \in Report : Fails(path, kind)[r] = Push(r, f)
    BY DEF Requires, Fails
  <1>6. \A r \in Report : Push(r, f) \in Report
    <2>1. ASSUME NEW r \in Report
          PROVE  Push(r, f) \in Report
      <3>1. r.failures \in Seq(Failure) /\ Append(r.failures, f) \in Seq(Failure)
        BY <1>1 DEF Report
      <3> HIDE DEF f
      <3>2. [r EXCEPT !.truncated = TRUE] \in Report
        BY DEF Report
      <3>3. [r EXCEPT !.failures = Append(@, f)] \in Report
        BY <3>1 DEF Report
      <3> QED
        BY <3>2, <3>3 DEF Push
    <2> QED
      BY <2>1
  <1>7. Fails(path, kind) \in [Report -> Report]
    BY <1>6 DEF Requires, Fails
  <1>8. Adds(Fails(path, kind), <<f>>)
    BY <1>1, <1>5, PushExtends DEF Adds
  <1> HIDE DEF f
  <1>9. ~ Passes(Fails(path, kind))
    BY <1>1, <1>8, AddsOneList DEF Passes
  <1> QED
    BY <1>1, <1>3, <1>4, <1>7, <1>8, <1>9 DEF Check, Passes

\* The same, for a condition.
LEMMA RequiresIff ==
  ASSUME NEW path \in Path, NEW kind \in FailureKind, NEW holds \in BOOLEAN
  PROVE  Requires(holds, path, kind) \in Check /\ (Passes(Requires(holds, path, kind)) <=> holds)
  <1>1. CASE holds = TRUE
    BY <1>1, RequiresIsCheck
  <1>2. CASE holds = FALSE
    BY <1>2, RequiresIsCheck DEF Fails
  <1> QED
    BY <1>1, <1>2

-----------------------------------------------------------------------------
(***************************************************************************)
(* Checks in turn.                                                         *)
(***************************************************************************)
Turn(checks, n, r) == IF r.truncated THEN r ELSE checks[n][r]

IsTurns(f, checks, r, m) == f = [n \in 0 .. m |-> IF n = 0 THEN r ELSE Turn(checks, n, f[n - 1])]

\* The reports after each of the checks.
LEMMA TurnsExist ==
  ASSUME NEW checks, NEW r, NEW length \in Nat
  PROVE  \E f : IsTurns(f, checks, r, length)
  <1> DEFINE Bad == {m \in 0 .. length : ~ \E f : IsTurns(f, checks, r, m)}
  <1>1. ASSUME NEW m \in Bad, \A k \in Bad : m <= k
        PROVE  FALSE
    <2>1. m # 0
      <3>1. IsTurns([n \in 0 .. 0 |-> r], checks, r, 0)
        BY DEF IsTurns
      <3> QED
        BY <1>1, <3>1
    <2>2. PICK f : IsTurns(f, checks, r, m - 1)
      <3>1. m - 1 \in 0 .. length /\ ~ (m <= m - 1)
        BY <2>1
      <3> QED
        BY <1>1, <3>1
    <2> DEFINE last == Turn(checks, m, f[m - 1])
               longer == [n \in 0 .. m |-> IF n = m THEN last ELSE f[n]]
    <2>3. ASSUME NEW n \in 0 .. m
          PROVE  longer[n] = IF n = 0 THEN r ELSE Turn(checks, n, longer[n - 1])
      <3>1. CASE n = m
        BY <2>1, <3>1
      <3>2. CASE n # m
        <4>1. n \in 0 .. m - 1 /\ longer[n] = f[n]
          BY <3>2
        <4>2. f[n] = IF n = 0 THEN r ELSE Turn(checks, n, f[n - 1])
          BY <2>2, <4>1 DEF IsTurns
        <4>3. n # 0 => longer[n - 1] = f[n - 1]
          BY <3>2
        <4> QED
          BY <4>1, <4>2, <4>3
      <3> QED
        BY <3>1, <3>2
    <2> HIDE DEF last
    <2>4. IsTurns(longer, checks, r, m)
      BY <2>3 DEF IsTurns
    <2> QED
      BY <1>1, <2>4
  <1>2. Bad \in SUBSET Nat
    OBVIOUS
  <1>3. Bad = {}
    BY <1>1, <1>2, LeastNumber
  <1> QED
    BY <1>3

\* One more check adds its list to what the ones before it added.
LEMMA TurnExtends ==
  ASSUME NEW checks \in Seq(Check), NEW n \in 1 .. Len(checks), NEW r \in Report,
         NEW q \in Report, NEW first \in Seq(Failure), NEW second \in Seq(Failure),
         Adds(checks[n], second)
  PROVE  /\ Turn(checks, n, q) \in Report
         /\ Open(r) /\ Extends(q, r, first) => Extends(Turn(checks, n, q), r, first \o second)
  <1>1. checks[n] \in [Report -> Report]
    BY DEF Check
  <1>2. CASE q.truncated
    <2>1. Turn(checks, n, q) = q
      BY <1>2 DEF Turn
    <2> QED
      BY <1>2, <2>1, ExtendsStays
  <1>3. CASE ~ q.truncated
    <2>1. Turn(checks, n, q) = checks[n][q]
      BY <1>3 DEF Turn
    <2>2. checks[n][q] \in Report
      BY <1>1
    <2>3. ASSUME Open(r), Extends(q, r, first)
          PROVE  Extends(checks[n][q], r, first \o second)
      <3>1. Open(q)
        BY <1>3, <2>3, ExtendsOpens
      <3>2. Extends(checks[n][q], q, second)
        BY <3>1 DEF Adds
      <3> QED
        BY <1>3, <2>2, <2>3, <3>2, ExtendsMore
    <2> QED
      BY <2>1, <2>2, <2>3
  <1> QED
    BY <1>2, <1>3

\* Checks in turn are a check, which passes if all of them pass.
LEMMA InTurnIsCheck ==
  ASSUME NEW checks \in Seq(Check)
  PROVE  InTurn(checks) \in Check /\ (Passes(InTurn(checks)) <=> AllPass(checks))
  <1> DEFINE length == Len(checks)
             after(r) == CHOOSE f : IsTurns(f, checks, r, length)
             Reached(n, list) ==
               \A r \in Report : /\ after(r)[n] \in Report
                                 /\ Open(r) => Extends(after(r)[n], r, list)
             Known(n) == \E list \in Seq(Failure) :
                           /\ Reached(n, list)
                           /\ list = <<>> <=> \A i \in 1 .. n : Passes(checks[i])
             Bad == {m \in 0 .. length : ~ Known(m)}
  <1>1. length \in Nat /\ DOMAIN checks = 1 .. length
    OBVIOUS
  <1>2. \A r : IsTurns(after(r), checks, r, length)
    BY <1>1, TurnsExist
  <1>3. \A r \in Report : InTurn(checks)[r] = after(r)[length]
    BY DEF InTurn, IsTurns, Turn
  <1> HIDE DEF after, length
  <1>4. ASSUME NEW r
        PROVE  after(r)[0] = r /\ \A n \in 1 .. length : after(r)[n] = Turn(checks, n, after(r)[n - 1])
    <2>1. after(r) = [n \in 0 .. length |-> IF n = 0 THEN r ELSE Turn(checks, n, after(r)[n - 1])]
      BY <1>2 DEF IsTurns
    <2>2. 0 \in 0 .. length /\ \A n \in 1 .. length : n \in 0 .. length /\ n # 0
      BY <1>1
    <2> QED
      BY <2>1, <2>2
  <1>6. Known(0)
    <2>1. Reached(0, <<>>)
      BY <1>4, NothingExtends
    <2>2. <<>> \in Seq(Failure) /\ \A i \in 1 .. 0 : Passes(checks[i])
      OBVIOUS
    <2> HIDE DEF Reached
    <2> QED
      BY <2>1, <2>2
  <1>7. ASSUME NEW m \in 1 .. length, Known(m - 1)
        PROVE  Known(m)
    <2>1. PICK first \in Seq(Failure) :
            /\ Reached(m - 1, first)
            /\ first = <<>> <=> \A i \in 1 .. m - 1 : Passes(checks[i])
      BY <1>7
    <2>2. checks[m] \in Check
      BY <1>1
    <2>3. PICK second \in Seq(Failure) : Adds(checks[m], second)
      BY <2>2 DEF Check
    <2>4. Passes(checks[m]) <=> second = <<>>
      BY <2>3, AddsNothing
    <2>5. Reached(m, first \o second)
      <3>1. ASSUME NEW r \in Report
            PROVE  /\ after(r)[m] \in Report
                   /\ Open(r) => Extends(after(r)[m], r, first \o second)
        <4>1. after(r)[m - 1] \in Report /\ (Open(r) => Extends(after(r)[m - 1], r, first))
          BY <2>1
        <4>2. after(r)[m] = Turn(checks, m, after(r)[m - 1])
          BY <1>4
        <4>3. m \in 1 .. Len(checks)
          BY DEF length
        <4> QED
          BY <2>3, <4>1, <4>2, <4>3, TurnExtends
      <3> QED
        BY <3>1
    <2>6. first \o second \in Seq(Failure) /\ (first \o second = <<>> <=> first = <<>> /\ second = <<>>)
      OBVIOUS
    <2>7. (\A i \in 1 .. m : Passes(checks[i])) <=> (\A i \in 1 .. m - 1 : Passes(checks[i])) /\ Passes(checks[m])
      <3>1. \A i \in 1 .. m : i \in 1 .. m - 1 \/ i = m
        BY <1>1
      <3>2. m \in 1 .. m /\ \A i \in 1 .. m - 1 : i \in 1 .. m
        BY <1>1
      <3> QED
        BY <3>1, <3>2
    <2> HIDE DEF Reached
    <2> QED
      BY <2>1, <2>4, <2>5, <2>6, <2>7
  <1> HIDE DEF Known
  <1>8. ASSUME NEW m \in Bad, \A k \in Bad : m <= k
        PROVE  FALSE
    <2>1. m # 0
      BY <1>6
    <2>2. m - 1 \in 0 .. length /\ ~ (m <= m - 1) /\ m \in 1 .. length
      BY <1>1, <2>1
    <2>3. Known(m - 1)
      BY <1>8, <2>2
    <2> QED
      BY <1>7, <2>2, <2>3
  <1>9. Bad \in SUBSET Nat
    BY <1>1
  <1>10. Bad = {}
    BY <1>8, <1>9, LeastNumber
  <1>11. Known(length)
    BY <1>1, <1>10
  <1>12. PICK list \in Seq(Failure) : Reached(length, list) /\ (list = <<>> <=> AllPass(checks))
    BY <1>1, <1>11 DEF Known, AllPass
  <1>13. Adds(InTurn(checks), list)
    BY <1>3, <1>12 DEF Adds
  <1>14. InTurn(checks) \in [Report -> Report]
    <2>1. \A r \in Report : InTurn(checks)[r] \in Report
      BY <1>3, <1>12
    <2>2. \E e : InTurn(checks) = [r \in Report |-> e[r]]
      <3>1. InTurn(checks) = [r \in Report |-> InTurn(checks)[r]]
        BY DEF InTurn
      <3> QED
        BY <3>1
    <2> QED
      BY <2>1, <2>2
  <1>15. Passes(InTurn(checks)) <=> list = <<>>
    BY <1>13, AddsNothing
  <1> QED
    BY <1>12, <1>13, <1>14, <1>15 DEF Check

\* A sequence of checks after another one.
LEMMA MoreChecks ==
  ASSUME NEW first \in Seq(Check), NEW second \in Seq(Check)
  PROVE  /\ first \o second \in Seq(Check)
         /\ AllPass(first \o second) <=> AllPass(first) /\ AllPass(second)
  <1> DEFINE all == first \o second
  <1>1. /\ all \in Seq(Check) /\ DOMAIN all = 1 .. Len(first) + Len(second)
        /\ DOMAIN first = 1 .. Len(first) /\ DOMAIN second = 1 .. Len(second)
        /\ Len(first) \in Nat /\ Len(second) \in Nat
        /\ \A i \in 1 .. Len(first) : all[i] = first[i]
        /\ \A i \in 1 .. Len(second) : all[Len(first) + i] = second[i]
        /\ \A i \in DOMAIN all : i <= Len(first) => i \in 1 .. Len(first)
        /\ \A i \in DOMAIN all : i > Len(first) => i - Len(first) \in 1 .. Len(second)
                                                   /\ all[i] = second[i - Len(first)]
    OBVIOUS
  <1> HIDE DEF all
  <1>2. ASSUME AllPass(all)
        PROVE  AllPass(first) /\ AllPass(second)
    <2>1. \A i \in 1 .. Len(first) : i \in DOMAIN all
      BY <1>1
    <2>2. \A i \in 1 .. Len(second) : Len(first) + i \in DOMAIN all
      BY <1>1
    <2>3. AllPass(first)
      BY <1>1, <1>2, <2>1 DEF AllPass
    <2>4. AllPass(second)
      BY <1>1, <1>2, <2>2 DEF AllPass
    <2> QED
      BY <2>3, <2>4
  <1>3. ASSUME AllPass(first), AllPass(second)
        PROVE  AllPass(all)
    <2>1. ASSUME NEW i \in DOMAIN all
          PROVE  Passes(all[i])
      <3>1. i <= Len(first) \/ i > Len(first)
        BY <1>1
      <3>2. CASE i <= Len(first)
        BY <1>1, <1>3, <3>2 DEF AllPass
      <3>3. CASE i > Len(first)
        BY <1>1, <1>3, <3>3 DEF AllPass
      <3> QED
        BY <3>1, <3>2, <3>3
    <2> QED
      BY <2>1 DEF AllPass
  <1> QED
    BY <1>1, <1>2, <1>3 DEF all

\* A single check as a sequence, and none at all.
LEMMA FewChecks ==
  /\ <<>> \in Seq(Check) /\ AllPass(<<>>)
  /\ \A F \in Check : <<F>> \in Seq(Check) /\ (AllPass(<<F>>) <=> Passes(F))
  <1>1. <<>> \in Seq(Check) /\ AllPass(<<>>)
    BY DEF AllPass
  <1>2. ASSUME NEW F \in Check
        PROVE  <<F>> \in Seq(Check) /\ (AllPass(<<F>>) <=> Passes(F))
    <2>1. <<F>> \in Seq(Check) /\ DOMAIN <<F>> = {1} /\ <<F>>[1] = F
      OBVIOUS
    <2> QED
      BY <2>1 DEF AllPass
  <1> QED
    BY <1>1, <1>2

-----------------------------------------------------------------------------
(***************************************************************************)
(* Comparisons: an expected value is found at every path.                  *)
(***************************************************************************)
\* A function on 1 .. n is a sequence.
LEMMA FunctionIsSequence ==
  ASSUME NEW S, NEW n \in Nat, NEW f, DOMAIN f = 1 .. n, f = [i \in 1 .. n |-> f[i]],
         \A i \in 1 .. n : f[i] \in S
  PROVE  f \in Seq(S)
  <1>1. f \in [1 .. n -> S]
    OBVIOUS
  <1> QED
    BY <1>1

\* A path of a value is the empty one, or goes on from a child.
LEMMA PathsUnfold ==
  ASSUME NEW n \in 0 .. MaxHeight, NEW v \in JsonUpTo[n]
  PROVE  PathsUpTo[n][v] =
           {<<>>} \cup (UNION {{<<s>> \o p : p \in PathsUpTo[n - 1][Child(v, s)]} : s \in Segments(v)})
  <1>1. PathsUpTo[n] = PathsStep(n, PathsUpTo[n - 1])
    BY PathsEquation
  <1> QED
    BY <1>1 DEF PathsStep

\* Paths are sequences of segments.
LEMMA PathsArePaths == \A n \in 0 .. MaxHeight : \A v \in JsonUpTo[n] : PathsUpTo[n][v] \subseteq Path
  <1> DEFINE Good(n) == \A v \in JsonUpTo[n] : PathsUpTo[n][v] \subseteq Path
             Bad == {m \in 0 .. MaxHeight : ~ Good(m)}
  <1>1. ASSUME NEW m \in Bad, \A k \in Bad : m <= k
        PROVE  FALSE
    <2>1. ASSUME NEW v \in JsonUpTo[m], NEW p \in PathsUpTo[m][v]
          PROVE  p \in Path
      <3>1. CASE p = <<>>
        BY <3>1 DEF Path
      <3>2. CASE p # <<>>
        <4> DEFINE below(s) == {<<s>> \o q : q \in PathsUpTo[m - 1][Child(v, s)]}
        <4>1. PICK s \in Segments(v) : p \in below(s)
          <5>1. PathsUpTo[m][v] = {<<>>} \cup (UNION {below(s) : s \in Segments(v)})
            BY PathsUnfold
          <5> HIDE DEF below
          <5> QED
            BY <3>2, <5>1
        <4>2. PICK q \in PathsUpTo[m - 1][Child(v, s)] : p = <<s>> \o q
          BY <4>1
        <4>3. /\ m - 1 \in 0 .. MaxHeight /\ Child(v, s) \in JsonUpTo[m - 1]
              /\ s \in [key : STRING] \cup [index : Nat]
          BY ChildForm
        <4>4. ~ (m <= m - 1)
          BY HeightAssumption
        <4>5. Good(m - 1)
          BY <1>1, <4>3, <4>4
        <4>6. q \in Path
          BY <4>2, <4>3, <4>5
        <4> QED
          BY <4>2, <4>3, <4>6 DEF Path
      <3> QED
        BY <3>1, <3>2
    <2> QED
      BY <2>1
  <1>2. Bad \in SUBSET Nat
    BY HeightAssumption
  <1> HIDE DEF Good
  <1>3. Bad = {}
    BY <1>1, <1>2, LeastNumber
  <1> QED
    BY <1>3 DEF Good

\* The counterpart of one node, and of all nodes.
NodeFits(e, a, depth, flexible) ==
  NodeMatches(e, a, flexible) /\ (IsStructured(e) => depth <= MaxDepth)

FitsAt(e, a, depth, flexible, p) ==
  /\ NodeMatches(At(e, p), At(a, p), flexible /\ p = <<>>)
  /\ IsStructured(At(e, p)) => depth + Len(p) <= MaxDepth

Matches(n, e, a, depth, flexible) ==
  \A p \in PathsUpTo[n][e] : FitsAt(e, a, depth, flexible, p)

\* Flexible is a truth value.
LEMMA FlexibleOrNot ==
  /\ \A e, a, f : f => (NodeMatches(e, a, f) <=> NodeMatches(e, a, TRUE))
  /\ \A e, a, f : ~ f => (NodeMatches(e, a, f) <=> NodeMatches(e, a, FALSE))
  BY DEF NodeMatches

\* At the root.
LEMMA FitsAtRoot ==
  ASSUME NEW e, NEW a, NEW depth \in Nat, NEW flexible \in BOOLEAN
  PROVE  FitsAt(e, a, depth, flexible, <<>>) <=> NodeFits(e, a, depth, flexible)
  <1>1. At(e, <<>>) = e /\ At(a, <<>>) = a
    BY AtRoot
  <1>2. NodeMatches(e, a, flexible /\ <<>> = <<>>) <=> NodeMatches(e, a, flexible)
    BY FlexibleOrNot
  <1>3. depth + Len(<<>>) = depth
    OBVIOUS
  <1> QED
    BY <1>1, <1>2, <1>3 DEF FitsAt, NodeFits

\* Below a child.
LEMMA FitsAtChild ==
  ASSUME NEW e, NEW a, NEW depth \in Nat, NEW flexible \in BOOLEAN,
         NEW s \in [key : STRING] \cup [index : Nat], NEW q \in Path
  PROVE  FitsAt(e, a, depth, flexible, <<s>> \o q)
           <=> FitsAt(Child(e, s), Child(a, s), depth + 1, FALSE, q)
  <1> DEFINE p == <<s>> \o q
             segment == [key : STRING] \cup [index : Nat]
  <1>1. <<s>> \in Seq(segment) /\ q \in Seq(segment)
    BY DEF Path
  <1>2. At(e, p) = At(At(e, <<s>>), q) /\ At(a, p) = At(At(a, <<s>>), q)
    <2> DEFINE one == <<s>>
    <2>1. one \in Seq(segment) /\ q \in Seq(segment)
      BY <1>1
    <2> HIDE DEF segment, one
    <2>2. At(e, one \o q) = At(At(e, one), q) /\ At(a, one \o q) = At(At(a, one), q)
      BY <2>1, AtConcat
    <2> QED
      BY <2>2 DEF one
  <1>3. At(e, p) = At(Child(e, s), q) /\ At(a, p) = At(Child(a, s), q)
    BY <1>2, AtChild
  <1>4. Len(q) \in Nat /\ Len(p) = 1 + Len(q) /\ p # <<>>
    BY <1>1
  <1>5. depth + Len(p) = depth + 1 + Len(q)
    BY <1>4
  <1> HIDE DEF p
  <1>6. NodeMatches(At(e, p), At(a, p), flexible /\ p = <<>>) <=> NodeMatches(At(e, p), At(a, p), FALSE)
    BY <1>4, FlexibleOrNot
  <1>7. NodeMatches(At(e, p), At(a, p), FALSE /\ q = <<>>) <=> NodeMatches(At(e, p), At(a, p), FALSE)
    BY FlexibleOrNot
  <1>8. FitsAt(e, a, depth, flexible, p) <=> FitsAt(Child(e, s), Child(a, s), depth + 1, FALSE, q)
    BY <1>3, <1>5, <1>6, <1>7 DEF FitsAt
  <1> QED
    BY <1>8 DEF p

\* All nodes fit if the root does and those of each child do.
LEMMA MatchesUnfold ==
  ASSUME NEW n \in 0 .. MaxHeight, NEW e \in JsonUpTo[n], NEW a, NEW depth \in Nat,
         NEW flexible \in BOOLEAN
  PROVE  Matches(n, e, a, depth, flexible) <=>
           /\ NodeFits(e, a, depth, flexible)
           /\ \A s \in Segments(e) : Matches(n - 1, Child(e, s), Child(a, s), depth + 1, FALSE)
  <1> DEFINE Fit(p) == FitsAt(e, a, depth, flexible, p)
             FitBelow(s, q) == FitsAt(Child(e, s), Child(a, s), depth + 1, FALSE, q)
             below(s) == PathsUpTo[n - 1][Child(e, s)]
             cons(s, q) == <<s>> \o q
  <1>1. PathsUpTo[n][e] = {<<>>} \cup (UNION {{cons(s, p) : p \in below(s)} : s \in Segments(e)})
    BY PathsUnfold
  <1>2. Fit(<<>>) <=> NodeFits(e, a, depth, flexible)
    BY FitsAtRoot
  <1>3. \A s \in Segments(e) : \A q \in below(s) : Fit(cons(s, q)) <=> FitBelow(s, q)
    <2>1. ASSUME NEW s \in Segments(e), NEW q \in below(s)
          PROVE  Fit(cons(s, q)) <=> FitBelow(s, q)
      <3>1. /\ n - 1 \in 0 .. MaxHeight /\ Child(e, s) \in JsonUpTo[n - 1]
            /\ s \in [key : STRING] \cup [index : Nat]
        BY ChildForm
      <3>2. q \in Path
        BY <3>1, PathsArePaths
      <3> QED
        BY <3>1, <3>2, FitsAtChild
    <2> QED
      BY <2>1
  <1>4. /\ Matches(n, e, a, depth, flexible) <=> \A p \in PathsUpTo[n][e] : Fit(p)
        /\ \A s : Matches(n - 1, Child(e, s), Child(a, s), depth + 1, FALSE)
                    <=> \A q \in below(s) : FitBelow(s, q)
    BY DEF Matches
  <1> HIDE DEF Fit, FitBelow, below, cons
  <1>5. (\A p \in PathsUpTo[n][e] : Fit(p)) <=>
          Fit(<<>>) /\ \A s \in Segments(e) : \A q \in below(s) : Fit(cons(s, q))
    BY <1>1
  <1> QED
    BY <1>2, <1>3, <1>4, <1>5

\* Nothing matches what is not there.
LEMMA MissingNeverFits ==
  ASSUME NEW n \in 0 .. MaxHeight, NEW e \in JsonUpTo[n], NEW depth \in Nat, NEW flexible \in BOOLEAN
  PROVE  ~ Matches(n, e, Missing, depth, flexible)
  <1>1. ~ NodeMatches(e, Missing, flexible)
    <2>1. KindOf(Missing) = "missing" /\ e # Missing
      BY MissingForm, JsonIsThere
    <2> QED
      BY <2>1 DEF NodeMatches, IsNumber
  <1>2. Matches(n, e, Missing, depth, flexible) => NodeFits(e, Missing, depth, flexible)
    BY MatchesUnfold
  <1> QED
    BY <1>1, <1>2 DEF NodeFits

\* A safe integer is its own nearest float.
LEMMA SafeIsExact == \A n \in -MaxExact .. MaxExact : ToFloat(n) = 2 * n
  <1>1. ASSUME NEW n \in -MaxExact .. MaxExact
        PROVE  ToFloat(n) = 2 * n
    <2> DEFINE Nearest(f) == \A g \in Floats : Distance(f, 2 * n) <= Distance(g, 2 * n)
    <2>1. 2 * n \in Floats /\ 2 * n \in Int /\ Floats \subseteq Int /\ n \in Int
      BY NumbersAssumption
    <2>2. Distance(2 * n, 2 * n) = 0 /\ \A g \in Floats : 0 <= Distance(g, 2 * n)
      BY <2>1 DEF Distance
    <2>3. Nearest(2 * n)
      BY <2>2
    <2>4. ToFloat(n) \in Floats /\ Nearest(ToFloat(n))
      BY <2>1, <2>3 DEF ToFloat
    <2> DEFINE f == ToFloat(n)
    <2>5. Distance(f, 2 * n) <= 0 /\ f \in Int
      BY <2>1, <2>2, <2>4
    <2> HIDE DEF f
    <2>6. f = 2 * n
      BY <2>1, <2>5 DEF Distance
    <2> QED
      BY <2>6 DEF f
  <1> QED
    BY <1>1

\* numbers_equal is equality on the line, up to the limit of exact floats.
LEMMA NumbersAgree ==
  ASSUME NEW e \in Json, NEW a \in Json, IsNumber(e), IsNumber(a)
  PROVE  NumbersEqual(e, a) <=> SameNumber(e, a)
  <1>1. MaxHeight \in 0 .. MaxHeight /\ MaxExact \in Nat /\ Floats \subseteq Int
    BY HeightAssumption, NumbersAssumption
  <1>2. /\ (KindOf(e) = "integer" /\ e.integer \in Int) \/ (KindOf(e) = "float" /\ e.float \in Int)
        /\ (KindOf(a) = "integer" /\ a.integer \in Int) \/ (KindOf(a) = "float" /\ a.float \in Int)
    BY <1>1, JsonForms DEF Json, IsNumber
  <1>3. CASE KindOf(e) = "integer" /\ KindOf(a) = "integer"
    BY <1>1, <1>2, <1>3 DEF NumbersEqual, SameNumber, IsInteger
  <1>4. CASE KindOf(e) = "float" /\ KindOf(a) = "float"
    BY <1>1, <1>2, <1>4 DEF NumbersEqual, SameNumber, IsInteger, SafeAsFloat, AsFloat
  <1>5. CASE KindOf(e) = "integer" /\ KindOf(a) = "float"
    <2>1. NumbersEqual(e, a) <=> e.integer \in -MaxExact .. MaxExact /\ ToFloat(e.integer) = a.float
      BY <1>5 DEF NumbersEqual, IsInteger, SafeAsFloat, AsFloat
    <2>2. SameNumber(e, a) <=> 2 * e.integer = a.float /\ Distance(2 * e.integer, 0) <= 2 * MaxExact
      BY <1>5 DEF SameNumber, IsInteger
    <2>3. e.integer \in -MaxExact .. MaxExact <=> Distance(2 * e.integer, 0) <= 2 * MaxExact
      BY <1>1, <1>2, <1>5 DEF Distance
    <2> QED
      BY <2>1, <2>2, <2>3, SafeIsExact
  <1>6. CASE KindOf(e) = "float" /\ KindOf(a) = "integer"
    <2>1. NumbersEqual(e, a) <=> a.integer \in -MaxExact .. MaxExact /\ ToFloat(a.integer) = e.float
      BY <1>6 DEF NumbersEqual, IsInteger, SafeAsFloat, AsFloat
    <2>2. SameNumber(e, a) <=> 2 * a.integer = e.float /\ Distance(e.float, 0) <= 2 * MaxExact
      BY <1>6 DEF SameNumber, IsInteger
    <2>3. a.integer \in -MaxExact .. MaxExact <=> Distance(2 * a.integer, 0) <= 2 * MaxExact
      BY <1>1, <1>2, <1>6 DEF Distance
    <2> QED
      BY <2>1, <2>2, <2>3, SafeIsExact
  <1> QED
    BY <1>2, <1>3, <1>4, <1>5, <1>6

\* A value of another type is no counterpart.
LEMMA TypesMustMatch ==
  ASSUME NEW n \in 0 .. MaxHeight, NEW c \in Comparison(n), ~ TypeMatches(c)
  PROVE  ~ NodeMatches(c.expected, c.actual, c.flexible)
  <1>1. CASE IsNumber(c.expected)
    BY <1>1 DEF NodeMatches, TypeMatches, IsNumber
  <1>2. CASE ~ IsNumber(c.expected)
    <2>1. KindOf(c.expected) # KindOf(c.actual)
      BY <1>2 DEF TypeMatches
    <2> QED
      BY <1>2, <2>1 DEF NodeMatches
  <1> QED
    BY <1>1, <1>2

\* A value of the right type is the counterpart if its content is right.
LEMMA ContentsMustMatch ==
  ASSUME NEW n \in 0 .. MaxHeight, NEW c \in Comparison(n), TypeMatches(c)
  PROVE  LET matches == NodeMatches(c.expected, c.actual, c.flexible)
         IN /\ KindOf(c.expected) = "object" => matches
            /\ KindOf(c.expected) = "array" =>
                 (matches <=> Len(c.expected.array) = Len(c.actual.array))
            /\ IsNumber(c.expected) => (matches <=> NumbersEqual(c.expected, c.actual))
            /\ ~ IsNumber(c.expected) /\ ~ IsStructured(c.expected) =>
                 (matches <=> c.expected = c.actual)
  <1>1. c.expected \in Json /\ c.actual \in Json
    BY HigherJson DEF Comparison
  <1>2. CASE IsNumber(c.expected)
    <2>1. IsNumber(c.actual) /\ (IsInteger(c.expected) /\ ~ c.flexible => IsInteger(c.actual))
      BY <1>2 DEF TypeMatches
    <2>2. NodeMatches(c.expected, c.actual, c.flexible) <=> SameNumber(c.expected, c.actual)
      BY <1>2, <2>1 DEF NodeMatches, IsNumber
    <2> QED
      BY <1>1, <1>2, <2>1, <2>2, NumbersAgree DEF IsNumber
  <1>3. CASE ~ IsNumber(c.expected)
    <2>1. KindOf(c.expected) = KindOf(c.actual)
      BY <1>3 DEF TypeMatches
    <2> QED
      BY <1>3, <2>1 DEF NodeMatches, IsStructured
  <1> QED
    BY <1>2, <1>3

\* What is below a comparison is one of the height below.
LEMMA BelowIsComparison ==
  ASSUME NEW n \in 0 .. MaxHeight, NEW c \in Comparison(n),
         NEW s \in Segments(c.expected), s \in Segments(c.actual)
  PROVE  n - 1 \in 0 .. MaxHeight /\ Below(c, s) \in Comparison(n - 1)
  <1>1. /\ c.expected \in JsonUpTo[n] /\ c.actual \in JsonUpTo[MaxHeight] /\ c.path \in Path
        /\ c.depth \in Nat /\ MaxHeight \in 0 .. MaxHeight
    BY HeightAssumption DEF Comparison, Json
  <1>2. /\ n - 1 \in 0 .. MaxHeight /\ Child(c.expected, s) \in JsonUpTo[n - 1]
        /\ s \in [key : STRING] \cup [index : Nat]
    BY <1>1, ChildForm
  <1>3. Child(c.actual, s) \in Json
    BY <1>1, ChildForm
  <1>4. Append(c.path, s) \in Path
    BY <1>1, <1>2 DEF Path
  <1>5. c.depth + 1 \in Nat
    BY <1>1
  <1> QED
    BY <1>2, <1>3, <1>4, <1>5 DEF Below, Compared, Comparison

\* What a comparison has to find out.
Compares(F, n, c) ==
  F \in Check /\ (Passes(F) <=> Matches(n, c.expected, c.actual, c.depth, c.flexible))

ComparesUpTo(n) == \A c \in Comparison(n) : Compares(CompareUpTo[n][c], n, c)

\* The members of an object.
LEMMA ObjectCompares ==
  ASSUME NEW n \in 0 .. MaxHeight, n - 1 \in 0 .. MaxHeight => ComparesUpTo(n - 1),
         NEW c \in Comparison(n), KindOf(c.expected) = "object", KindOf(c.actual) = "object",
         c.depth <= MaxDepth
  PROVE  Compares(InTurn([i \in DOMAIN c.expected.object |->
                            LET s == Key(c.expected.object[i].key)
                            IN IF s \in Segments(c.actual) THEN CompareUpTo[n - 1][Below(c, s)]
                               ELSE Fails(Append(c.path, s), "MissingField")]), n, c)
  <1> DEFINE members == c.expected.object
             key(i) == Key(members[i].key)
             one(i) == IF key(i) \in Segments(c.actual) THEN CompareUpTo[n - 1][Below(c, key(i))]
                       ELSE Fails(Append(c.path, key(i)), "MissingField")
             checks == [i \in DOMAIN members |-> one(i)]
             MatchesBelow(s) == Matches(n - 1, Child(c.expected, s), Child(c.actual, s), c.depth + 1, FALSE)
  <1>1. /\ c.expected \in JsonUpTo[n] /\ c.path \in Path /\ c.depth \in Nat
        /\ c.flexible \in BOOLEAN /\ TypeMatches(c) /\ IsStructured(c.expected)
    BY DEF Comparison, TypeMatches, IsNumber, IsStructured
  <1>2. n - 1 \in 0 .. MaxHeight /\ members \in Seq([key : STRING, value : JsonUpTo[n - 1]])
    BY <1>1, JsonForms DEF Members
  <1>3. DOMAIN members = 1 .. Len(members) /\ Len(members) \in Nat
    BY <1>2
  <1>4. Segments(c.expected) = {key(i) : i \in DOMAIN members}
    BY DEF Segments
  <1>5. ASSUME NEW i \in DOMAIN members
        PROVE  one(i) \in Check /\ (Passes(one(i)) <=> MatchesBelow(key(i)))
    <2>1. /\ key(i) \in Segments(c.expected) /\ Child(c.expected, key(i)) \in JsonUpTo[n - 1]
          /\ key(i) \in [key : STRING] \cup [index : Nat]
      BY <1>1, MemberChild
    <2>2. CASE key(i) \in Segments(c.actual)
      <3>1. Below(c, key(i)) \in Comparison(n - 1)
        BY <2>1, <2>2, BelowIsComparison
      <3>2. Compares(CompareUpTo[n - 1][Below(c, key(i))], n - 1, Below(c, key(i)))
        BY <1>2, <3>1 DEF ComparesUpTo
      <3> QED
        BY <2>2, <3>2 DEF Compares, Below, Compared
    <2>3. CASE key(i) \notin Segments(c.actual)
      <3>1. Child(c.actual, key(i)) = Missing
        BY <2>3, NoChild
      <3>2. ~ MatchesBelow(key(i))
        <4>1. c.depth + 1 \in Nat /\ FALSE \in BOOLEAN
          BY <1>1
        <4> QED
          BY <1>2, <2>1, <3>1, <4>1, MissingNeverFits
      <3>3. Append(c.path, key(i)) \in Path
        BY <1>1, <2>1 DEF Path
      <3>4. /\ Fails(Append(c.path, key(i)), "MissingField") \in Check
            /\ ~ Passes(Fails(Append(c.path, key(i)), "MissingField"))
        <4> DEFINE path == Append(c.path, key(i))
        <4>0. "MissingField" \in FailureKind
          BY DEF FailureKind
        <4>1. path \in Path
          BY <3>3
        <4> HIDE DEF path
        <4>2. Fails(path, "MissingField") \in Check /\ ~ Passes(Fails(path, "MissingField"))
          BY <4>0, <4>1, RequiresIsCheck
        <4> QED
          BY <4>2 DEF path
      <3> QED
        BY <2>3, <3>2, <3>4
    <2> QED
      BY <2>2, <2>3
  <1> HIDE DEF one, key, MatchesBelow, members
  <1>6. checks \in Seq(Check) /\ DOMAIN checks = DOMAIN members /\ \A i \in DOMAIN checks : checks[i] = one(i)
    BY <1>3, <1>5, FunctionIsSequence
  <1>7. AllPass(checks) <=> \A s \in Segments(c.expected) : MatchesBelow(s)
    BY <1>4, <1>5, <1>6 DEF AllPass
  <1>8. NodeFits(c.expected, c.actual, c.depth, c.flexible)
    BY <1>1, ContentsMustMatch DEF NodeFits
  <1>9. Matches(n, c.expected, c.actual, c.depth, c.flexible) <=>
          \A s \in Segments(c.expected) : MatchesBelow(s)
    BY <1>1, <1>8, MatchesUnfold DEF MatchesBelow
  <1>10. Compares(InTurn(checks), n, c)
    BY <1>6, <1>7, <1>9, InTurnIsCheck DEF Compares
  <1> QED
    BY <1>10 DEF one, key, members

\* The items of an array.
LEMMA ArrayCompares ==
  ASSUME NEW n \in 0 .. MaxHeight, n - 1 \in 0 .. MaxHeight => ComparesUpTo(n - 1),
         NEW c \in Comparison(n), KindOf(c.expected) = "array", KindOf(c.actual) = "array",
         c.depth <= MaxDepth
  PROVE  Compares(InTurn(<<Requires(Len(c.expected.array) = Len(c.actual.array),
                                    c.path, "ValueMismatch")>>
                           \o [i \in Common(c) |-> CompareUpTo[n - 1][Below(c, Index(i))]]), n, c)
  <1> DEFINE items == c.expected.array
             others == c.actual.array
             same == Len(items) = Len(others)
             common == IF Len(items) < Len(others) THEN Len(items) ELSE Len(others)
             one(i) == CompareUpTo[n - 1][Below(c, Index(i))]
             checks == [i \in 1 .. common |-> one(i)]
             length == Requires(same, c.path, "ValueMismatch")
             MatchesBelow(s) == Matches(n - 1, Child(c.expected, s), Child(c.actual, s), c.depth + 1, FALSE)
  <1>1. /\ c.expected \in JsonUpTo[n] /\ c.path \in Path /\ c.depth \in Nat
        /\ c.flexible \in BOOLEAN /\ TypeMatches(c) /\ IsStructured(c.expected)
        /\ MaxHeight \in 0 .. MaxHeight /\ c.actual \in JsonUpTo[MaxHeight]
    BY HeightAssumption DEF Comparison, TypeMatches, IsNumber, IsStructured, Json
  <1>2. n - 1 \in 0 .. MaxHeight /\ items \in Seq(JsonUpTo[n - 1])
    BY <1>1, JsonForms
  <1>3. others \in Seq(JsonUpTo[MaxHeight - 1])
    BY <1>1, JsonForms
  <1>4. /\ DOMAIN items = 1 .. Len(items) /\ Len(items) \in Nat
        /\ DOMAIN others = 1 .. Len(others) /\ Len(others) \in Nat /\ common \in Nat
        /\ \A i \in 1 .. common : i \in DOMAIN items /\ i \in DOMAIN others
        /\ same => common = Len(items)
    BY <1>2, <1>3
  <1>5. Segments(c.expected) = {Index(i) : i \in DOMAIN items}
    BY DEF Segments
  <1>6. ASSUME NEW i \in 1 .. common
        PROVE  one(i) \in Check /\ (Passes(one(i)) <=> MatchesBelow(Index(i)))
    <2>1. Index(i) \in Segments(c.expected)
      BY <1>1, <1>4, ItemChild
    <2>2. Index(i) \in Segments(c.actual)
      BY <1>1, <1>4, ItemChild
    <2>3. Below(c, Index(i)) \in Comparison(n - 1)
      BY <2>1, <2>2, BelowIsComparison
    <2>4. Compares(CompareUpTo[n - 1][Below(c, Index(i))], n - 1, Below(c, Index(i)))
      BY <1>2, <2>3 DEF ComparesUpTo
    <2> QED
      BY <2>4 DEF Compares, Below, Compared
  <1>7. length \in Check /\ (Passes(length) <=> same)
    <2>1. same \in BOOLEAN /\ "ValueMismatch" \in FailureKind
      BY DEF FailureKind
    <2> HIDE DEF same
    <2> QED
      BY <1>1, <2>1, RequiresIff
  <1>8. NodeFits(c.expected, c.actual, c.depth, c.flexible) <=> same
    BY <1>1, ContentsMustMatch DEF NodeFits
  <1>9. Matches(n, c.expected, c.actual, c.depth, c.flexible) <=>
          same /\ \A s \in Segments(c.expected) : MatchesBelow(s)
    <2>1. Matches(n, c.expected, c.actual, c.depth, c.flexible) <=>
            /\ NodeFits(c.expected, c.actual, c.depth, c.flexible)
            /\ \A s \in Segments(c.expected) : MatchesBelow(s)
      BY <1>1, MatchesUnfold
    <2> HIDE DEF same, MatchesBelow
    <2> QED
      BY <1>8, <2>1
  <1> HIDE DEF one, MatchesBelow, items, others, same, common, length
  <1>10. checks \in Seq(Check) /\ DOMAIN checks = 1 .. common /\ \A i \in DOMAIN checks : checks[i] = one(i)
    BY <1>4, <1>6, FunctionIsSequence
  <1>11. AllPass(checks) <=> \A i \in 1 .. common : MatchesBelow(Index(i))
    BY <1>6, <1>10 DEF AllPass
  <1>12. same => (AllPass(checks) <=> \A s \in Segments(c.expected) : MatchesBelow(s))
    BY <1>4, <1>5, <1>11
  <1> HIDE DEF checks
  <1>13. <<length>> \in Seq(Check) /\ (AllPass(<<length>>) <=> same)
    BY <1>7, FewChecks
  <1>14. /\ <<length>> \o checks \in Seq(Check)
         /\ AllPass(<<length>> \o checks) <=> same /\ AllPass(checks)
    BY <1>10, <1>13, MoreChecks
  <1>15. Compares(InTurn(<<length>> \o checks), n, c)
    BY <1>9, <1>12, <1>14, InTurnIsCheck DEF Compares
  <1> QED
    BY <1>15 DEF one, items, others, same, common, length, checks, Common

\* Numbers, texts and the like.
LEMMA ScalarCompares ==
  ASSUME NEW n \in 0 .. MaxHeight, NEW c \in Comparison(n), TypeMatches(c), ~ IsStructured(c.expected)
  PROVE  /\ IsNumber(c.expected) =>
              Compares(Requires(NumbersEqual(c.expected, c.actual), c.path, "ValueMismatch"), n, c)
         /\ ~ IsNumber(c.expected) =>
              Compares(Requires(c.expected = c.actual, c.path, "ValueMismatch"), n, c)
  <1>1. /\ c.expected \in JsonUpTo[n] /\ c.path \in Path /\ c.depth \in Nat /\ c.flexible \in BOOLEAN
        /\ "ValueMismatch" \in FailureKind
    BY DEF Comparison, FailureKind
  <1>2. Segments(c.expected) = {}
    BY DEF Segments, IsStructured
  <1>3. Matches(n, c.expected, c.actual, c.depth, c.flexible)
          <=> NodeMatches(c.expected, c.actual, c.flexible)
    BY <1>1, <1>2, MatchesUnfold DEF NodeFits
  <1> DEFINE holds == IF IsNumber(c.expected) THEN NumbersEqual(c.expected, c.actual)
                      ELSE c.expected = c.actual
  <1>4. NodeMatches(c.expected, c.actual, c.flexible) <=> holds
    BY ContentsMustMatch
  <1>5. holds \in BOOLEAN
    BY DEF NumbersEqual
  <1>6. Compares(Requires(holds, c.path, "ValueMismatch"), n, c)
    <2> HIDE DEF holds
    <2> QED
      BY <1>1, <1>3, <1>4, <1>5, RequiresIff DEF Compares
  <1>7. ASSUME IsNumber(c.expected)
        PROVE  Requires(holds, c.path, "ValueMismatch")
                 = Requires(NumbersEqual(c.expected, c.actual), c.path, "ValueMismatch")
    BY <1>7
  <1>8. ASSUME ~ IsNumber(c.expected)
        PROVE  Requires(holds, c.path, "ValueMismatch")
                 = Requires(c.expected = c.actual, c.path, "ValueMismatch")
    BY <1>8
  <1> QED
    BY <1>6, <1>7, <1>8

\* What CompareUpTo is.
LEMMA CompareForms ==
  ASSUME NEW n \in 0 .. MaxHeight, NEW c \in Comparison(n)
  PROVE  CompareUpTo[n][c] =
     IF ~ TypeMatches(c) THEN Fails(c.path, "TypeMismatch")
     ELSE IF IsStructured(c.expected) /\ c.depth > MaxDepth THEN Fails(c.path, "InvalidBody")
     ELSE IF KindOf(c.expected) = "object"
     THEN InTurn([i \in DOMAIN c.expected.object |->
                    LET s == Key(c.expected.object[i].key)
                    IN IF s \in Segments(c.actual) THEN CompareUpTo[n - 1][Below(c, s)]
                       ELSE Fails(Append(c.path, s), "MissingField")])
     ELSE IF KindOf(c.expected) = "array"
     THEN InTurn(<<Requires(Len(c.expected.array) = Len(c.actual.array),
                            c.path, "ValueMismatch")>>
                   \o [i \in Common(c) |-> CompareUpTo[n - 1][Below(c, Index(i))]])
     ELSE IF IsNumber(c.expected)
     THEN Requires(NumbersEqual(c.expected, c.actual), c.path, "ValueMismatch")
     ELSE Requires(c.expected = c.actual, c.path, "ValueMismatch")
  <1>1. CompareUpTo[n] = ComparesStep(n, CompareUpTo[n - 1])
    BY ComparesEquation
  <1> QED
    BY <1>1 DEF ComparesStep

\* What matches has a root that fits.
LEMMA MatchesRoot ==
  ASSUME NEW n \in 0 .. MaxHeight, NEW e \in JsonUpTo[n], NEW a, NEW depth \in Nat,
         NEW flexible \in BOOLEAN, Matches(n, e, a, depth, flexible)
  PROVE  NodeFits(e, a, depth, flexible)
  BY MatchesUnfold

\* A comparison that fails as a whole.
LEMMA FailCompares ==
  ASSUME NEW n \in 0 .. MaxHeight, NEW c \in Comparison(n), NEW kind \in FailureKind,
         ~ NodeFits(c.expected, c.actual, c.depth, c.flexible)
  PROVE  Compares(Fails(c.path, kind), n, c)
  <1>1. c.expected \in JsonUpTo[n] /\ c.path \in Path /\ c.depth \in Nat /\ c.flexible \in BOOLEAN
    BY DEF Comparison
  <1>2. ~ Matches(n, c.expected, c.actual, c.depth, c.flexible)
    BY <1>1, MatchesRoot
  <1> QED
    BY <1>1, <1>2, RequiresIsCheck DEF Compares

\* One height after the other.
LEMMA CompareStep ==
  ASSUME NEW n \in 0 .. MaxHeight, n - 1 \in 0 .. MaxHeight => ComparesUpTo(n - 1)
  PROVE  ComparesUpTo(n)
  <1>1. ASSUME NEW c \in Comparison(n)
        PROVE  Compares(CompareUpTo[n][c], n, c)
    <2>1. c.depth \in Nat /\ MaxDepth \in Nat /\ {"TypeMismatch", "InvalidBody"} \subseteq FailureKind
      BY DepthAssumption DEF Comparison, FailureKind
    <2>2. CASE ~ TypeMatches(c)
      <3>1. CompareUpTo[n][c] = Fails(c.path, "TypeMismatch")
        BY <2>2, CompareForms
      <3>2. ~ NodeFits(c.expected, c.actual, c.depth, c.flexible)
        BY <2>2, TypesMustMatch DEF NodeFits
      <3> QED
        BY <2>1, <3>1, <3>2, FailCompares
    <2>3. CASE TypeMatches(c) /\ IsStructured(c.expected) /\ c.depth > MaxDepth
      <3>1. CompareUpTo[n][c] = Fails(c.path, "InvalidBody")
        BY <2>3, CompareForms
      <3>2. ~ NodeFits(c.expected, c.actual, c.depth, c.flexible)
        BY <2>1, <2>3 DEF NodeFits
      <3> QED
        BY <2>1, <3>1, <3>2, FailCompares
    <2>4. CASE TypeMatches(c) /\ IsStructured(c.expected) /\ ~ (c.depth > MaxDepth)
      <3>1. KindOf(c.actual) = KindOf(c.expected) /\ c.depth <= MaxDepth
        BY <2>1, <2>4 DEF TypeMatches, IsStructured, IsNumber
      <3>2. CASE KindOf(c.expected) = "object"
        BY <2>4, <3>1, <3>2, CompareForms, ObjectCompares
      <3>3. CASE KindOf(c.expected) = "array"
        BY <2>4, <3>1, <3>3, CompareForms, ArrayCompares
      <3> QED
        BY <2>4, <3>2, <3>3 DEF IsStructured
    <2>5. CASE TypeMatches(c) /\ ~ IsStructured(c.expected)
      BY <2>5, CompareForms, ScalarCompares DEF IsStructured
    <2> QED
      BY <2>2, <2>3, <2>4, <2>5
  <1> QED
    BY <1>1 DEF ComparesUpTo

\* Comparisons of every height.
LEMMA CompareMatches == \A n \in 0 .. MaxHeight : ComparesUpTo(n)
  <1> DEFINE Bad == {m \in 0 .. MaxHeight : ~ ComparesUpTo(m)}
  <1>1. ASSUME NEW m \in Bad, \A k \in Bad : m <= k
        PROVE  FALSE
    <2>1. ~ (m <= m - 1)
      BY HeightAssumption
    <2>2. m - 1 \in 0 .. MaxHeight => ComparesUpTo(m - 1)
      BY <1>1, <2>1
    <2> QED
      BY <2>2, CompareStep
  <1>2. Bad \in SUBSET Nat
    BY HeightAssumption
  <1>3. Bad = {}
    BY <1>1, <1>2, LeastNumber
  <1> QED
    BY <1>3

\* compare_json is a check that passes if the value matches.
LEMMA CompareJsonMatches ==
  ASSUME NEW e \in Json, NEW a \in Json, NEW path \in Path, NEW depth \in Nat,
         NEW flexible \in BOOLEAN
  PROVE  /\ CompareJson(e, a, path, depth, flexible) \in Check
         /\ Passes(CompareJson(e, a, path, depth, flexible)) <=> ValueMatches(e, a, depth, flexible)
  <1> DEFINE c == Compared(e, a, path, depth, flexible)
  <1>1. MaxHeight \in 0 .. MaxHeight
    BY HeightAssumption
  <1>2. c \in Comparison(MaxHeight)
    BY DEF Compared, Comparison, Json
  <1>3. Compares(CompareUpTo[MaxHeight][c], MaxHeight, c)
    BY <1>1, <1>2, CompareMatches DEF ComparesUpTo
  <1>4. Matches(MaxHeight, e, a, depth, flexible) <=> ValueMatches(e, a, depth, flexible)
    BY DEF Matches, ValueMatches, FitsAt, Paths
  <1> QED
    BY <1>3, <1>4 DEF Compares, CompareJson, Compared

(***************************************************************************)
(* Object assertions: the scopes are right wherever there is an object.    *)
(***************************************************************************)
FitsScope(s, actual, depth) ==
  KindOf(At(actual, s.path)) = "object"
    => ScopeMatches(s.assertion, At(actual, s.path), depth + Len(s.path))

ObjectMatches(n, a, actual, depth) == \A s \in ScopesUpTo[n][a] : FitsScope(s, actual, depth)

\* The scopes of an assertion are itself and those of the nested ones.
LEMMA ScopesUnfold ==
  ASSUME NEW n \in 0 .. MaxHeight, NEW a \in AssertionUpTo[n]
  PROVE  ScopesUpTo[n][a] =
           {[path |-> <<>>, assertion |-> a]}
             \cup (UNION {IF a.fields[i].nested = <<>> THEN {}
                          ELSE Under(a.fields[i].name, ScopesUpTo[n - 1][a.fields[i].nested[1]]) :
                            i \in DOMAIN a.fields})
  <1>1. ScopesUpTo[n] = ScopesStep(n, ScopesUpTo[n - 1])
    BY ScopesEquation
  <1> QED
    BY <1>1 DEF ScopesStep

\* The key of a name is a segment.
LEMMA KeyIsSegment ==
  ASSUME NEW k \in STRING
  PROVE  Key(k) \in [key : STRING] \cup [index : Nat]
  BY DEF Key

\* Scopes are at paths.
LEMMA ScopePaths ==
  \A n \in 0 .. MaxHeight : \A a \in AssertionUpTo[n] : \A s \in ScopesUpTo[n][a] : s.path \in Path
  <1> DEFINE Good(m) == \A a \in AssertionUpTo[m] : \A s \in ScopesUpTo[m][a] : s.path \in Path
             Bad == {m \in 0 .. MaxHeight : ~ Good(m)}
  <1>1. ASSUME NEW m \in Bad, \A k \in Bad : m <= k
        PROVE  FALSE
    <2>1. ~ (m <= m - 1)
      BY HeightAssumption
    <2>2. m - 1 \in 0 .. MaxHeight => Good(m - 1)
      BY <1>1, <2>1
    <2>3. ASSUME NEW a \in AssertionUpTo[m], NEW s \in ScopesUpTo[m][a]
          PROVE  s.path \in Path
      <3>1. CASE s = [path |-> <<>>, assertion |-> a]
        BY <3>1 DEF Path
      <3>2. CASE s # [path |-> <<>>, assertion |-> a]
        <4>1. PICK i \in DOMAIN a.fields : a.fields[i].nested # <<>>
                 /\ s \in Under(a.fields[i].name, ScopesUpTo[m - 1][a.fields[i].nested[1]])
          BY <3>2, ScopesUnfold
        <4>2. PICK t \in ScopesUpTo[m - 1][a.fields[i].nested[1]] :
                 s.path = <<Key(a.fields[i].name)>> \o t.path
          BY <4>1 DEF Under
        <4>3. /\ m - 1 \in 0 .. MaxHeight /\ a.fields[i].nested[1] \in AssertionUpTo[m - 1]
              /\ a.fields[i].name \in STRING
          BY <4>1, FieldForms
        <4>4. t.path \in Path
          BY <2>2, <4>2, <4>3
        <4>5. Key(a.fields[i].name) \in [key : STRING] \cup [index : Nat]
          BY <4>3, KeyIsSegment
        <4> QED
          BY <4>2, <4>4, <4>5 DEF Path
      <3> QED
        BY <3>1, <3>2
    <2> QED
      BY <2>3
  <1>2. Bad \in SUBSET Nat
    BY HeightAssumption
  <1> HIDE DEF Good
  <1>3. Bad = {}
    BY <1>1, <1>2, LeastNumber
  <1>4. \A n \in 0 .. MaxHeight : Good(n)
    BY <1>3
  <1> QED
    BY <1>4 DEF Good

\* At the root.
LEMMA FitsScopeAtRoot ==
  ASSUME NEW a, NEW actual, NEW depth \in Nat
  PROVE  FitsScope([path |-> <<>>, assertion |-> a], actual, depth)
           <=> (KindOf(actual) = "object" => ScopeMatches(a, actual, depth))
  <1>1. At(actual, <<>>) = actual
    BY AtRoot
  <1>2. depth + Len(<<>>) = depth
    OBVIOUS
  <1> QED
    BY <1>1, <1>2 DEF FitsScope

\* Down one path and then another.
LEMMA AtPath == \A v : \A p, q \in Path : At(v, p \o q) = At(At(v, p), q)
  BY AtConcat DEF Path

\* A path that goes on from a child is one longer.
LEMMA LongerPath ==
  ASSUME NEW s \in [key : STRING] \cup [index : Nat], NEW q \in Path, NEW depth \in Nat
  PROVE  /\ depth + Len(<<s>> \o q) = (depth + 1) + Len(q)
         /\ \A v : At(v, <<s>> \o q) = At(Child(v, s), q)
  <1>1. Len(<<s>> \o q) = 1 + Len(q) /\ Len(q) \in Nat
    BY DEF Path
  <1>2. <<s>> \in Path
    BY DEF Path
  <1>3. \A v : At(v, <<s>> \o q) = At(At(v, <<s>>), q)
    BY <1>2, AtPath
  <1> QED
    BY <1>1, <1>3, AtChild

\* Below a field.
LEMMA FitsScopeBelow ==
  ASSUME NEW k \in STRING, NEW t, t.path \in Path, NEW actual, NEW depth \in Nat
  PROVE  FitsScope([path |-> <<Key(k)>> \o t.path, assertion |-> t.assertion], actual, depth)
           <=> FitsScope(t, Child(actual, Key(k)), depth + 1)
  <1>1. /\ depth + Len(<<Key(k)>> \o t.path) = (depth + 1) + Len(t.path)
        /\ At(actual, <<Key(k)>> \o t.path) = At(Child(actual, Key(k)), t.path)
    BY KeyIsSegment, LongerPath
  <1> QED
    BY <1>1 DEF FitsScope

\* What is nested in a field.
NestedMatches(n, a, actual, depth, i) ==
  a.fields[i].nested # <<>> =>
    ObjectMatches(n - 1, a.fields[i].nested[1], Child(actual, Key(a.fields[i].name)), depth + 1)

\* An assertion holds if its own scope does and the nested ones do.
LEMMA ObjectUnfold ==
  ASSUME NEW n \in 0 .. MaxHeight, NEW a \in AssertionUpTo[n], NEW actual, NEW depth \in Nat
  PROVE  ObjectMatches(n, a, actual, depth) <=>
           /\ KindOf(actual) = "object" => ScopeMatches(a, actual, depth)
           /\ \A i \in DOMAIN a.fields : NestedMatches(n, a, actual, depth, i)
  <1> DEFINE root == [path |-> <<>>, assertion |-> a]
             inner(i) == ScopesUpTo[n - 1][a.fields[i].nested[1]]
             below(i) == IF a.fields[i].nested = <<>> THEN {} ELSE Under(a.fields[i].name, inner(i))
             Fit(s) == FitsScope(s, actual, depth)
  <1>1. ScopesUpTo[n][a] = {root} \cup (UNION {below(i) : i \in DOMAIN a.fields})
    BY ScopesUnfold
  <1>2. Fit(root) <=> (KindOf(actual) = "object" => ScopeMatches(a, actual, depth))
    BY FitsScopeAtRoot
  <1>3. ASSUME NEW i \in DOMAIN a.fields
        PROVE  (\A s \in below(i) : Fit(s)) <=> NestedMatches(n, a, actual, depth, i)
    <2>1. CASE a.fields[i].nested = <<>>
      BY <2>1 DEF NestedMatches
    <2>2. CASE a.fields[i].nested # <<>>
      <3>1. /\ n - 1 \in 0 .. MaxHeight /\ a.fields[i].nested[1] \in AssertionUpTo[n - 1]
            /\ a.fields[i].name \in STRING
        BY <2>2, FieldForms
      <3>2. \A t \in inner(i) : t.path \in Path
        BY <3>1, ScopePaths
      <3>3. ASSUME NEW t \in inner(i)
            PROVE  Fit([path |-> <<Key(a.fields[i].name)>> \o t.path, assertion |-> t.assertion])
                     <=> FitsScope(t, Child(actual, Key(a.fields[i].name)), depth + 1)
        BY <3>1, <3>2, FitsScopeBelow
      <3>4. below(i) = {[path |-> <<Key(a.fields[i].name)>> \o t.path, assertion |-> t.assertion] :
                          t \in inner(i)}
        BY <2>2 DEF Under
      <3> HIDE DEF Fit, below
      <3>5. (\A s \in below(i) : Fit(s)) <=>
              \A t \in inner(i) : FitsScope(t, Child(actual, Key(a.fields[i].name)), depth + 1)
        BY <3>3, <3>4
      <3> QED
        BY <2>2, <3>5 DEF NestedMatches, ObjectMatches
    <2> QED
      BY <2>1, <2>2
  <1>4. ObjectMatches(n, a, actual, depth) <=> \A s \in ScopesUpTo[n][a] : Fit(s)
    BY DEF ObjectMatches
  <1> HIDE DEF Fit, root, below
  <1>5. (\A s \in ScopesUpTo[n][a] : Fit(s)) <=>
          Fit(root) /\ \A i \in DOMAIN a.fields : \A s \in below(i) : Fit(s)
    BY <1>1
  <1> QED
    BY <1>2, <1>3, <1>4, <1>5

\* Where there is no object, there is nothing to match.
LEMMA NothingToMatch ==
  \A n \in 0 .. MaxHeight : \A a \in AssertionUpTo[n] : \A v : \A depth \in Nat :
     KindOf(v) # "object" /\ (\A k \in STRING : Key(k) \notin Segments(v))
       => ObjectMatches(n, a, v, depth)
  <1> DEFINE Good(m) == \A a \in AssertionUpTo[m] : \A v : \A depth \in Nat :
                KindOf(v) # "object" /\ (\A k \in STRING : Key(k) \notin Segments(v))
                  => ObjectMatches(m, a, v, depth)
             Bad == {m \in 0 .. MaxHeight : ~ Good(m)}
  <1>1. ASSUME NEW m \in Bad, \A k \in Bad : m <= k
        PROVE  FALSE
    <2>1. ~ (m <= m - 1)
      BY HeightAssumption
    <2>2. m - 1 \in 0 .. MaxHeight => Good(m - 1)
      BY <1>1, <2>1
    <2>3. ASSUME NEW a \in AssertionUpTo[m], NEW v, NEW depth \in Nat,
                 KindOf(v) # "object", \A k \in STRING : Key(k) \notin Segments(v)
          PROVE  ObjectMatches(m, a, v, depth)
      <3>1. ASSUME NEW i \in DOMAIN a.fields, a.fields[i].nested # <<>>
            PROVE  ObjectMatches(m - 1, a.fields[i].nested[1],
                                 Child(v, Key(a.fields[i].name)), depth + 1)
        <4>1. /\ m - 1 \in 0 .. MaxHeight /\ a.fields[i].nested[1] \in AssertionUpTo[m - 1]
              /\ a.fields[i].name \in STRING
          BY <3>1, FieldForms
        <4>2. Child(v, Key(a.fields[i].name)) = Missing
          BY <2>3, <4>1, NoChild
        <4>3. KindOf(Missing) # "object" /\ Segments(Missing) = {}
          BY MissingForm
        <4>4. depth + 1 \in Nat
          OBVIOUS
        <4> QED
          BY <2>2, <4>1, <4>2, <4>3, <4>4
      <3>2. \A i \in DOMAIN a.fields : NestedMatches(m, a, v, depth, i)
        BY <3>1 DEF NestedMatches
      <3> QED
        BY <2>3, <3>2, ObjectUnfold
    <2> QED
      BY <2>3
  <1>2. Bad \in SUBSET Nat
    BY HeightAssumption
  <1> HIDE DEF Good
  <1>3. Bad = {}
    BY <1>1, <1>2, LeastNumber
  <1>4. \A n \in 0 .. MaxHeight : Good(n)
    BY <1>3
  <1> QED
    BY <1>4 DEF Good

\* A value that is no object has no members.
LEMMA NoMembers ==
  ASSUME NEW v \in Json, KindOf(v) # "object"
  PROVE  \A k \in STRING : Key(k) \notin Segments(v)
  <1>1. CASE KindOf(v) = "array"
    <2>1. \A i \in DOMAIN v.array : \A k \in STRING : Index(i) # Key(k)
      <3>1. \A i : DOMAIN Index(i) = {"index"}
        BY DEF Index
      <3>2. \A k : DOMAIN Key(k) = {"key"}
        BY DEF Key
      <3>3. {"index"} # {"key"}
        OBVIOUS
      <3> QED
        BY <3>1, <3>2, <3>3
    <2> QED
      BY <1>1, <2>1 DEF Segments
  <1>2. CASE KindOf(v) # "array"
    BY <1>2 DEF Segments
  <1> QED
    BY <1>1, <1>2

\* What an object assertion has to find out.
Asserts(F, n, place) ==
  F \in Check /\ (Passes(F) <=> ObjectMatches(n, place.assertion, place.actual, place.depth))

AssertsUpTo(n) ==
  \A place \in Place(n) :
     KindOf(place.actual) = "object" => Asserts(AssertObjectUpTo[n][place], n, place)

\* One field of a scope.
FieldMatches(place, i) ==
  /\ FieldValue(place, i) # Missing
  /\ HasType(FieldValue(place, i), FieldOf(place, i).type)
  /\ \A j \in DOMAIN FieldOf(place, i).value :
       ValueMatches(FieldOf(place, i).value[j], FieldValue(place, i), place.depth + 1,
                    FieldOf(place, i).type = "number")

\* The members of an exact object.
MembersMatch(place) ==
  place.assertion.mode = "exact" =>
    \A i \in DOMAIN place.actual.object :
       place.actual.object[i].key \in DeclaredNames(place.assertion)

\* A scope at its place.
LEMMA ScopeAtPlace ==
  \A place : ScopeMatches(place.assertion, place.actual, place.depth) <=>
               /\ place.depth <= MaxDepth
               /\ \A i \in DOMAIN place.assertion.fields : FieldMatches(place, i)
               /\ MembersMatch(place)
  BY DEF ScopeMatches, FieldMatches, MembersMatch, FieldValue, FieldKey, FieldOf

\* The value of a field that is there.
LEMMA FieldIsThere ==
  ASSUME NEW n \in 0 .. MaxHeight, NEW place \in Place(n), NEW i \in DOMAIN place.assertion.fields
  PROVE  /\ FieldPath(place, i) \in Path
         /\ FieldKey(place, i) \in Segments(place.actual) =>
              FieldValue(place, i) \in Json /\ FieldValue(place, i) # Missing
         /\ FieldKey(place, i) \notin Segments(place.actual) => FieldValue(place, i) = Missing
  <1>1. /\ place.assertion \in AssertionUpTo[n] /\ place.actual \in JsonUpTo[MaxHeight]
        /\ place.path \in Path /\ MaxHeight \in 0 .. MaxHeight
    BY HeightAssumption DEF Place, Json
  <1>2. FieldKey(place, i) \in [key : STRING] \cup [index : Nat]
    BY <1>1, FieldForms, KeyIsSegment DEF FieldKey, FieldOf
  <1>3. FieldPath(place, i) \in Path
    BY <1>1, <1>2 DEF FieldPath, Path
  <1>4. ASSUME FieldKey(place, i) \in Segments(place.actual)
        PROVE  FieldValue(place, i) \in Json /\ FieldValue(place, i) # Missing
    <2>1. FieldValue(place, i) \in Json
      BY <1>1, <1>4, ChildForm DEF FieldValue
    <2> QED
      BY <1>1, <2>1, JsonIsThere DEF Json
  <1> QED
    BY <1>3, <1>4, NoChild DEF FieldValue

\* The expected values of a field.
LEMMA FieldCompares ==
  ASSUME NEW n \in 0 .. MaxHeight, NEW place \in Place(n),
         NEW i \in DOMAIN place.assertion.fields,
         FieldKey(place, i) \in Segments(place.actual),
         HasType(FieldValue(place, i), FieldOf(place, i).type)
  PROVE  /\ FieldComparison(place, i) \in Seq(Check)
         /\ AllPass(FieldComparison(place, i)) <=> FieldMatches(place, i)
  <1> DEFINE value == FieldOf(place, i).value
             flexible == FieldOf(place, i).type = "number"
             one(j) == CompareJson(value[j], FieldValue(place, i), FieldPath(place, i),
                                   place.depth + 1, flexible)
             checks == [j \in DOMAIN value |-> one(j)]
             Fit(j) == ValueMatches(value[j], FieldValue(place, i), place.depth + 1, flexible)
  <1>1. /\ place.assertion \in AssertionUpTo[n] /\ place.depth + 1 \in Nat
        /\ flexible \in BOOLEAN
    BY DEF Place
  <1>2. value \in Seq(Json)
    BY <1>1, FieldForms DEF FieldOf
  <1>3. DOMAIN value = 1 .. Len(value) /\ Len(value) \in Nat /\ \A j \in DOMAIN value : value[j] \in Json
    BY <1>2
  <1>4. FieldValue(place, i) \in Json /\ FieldValue(place, i) # Missing /\ FieldPath(place, i) \in Path
    BY FieldIsThere
  <1>5. ASSUME NEW j \in DOMAIN value
        PROVE  one(j) \in Check /\ (Passes(one(j)) <=> Fit(j))
    <2> HIDE DEF flexible
    <2> QED
      BY <1>1, <1>3, <1>4, CompareJsonMatches
  <1>6. FieldMatches(place, i) <=> \A j \in DOMAIN value : Fit(j)
    BY <1>4 DEF FieldMatches
  <1>7. FieldComparison(place, i) = checks
    BY DEF FieldComparison
  <1> HIDE DEF one, Fit, value
  <1>8. checks \in Seq(Check) /\ DOMAIN checks = DOMAIN value /\ \A j \in DOMAIN checks : checks[j] = one(j)
    BY <1>3, <1>5, FunctionIsSequence
  <1>9. AllPass(checks) <=> \A j \in DOMAIN value : Fit(j)
    BY <1>5, <1>8 DEF AllPass
  <1> QED
    BY <1>6, <1>7, <1>8, <1>9

\* The members of an exact object.
LEMMA MembersCheck ==
  ASSUME NEW n \in 0 .. MaxHeight, NEW place \in Place(n), KindOf(place.actual) = "object"
  PROVE  /\ UnexpectedFields(place) \in Seq(Check)
         /\ AllPass(UnexpectedFields(place)) <=> MembersMatch(place)
  <1> DEFINE members == place.actual.object
             declared(i) == members[i].key \in DeclaredNames(place.assertion)
             path(i) == Append(place.path, Key(members[i].key))
             one(i) == Requires(declared(i), path(i), "UnexpectedField")
             checks == [i \in DOMAIN members |-> one(i)]
  <1>1. /\ place.assertion \in AssertionUpTo[n] /\ place.actual \in JsonUpTo[MaxHeight]
        /\ place.path \in Path /\ MaxHeight \in 0 .. MaxHeight
    BY HeightAssumption DEF Place, Json
  <1>2. members \in Seq([key : STRING, value : JsonUpTo[MaxHeight - 1]])
    BY <1>1, JsonForms DEF Members
  <1>3. DOMAIN members = 1 .. Len(members) /\ Len(members) \in Nat
    BY <1>2
  <1>4. ASSUME NEW i \in DOMAIN members
        PROVE  one(i) \in Check /\ (Passes(one(i)) <=> declared(i))
    <2>1. Key(members[i].key) \in [key : STRING] \cup [index : Nat]
      BY <1>1, MemberChild
    <2>2. path(i) \in Path
      BY <1>1, <2>1 DEF Path
    <2>3. declared(i) \in BOOLEAN /\ "UnexpectedField" \in FailureKind
      BY DEF FailureKind
    <2> HIDE DEF declared, path
    <2> QED
      BY <2>2, <2>3, RequiresIff
  <1>5. CASE place.assertion.mode = "partial"
    <2>1. UnexpectedFields(place) = <<>>
      BY <1>5 DEF UnexpectedFields
    <2>2. MembersMatch(place)
      BY <1>5 DEF MembersMatch
    <2> QED
      BY <2>1, <2>2, FewChecks
  <1>6. CASE place.assertion.mode # "partial"
    <2>1. place.assertion.mode \in {"partial", "exact"}
      <3>1. ASSUME NEW S, NEW x \in Assertion(S)
            PROVE  x.mode \in {"partial", "exact"}
        BY DEF Assertion
      <3> QED
        BY <1>1, <3>1, AssertionsEquation DEF AssertionsStep
    <2>2. UnexpectedFields(place) = checks
      BY <1>6 DEF UnexpectedFields
    <2>3. MembersMatch(place) <=> \A i \in DOMAIN members : declared(i)
      BY <1>6, <2>1 DEF MembersMatch
    <2> HIDE DEF one, declared, members
    <2>4. checks \in Seq(Check) /\ DOMAIN checks = DOMAIN members /\ \A i \in DOMAIN checks : checks[i] = one(i)
      BY <1>3, <1>4, FunctionIsSequence
    <2>5. AllPass(checks) <=> \A i \in DOMAIN members : declared(i)
      BY <1>4, <2>4 DEF AllPass
    <2> QED
      BY <2>2, <2>3, <2>4, <2>5
  <1> QED
    BY <1>5, <1>6

\* What AssertObjectUpTo does with a field.
FieldCheck(n, place, i) ==
  IF FieldKey(place, i) \notin Segments(place.actual)
  THEN Fails(FieldPath(place, i), "MissingField")
  ELSE IF ~ HasType(FieldValue(place, i), FieldOf(place, i).type)
  THEN Fails(FieldPath(place, i), "TypeMismatch")
  ELSE InTurn(FieldComparison(place, i)
                \o IF FieldOf(place, i).nested = <<>>
                        \/ KindOf(FieldValue(place, i)) # "object"
                   THEN <<>>
                   ELSE <<AssertObjectUpTo[n - 1][Nested(place, i)]>>)

\* What AssertObjectUpTo is.
LEMMA AssertObjectForms ==
  ASSUME NEW n \in 0 .. MaxHeight, NEW place \in Place(n)
  PROVE  AssertObjectUpTo[n][place] =
     IF place.depth > MaxDepth THEN Fails(place.path, "InvalidBody")
     ELSE InTurn([i \in DOMAIN place.assertion.fields |-> FieldCheck(n, place, i)]
                   \o UnexpectedFields(place))
  <1>1. AssertObjectUpTo[n] = PlacesStep(n, AssertObjectUpTo[n - 1])
    BY PlacesEquation
  <1> QED
    BY <1>1 DEF PlacesStep, FieldCheck

\* The assertion nested in a field.
LEMMA NestedIsPlace ==
  ASSUME NEW n \in 0 .. MaxHeight, NEW place \in Place(n),
         NEW i \in DOMAIN place.assertion.fields,
         FieldKey(place, i) \in Segments(place.actual), FieldOf(place, i).nested # <<>>
  PROVE  n - 1 \in 0 .. MaxHeight /\ Nested(place, i) \in Place(n - 1)
  <1>1. place.assertion \in AssertionUpTo[n] /\ place.depth + 1 \in Nat
    BY DEF Place
  <1>2. n - 1 \in 0 .. MaxHeight /\ FieldOf(place, i).nested[1] \in AssertionUpTo[n - 1]
    BY <1>1, FieldForms DEF FieldOf
  <1>3. FieldValue(place, i) \in Json /\ FieldPath(place, i) \in Path
    BY FieldIsThere
  <1> QED
    BY <1>1, <1>2, <1>3 DEF Nested, Place

\* The check of a field, and of what is nested in it.
LEMMA FieldAsserts ==
  ASSUME NEW n \in 0 .. MaxHeight, n - 1 \in 0 .. MaxHeight => AssertsUpTo(n - 1),
         NEW place \in Place(n), NEW i \in DOMAIN place.assertion.fields
  PROVE  /\ FieldCheck(n, place, i) \in Check
         /\ Passes(FieldCheck(n, place, i)) <=>
              /\ FieldMatches(place, i)
              /\ NestedMatches(n, place.assertion, place.actual, place.depth, i)
  <1>1. {"MissingField", "TypeMismatch"} \subseteq FailureKind
    BY DEF FailureKind
  <1>2. FieldPath(place, i) \in Path
    BY FieldIsThere
  <1>3. CASE FieldKey(place, i) \notin Segments(place.actual)
    <2>1. FieldCheck(n, place, i) = Fails(FieldPath(place, i), "MissingField")
      BY <1>3 DEF FieldCheck
    <2>2. ~ FieldMatches(place, i)
      BY <1>3, FieldIsThere DEF FieldMatches
    <2> QED
      BY <1>1, <1>2, <2>1, <2>2, RequiresIsCheck
  <1>4. CASE FieldKey(place, i) \in Segments(place.actual)
             /\ ~ HasType(FieldValue(place, i), FieldOf(place, i).type)
    <2>1. FieldCheck(n, place, i) = Fails(FieldPath(place, i), "TypeMismatch")
      BY <1>4 DEF FieldCheck
    <2>2. ~ FieldMatches(place, i)
      BY <1>4 DEF FieldMatches
    <2> QED
      BY <1>1, <1>2, <2>1, <2>2, RequiresIsCheck
  <1>5. CASE FieldKey(place, i) \in Segments(place.actual)
             /\ HasType(FieldValue(place, i), FieldOf(place, i).type)
    <2> DEFINE F == FieldComparison(place, i)
               G == AssertObjectUpTo[n - 1][Nested(place, i)]
               last == IF FieldOf(place, i).nested = <<>> \/ KindOf(FieldValue(place, i)) # "object"
                       THEN <<>> ELSE <<G>>
    <2>1. FieldCheck(n, place, i) = InTurn(F \o last)
      BY <1>5 DEF FieldCheck
    <2>2. F \in Seq(Check) /\ (AllPass(F) <=> FieldMatches(place, i))
      BY <1>5, FieldCompares
    <2>3. /\ place.assertion \in AssertionUpTo[n] /\ place.depth + 1 \in Nat
          /\ FieldValue(place, i) \in Json
      BY <1>5, FieldIsThere DEF Place
    <2>4. FieldOf(place, i).nested # <<>> =>
            n - 1 \in 0 .. MaxHeight /\ FieldOf(place, i).nested[1] \in AssertionUpTo[n - 1]
      BY <2>3, FieldForms DEF FieldOf
    <2>5. NestedMatches(n, place.assertion, place.actual, place.depth, i) <=>
            (FieldOf(place, i).nested # <<>> =>
               ObjectMatches(n - 1, FieldOf(place, i).nested[1], FieldValue(place, i), place.depth + 1))
      BY DEF NestedMatches, FieldOf, FieldValue, FieldKey
    <2>6. /\ last \in Seq(Check)
          /\ AllPass(last) <=> NestedMatches(n, place.assertion, place.actual, place.depth, i)
      <3>1. CASE FieldOf(place, i).nested = <<>>
        BY <2>5, <3>1, FewChecks
      <3>2. CASE FieldOf(place, i).nested # <<>> /\ KindOf(FieldValue(place, i)) # "object"
        <4>1. ObjectMatches(n - 1, FieldOf(place, i).nested[1], FieldValue(place, i), place.depth + 1)
          BY <2>3, <2>4, <3>2, NoMembers, NothingToMatch
        <4> QED
          BY <2>5, <3>2, <4>1, FewChecks
      <3>3. CASE FieldOf(place, i).nested # <<>> /\ KindOf(FieldValue(place, i)) = "object"
        <4>1. n - 1 \in 0 .. MaxHeight /\ Nested(place, i) \in Place(n - 1)
          BY <1>5, <3>3, NestedIsPlace
        <4>2. Nested(place, i).actual = FieldValue(place, i)
          BY DEF Nested
        <4>3. Asserts(G, n - 1, Nested(place, i))
          BY <3>3, <4>1, <4>2 DEF AssertsUpTo
        <4>4. G \in Check /\ (Passes(G) <=>
                ObjectMatches(n - 1, FieldOf(place, i).nested[1], FieldValue(place, i), place.depth + 1))
          BY <4>3 DEF Asserts, Nested
        <4>5. last = <<G>>
          BY <3>3
        <4> HIDE DEF G, last
        <4> QED
          BY <2>5, <3>3, <4>4, <4>5, FewChecks
      <3> QED
        BY <3>1, <3>2, <3>3
    <2> HIDE DEF F, last
    <2> QED
      BY <2>1, <2>2, <2>6, MoreChecks, InTurnIsCheck
  <1> QED
    BY <1>3, <1>4, <1>5

\* One height after the other.
LEMMA AssertStep ==
  ASSUME NEW n \in 0 .. MaxHeight, n - 1 \in 0 .. MaxHeight => AssertsUpTo(n - 1)
  PROVE  AssertsUpTo(n)
  <1>1. ASSUME NEW place \in Place(n), KindOf(place.actual) = "object"
        PROVE  Asserts(AssertObjectUpTo[n][place], n, place)
    <2> DEFINE fields == place.assertion.fields
               checks == [i \in DOMAIN fields |-> FieldCheck(n, place, i)]
               more == UnexpectedFields(place)
               Inner(i) == NestedMatches(n, place.assertion, place.actual, place.depth, i)
    <2>1. /\ place.assertion \in AssertionUpTo[n] /\ place.depth \in Nat /\ MaxDepth \in Nat
          /\ place.path \in Path /\ "InvalidBody" \in FailureKind
      BY DepthAssumption DEF Place, FailureKind
    <2>2. ObjectMatches(n, place.assertion, place.actual, place.depth) <=>
            /\ ScopeMatches(place.assertion, place.actual, place.depth)
            /\ \A i \in DOMAIN fields : Inner(i)
      BY <1>1, <2>1, ObjectUnfold
    <2>3. CASE place.depth > MaxDepth
      <3>1. AssertObjectUpTo[n][place] = Fails(place.path, "InvalidBody")
        BY <2>3, AssertObjectForms
      <3>2. ~ ScopeMatches(place.assertion, place.actual, place.depth)
        BY <2>1, <2>3 DEF ScopeMatches
      <3> QED
        BY <2>1, <2>2, <3>1, <3>2, RequiresIsCheck DEF Asserts
    <2>4. CASE ~ (place.depth > MaxDepth)
      <3>1. AssertObjectUpTo[n][place] = InTurn(checks \o more)
        BY <2>4, AssertObjectForms
      <3>2. DOMAIN fields = 1 .. Len(fields) /\ Len(fields) \in Nat
        <4>1. ASSUME NEW S, NEW x \in Assertion(S)
              PROVE  DOMAIN x.fields = 1 .. Len(x.fields) /\ Len(x.fields) \in Nat
          BY DEF Assertion
        <4> QED
          BY <2>1, <4>1, AssertionsEquation DEF AssertionsStep
      <3>3. \A i \in DOMAIN fields :
              FieldCheck(n, place, i) \in Check
                /\ (Passes(FieldCheck(n, place, i)) <=> FieldMatches(place, i) /\ Inner(i))
        BY FieldAsserts
      <3>4. more \in Seq(Check) /\ (AllPass(more) <=> MembersMatch(place))
        BY <1>1, MembersCheck
      <3>5. place.depth <= MaxDepth
        BY <2>1, <2>4
      <3>6. ScopeMatches(place.assertion, place.actual, place.depth) <=>
              (\A i \in DOMAIN fields : FieldMatches(place, i)) /\ MembersMatch(place)
        BY <3>5, ScopeAtPlace
      <3> HIDE DEF fields, more, Inner
      <3>7. checks \in Seq(Check) /\ DOMAIN checks = DOMAIN fields
            /\ \A i \in DOMAIN checks : checks[i] = FieldCheck(n, place, i)
        BY <3>2, <3>3, FunctionIsSequence
      <3>8. AllPass(checks) <=> \A i \in DOMAIN fields : FieldMatches(place, i) /\ Inner(i)
        BY <3>3, <3>7 DEF AllPass
      <3> HIDE DEF checks
      <3>9. /\ InTurn(checks \o more) \in Check
            /\ Passes(InTurn(checks \o more)) <=> AllPass(checks) /\ AllPass(more)
        BY <3>4, <3>7, MoreChecks, InTurnIsCheck
      <3> QED
        BY <2>2, <3>1, <3>4, <3>6, <3>8, <3>9 DEF Asserts
    <2> QED
      BY <2>3, <2>4
  <1> QED
    BY <1>1 DEF AssertsUpTo

\* Object assertions of every height.
LEMMA AssertMatches == \A n \in 0 .. MaxHeight : AssertsUpTo(n)
  <1> DEFINE Bad == {m \in 0 .. MaxHeight : ~ AssertsUpTo(m)}
  <1>1. ASSUME NEW m \in Bad, \A k \in Bad : m <= k
        PROVE  FALSE
    <2>1. ~ (m <= m - 1)
      BY HeightAssumption
    <2>2. m - 1 \in 0 .. MaxHeight => AssertsUpTo(m - 1)
      BY <1>1, <2>1
    <2> QED
      BY <2>2, AssertStep
  <1>2. Bad \in SUBSET Nat
    BY HeightAssumption
  <1>3. Bad = {}
    BY <1>1, <1>2, LeastNumber
  <1> QED
    BY <1>3

\* assert_object is a check that passes if all scopes match.
LEMMA AssertObjectMatches ==
  ASSUME NEW a \in AssertionUpTo[MaxHeight], NEW v \in Json, KindOf(v) = "object"
  PROVE  AssertObject(a, v) \in Check /\ (Passes(AssertObject(a, v)) <=> BodyMatches(a, v))
  <1> DEFINE place == [assertion |-> a, actual |-> v, path |-> <<>>, depth |-> 0]
  <1>1. MaxHeight \in 0 .. MaxHeight
    BY HeightAssumption
  <1>2. place \in Place(MaxHeight)
    BY DEF Place, Path
  <1>3. Asserts(AssertObjectUpTo[MaxHeight][place], MaxHeight, place)
    BY <1>1, <1>2, AssertMatches DEF AssertsUpTo
  <1>4. \A s \in Scopes(a) : Len(s.path) \in Nat /\ 0 + Len(s.path) = Len(s.path)
    <2>1. \A s \in Scopes(a) : s.path \in Path
      BY <1>1, ScopePaths DEF Scopes
    <2> QED
      BY <2>1 DEF Path
  <1>5. ObjectMatches(MaxHeight, a, v, 0) <=> BodyMatches(a, v)
    BY <1>4 DEF ObjectMatches, FitsScope, BodyMatches, Scopes
  <1> QED
    BY <1>3, <1>5 DEF Asserts, AssertObject

(***************************************************************************)
(* The whole evaluation.                                                   *)
(***************************************************************************)
StatusMatches(e, a) == \A i \in DOMAIN e.status : e.status[i] = a.status

HeadersMatch(e, a) ==
  \A i \in DOMAIN e.headers : HeaderMatches(e.headers[i], a.headers[e.headers[i].name])

OneBodyMatches(b, a) ==
  CASE b.kind = "empty" -> a.kind = "empty"
    [] b.kind = "text" -> a.kind = "text" /\ TextMatches(b, a.text)
    [] b.kind = "json" -> a.kind = "json" /\ BodyMatches(b.object, a.value)

BodiesMatch(e, a) == \A i \in DOMAIN e.body : OneBodyMatches(e.body[i], a.body)

\* A path of one key.
LEMMA KeyPath ==
  ASSUME NEW k \in STRING
  PROVE  <<Key(k)>> \in Path
  <1>1. ASSUME NEW S, NEW x \in S
        PROVE  <<x>> \in Seq(S)
    OBVIOUS
  <1> QED
    BY <1>1, KeyIsSegment DEF Path

\* The status.
LEMMA StatusCheck ==
  ASSUME NEW e, NEW a, e.status \in Optional(Nat)
  PROVE  /\ AssertStatus(e.status, a.status) \in Seq(Check)
         /\ AllPass(AssertStatus(e.status, a.status)) <=> StatusMatches(e, a)
  <1> DEFINE same(i) == e.status[i] = a.status
             one(i) == Requires(same(i), <<>>, "StatusMismatch")
             checks == [i \in DOMAIN e.status |-> one(i)]
  <1>1. DOMAIN e.status = 1 .. Len(e.status) /\ Len(e.status) \in Nat
    BY DEF Optional
  <1>2. ASSUME NEW i \in DOMAIN e.status
        PROVE  one(i) \in Check /\ (Passes(one(i)) <=> same(i))
    <2>1. <<>> \in Path /\ same(i) \in BOOLEAN /\ "StatusMismatch" \in FailureKind
      BY DEF FailureKind, Path
    <2> HIDE DEF same
    <2> QED
      BY <2>1, RequiresIff
  <1>3. AssertStatus(e.status, a.status) = checks
    BY DEF AssertStatus
  <1>4. StatusMatches(e, a) <=> \A i \in DOMAIN e.status : same(i)
    BY DEF StatusMatches
  <1> HIDE DEF one, same
  <1>5. checks \in Seq(Check) /\ DOMAIN checks = DOMAIN e.status /\ \A i \in DOMAIN checks : checks[i] = one(i)
    BY <1>1, <1>2, FunctionIsSequence
  <1>6. AllPass(checks) <=> \A i \in DOMAIN e.status : same(i)
    BY <1>2, <1>5 DEF AllPass
  <1> QED
    BY <1>3, <1>4, <1>5, <1>6

\* The headers.
LEMMA HeadersCheck ==
  ASSUME NEW e, NEW a, e.headers \in Seq(HeaderTest)
  PROVE  /\ AssertHeaders(e.headers, a.headers) \in Seq(Check)
         /\ AllPass(AssertHeaders(e.headers, a.headers)) <=> HeadersMatch(e, a)
  <1> DEFINE fits(i) == HeaderMatches(e.headers[i], a.headers[e.headers[i].name])
             path(i) == <<Key(e.headers[i].name)>>
             one(i) == Requires(fits(i), path(i), "HeaderMismatch")
             checks == [i \in DOMAIN e.headers |-> one(i)]
  <1>1. DOMAIN e.headers = 1 .. Len(e.headers) /\ Len(e.headers) \in Nat
    OBVIOUS
  <1>2. ASSUME NEW i \in DOMAIN e.headers
        PROVE  one(i) \in Check /\ (Passes(one(i)) <=> fits(i))
    <2>1. e.headers[i].name \in STRING /\ e.headers[i].rule \in {"exists", "exact", "contains"}
      <3>1. e.headers[i] \in HeaderTest
        BY <1>1
      <3> QED
        BY <3>1 DEF HeaderTest
    <2>2. path(i) \in Path
      BY <2>1, KeyPath
    <2>3. fits(i) \in BOOLEAN
      BY <2>1 DEF HeaderMatches
    <2>4. "HeaderMismatch" \in FailureKind
      BY DEF FailureKind
    <2> HIDE DEF fits, path
    <2> QED
      BY <2>2, <2>3, <2>4, RequiresIff
  <1>3. AssertHeaders(e.headers, a.headers) = checks
    BY DEF AssertHeaders
  <1>4. HeadersMatch(e, a) <=> \A i \in DOMAIN e.headers : fits(i)
    BY DEF HeadersMatch
  <1> HIDE DEF one, fits
  <1>5. checks \in Seq(Check) /\ DOMAIN checks = DOMAIN e.headers /\ \A i \in DOMAIN checks : checks[i] = one(i)
    BY <1>1, <1>2, FunctionIsSequence
  <1>6. AllPass(checks) <=> \A i \in DOMAIN e.headers : fits(i)
    BY <1>2, <1>5 DEF AllPass
  <1> QED
    BY <1>3, <1>4, <1>5, <1>6

\* One body.
LEMMA OneBodyCheck ==
  ASSUME NEW b \in BodyTest, NEW a \in Body
  PROVE  AssertBody(b, a) \in Check /\ (Passes(AssertBody(b, a)) <=> OneBodyMatches(b, a))
  <1>1. <<>> \in Path /\ {"ValueMismatch", "InvalidBody", "TypeMismatch"} \subseteq FailureKind
    BY DEF Path, FailureKind
  <1>2. \/ b.kind = "empty"
        \/ b.kind = "text"
        \/ b.kind = "json" /\ b.object \in AssertionUpTo[MaxHeight]
    BY DEF BodyTest
  <1>3. a.kind = "json" => a.value \in Json
    BY DEF Body
  <1>4. CASE b.kind = "empty"
    <2> DEFINE holds == a.kind = "empty"
    <2>1. AssertBody(b, a) = Requires(holds, <<>>, "ValueMismatch")
      BY <1>4 DEF AssertBody
    <2>2. OneBodyMatches(b, a) <=> holds
      BY <1>4 DEF OneBodyMatches
    <2>3. holds \in BOOLEAN
      OBVIOUS
    <2> HIDE DEF holds
    <2> QED
      BY <1>1, <2>1, <2>2, <2>3, RequiresIff
  <1>5. CASE b.kind # "empty" /\ b.kind # a.kind
    <2>1. AssertBody(b, a) = Fails(<<>>, "InvalidBody")
      BY <1>5 DEF AssertBody
    <2>2. ~ OneBodyMatches(b, a)
      BY <1>2, <1>5 DEF OneBodyMatches
    <2> QED
      BY <1>1, <2>1, <2>2, RequiresIsCheck
  <1>6. CASE b.kind = "text" /\ a.kind = "text"
    <2> DEFINE holds == TextMatches(b, a.text)
    <2>1. AssertBody(b, a) = Requires(holds, <<>>, "ValueMismatch")
      BY <1>6 DEF AssertBody
    <2>2. OneBodyMatches(b, a) <=> holds
      BY <1>6 DEF OneBodyMatches
    <2>3. holds \in BOOLEAN
      BY DEF TextMatches
    <2> HIDE DEF holds
    <2> QED
      BY <1>1, <2>1, <2>2, <2>3, RequiresIff
  <1>7. CASE b.kind = "json" /\ a.kind = "json"
    <2>1. OneBodyMatches(b, a) <=> BodyMatches(b.object, a.value)
      BY <1>7 DEF OneBodyMatches
    <2>2. CASE KindOf(a.value) # "object"
      <3>1. AssertBody(b, a) = Fails(<<>>, "TypeMismatch")
        BY <1>7, <2>2 DEF AssertBody
      <3>2. ~ OneBodyMatches(b, a)
        BY <2>1, <2>2 DEF BodyMatches
      <3> QED
        BY <1>1, <3>1, <3>2, RequiresIsCheck
    <2>3. CASE KindOf(a.value) = "object"
      <3>1. AssertBody(b, a) = AssertObject(b.object, a.value)
        BY <1>7, <2>3 DEF AssertBody
      <3> QED
        BY <1>2, <1>3, <1>7, <2>1, <2>3, <3>1, AssertObjectMatches
    <2> QED
      BY <2>2, <2>3
  <1> QED
    BY <1>2, <1>4, <1>5, <1>6, <1>7

\* The body, if one is expected.
LEMMA BodiesCheck ==
  ASSUME NEW e, NEW a, e.body \in Optional(BodyTest), a.body \in Body
  PROVE  LET checks == [i \in DOMAIN e.body |-> AssertBody(e.body[i], a.body)]
         IN checks \in Seq(Check) /\ (AllPass(checks) <=> BodiesMatch(e, a))
  <1> DEFINE one(i) == AssertBody(e.body[i], a.body)
             checks == [i \in DOMAIN e.body |-> one(i)]
  <1>1. DOMAIN e.body = 1 .. Len(e.body) /\ Len(e.body) \in Nat
        /\ \A i \in DOMAIN e.body : e.body[i] \in BodyTest
    BY DEF Optional
  <1>2. \A i \in DOMAIN e.body :
           one(i) \in Check /\ (Passes(one(i)) <=> OneBodyMatches(e.body[i], a.body))
    BY <1>1, OneBodyCheck
  <1> HIDE DEF one
  <1>3. checks \in Seq(Check) /\ DOMAIN checks = DOMAIN e.body /\ \A i \in DOMAIN checks : checks[i] = one(i)
    BY <1>1, <1>2, FunctionIsSequence
  <1>4. AllPass(checks) <=> BodiesMatch(e, a)
    BY <1>2, <1>3 DEF AllPass, BodiesMatch
  <1> QED
    BY <1>3, <1>4 DEF one

\* Everything that is expected, as one check.
AllChecks(e, a) ==
  AssertStatus(e.status, a.status) \o AssertHeaders(e.headers, a.headers)
    \o [i \in DOMAIN e.body |-> AssertBody(e.body[i], a.body)]

\* The check passes if everything matches.
LEMMA AllChecksMatch ==
  ASSUME NEW x \in Exchanges
  PROVE  /\ InTurn(AllChecks(x.expected, x.actual)) \in Check
         /\ Passes(InTurn(AllChecks(x.expected, x.actual))) <=>
              /\ StatusMatches(x.expected, x.actual)
              /\ HeadersMatch(x.expected, x.actual)
              /\ BodiesMatch(x.expected, x.actual)
  <1> DEFINE e == x.expected
             a == x.actual
             first == AssertStatus(e.status, a.status)
             second == AssertHeaders(e.headers, a.headers)
             third == [i \in DOMAIN e.body |-> AssertBody(e.body[i], a.body)]
  <1>1. /\ e.status \in Optional(Nat) /\ e.headers \in Seq(HeaderTest)
        /\ e.body \in Optional(BodyTest) /\ a.body \in Body
    BY ExchangesAssumption
  <1>2. first \in Seq(Check) /\ (AllPass(first) <=> StatusMatches(e, a))
    BY <1>1, StatusCheck
  <1>3. second \in Seq(Check) /\ (AllPass(second) <=> HeadersMatch(e, a))
    BY <1>1, HeadersCheck
  <1>4. third \in Seq(Check) /\ (AllPass(third) <=> BodiesMatch(e, a))
    BY <1>1, BodiesCheck
  <1>5. AllChecks(e, a) = (first \o second) \o third
    BY DEF AllChecks
  <1> HIDE DEF first, second, third, e, a
  <1>6. first \o second \in Seq(Check) /\ (AllPass(first \o second) <=> AllPass(first) /\ AllPass(second))
    BY <1>2, <1>3, MoreChecks
  <1> DEFINE both == first \o second
  <1> HIDE DEF both
  <1>7. /\ both \o third \in Seq(Check)
        /\ AllPass(both \o third) <=> AllPass(both) /\ AllPass(third)
    BY <1>4, <1>6, MoreChecks DEF both
  <1>8. AllChecks(e, a) \in Seq(Check)
        /\ (AllPass(AllChecks(e, a)) <=> StatusMatches(e, a) /\ HeadersMatch(e, a) /\ BodiesMatch(e, a))
    BY <1>2, <1>3, <1>4, <1>5, <1>6, <1>7 DEF both
  <1>9. /\ InTurn(AllChecks(e, a)) \in Check
        /\ Passes(InTurn(AllChecks(e, a))) <=> AllPass(AllChecks(e, a))
    BY <1>8, InTurnIsCheck
  <1> QED
    BY <1>8, <1>9 DEF e, a

\* A check on an empty report.
LEMMA FromEmpty ==
  ASSUME NEW F \in Check, NEW n \in Nat \ {0}
  PROVE  LET all == F[EmptyReport(NoLimit)].failures
             kept == F[EmptyReport(n)]
         IN /\ IsSuccess(kept) <=> Passes(F)
            /\ Len(kept.failures) <= Len(all)
            /\ \A i \in DOMAIN kept.failures : kept.failures[i] = all[i]
            /\ kept.truncated <=> Len(all) > n
            /\ kept.truncated => Len(kept.failures) = n
  <1> DEFINE r == EmptyReport(n)
             u == EmptyReport(NoLimit)
  <1>1. PICK list \in Seq(Failure) : Adds(F, list)
    BY DEF Check
  <1>2. /\ r \in Report /\ u \in Report /\ Open(r) /\ Open(u)
        /\ r.failures = <<>> /\ u.failures = <<>> /\ r.limit = n /\ u.limit = -1
    BY DEF EmptyReport, NoLimit, Report, Open
  <1>3. <<>> \o list = list /\ Len(list) \in Nat
    OBVIOUS
  <1>4. Extends(F[r], r, list) /\ Extends(F[u], u, list)
    BY <1>1, <1>2 DEF Adds
  <1> HIDE DEF r, u
  <1>5. F[u].failures = list
    BY <1>2, <1>3, <1>4 DEF Extends, Fits
  <1>6. F[r] \in Report /\ F[r].failures \in Seq(Failure)
    BY <1>4 DEF Extends, Report
  <1>7. CASE Len(list) <= n
    <2>1. F[r].failures = list /\ ~ F[r].truncated
      BY <1>2, <1>3, <1>4, <1>7 DEF Extends, Fits
    <2>2. Passes(F) <=> list = <<>>
      BY <1>1, AddsNothing
    <2> QED
      BY <1>3, <1>5, <1>7, <2>1, <2>2 DEF r, u, IsSuccess
  <1>8. CASE ~ (Len(list) <= n)
    <2>1. /\ F[r].truncated /\ Len(F[r].failures) = n
          /\ \A i \in 1 .. n : F[r].failures[i] = list[i]
      BY <1>2, <1>3, <1>4, <1>8 DEF Extends, Fits
    <2>2. list # <<>> /\ F[r].failures # <<>>
      BY <1>8, <2>1
    <2>3. Passes(F) <=> list = <<>>
      BY <1>1, AddsNothing
    <2>4. DOMAIN F[r].failures = 1 .. n
      BY <1>6, <2>1
    <2> QED
      BY <1>3, <1>5, <1>8, <2>1, <2>2, <2>3, <2>4 DEF r, u, IsSuccess
  <1> QED
    BY <1>7, <1>8

(***************************************************************************)
(* What the report says, in every state.                                   *)
(***************************************************************************)
Evaluated ==
  /\ exchange \in Exchanges
  /\ limit \in Limits
  /\ phase # "assert" => report = Evaluate(Expected, Actual, limit)

\* The report is that of an evaluation from the first step on.
LEMMA AlwaysEvaluated == CaptureSpec => []Evaluated
  <1>1. CaptureInit => Evaluated
    BY DEF CaptureInit, Evaluated
  <1>2. Evaluated /\ [CaptureNext]_captureVars => Evaluated'
    <2> SUFFICES ASSUME Evaluated, [CaptureNext]_captureVars
                 PROVE  Evaluated'
      OBVIOUS
    <2>1. CASE EvaluateAssertions
      BY <2>1 DEF EvaluateAssertions, Evaluated, Expected, Actual
    <2>2. CASE Extract
      BY <2>2 DEF Extract, Evaluated, Expected, Actual
    <2>3. CASE UNCHANGED captureVars
      BY <2>3 DEF captureVars, Evaluated, Expected, Actual
    <2> QED
      BY <2>1, <2>2, <2>3 DEF CaptureNext
  <1> QED
    BY <1>1, <1>2, PTL DEF CaptureSpec

\* The report of an evaluation, with and without a limit.
LEMMA EvaluatedReport ==
  ASSUME Evaluated, phase # "assert"
  PROVE  /\ IsSuccess(report) <=> Satisfied
         /\ Len(report.failures) <= Len(Unlimited)
         /\ \A i \in DOMAIN report.failures : report.failures[i] = Unlimited[i]
         /\ report.truncated <=> Len(Unlimited) > limit
         /\ report.truncated => Len(report.failures) = limit
  <1> DEFINE F == InTurn(AllChecks(Expected, Actual))
  <1>1. F \in Check /\ (Passes(F) <=> /\ StatusMatches(Expected, Actual)
                                      /\ HeadersMatch(Expected, Actual)
                                      /\ BodiesMatch(Expected, Actual))
    BY AllChecksMatch DEF Evaluated, Expected, Actual
  <1>2. Satisfied <=> /\ StatusMatches(Expected, Actual)
                      /\ HeadersMatch(Expected, Actual)
                      /\ BodiesMatch(Expected, Actual)
    BY DEF Satisfied, StatusMatches, HeadersMatch, BodiesMatch, OneBodyMatches
  <1>3. limit \in Nat \ {0}
    BY LimitsAssumption DEF Evaluated
  <1>4. \A n : Evaluate(Expected, Actual, n) = F[EmptyReport(n)]
    BY DEF Evaluate, AllChecks
  <1>5. report = F[EmptyReport(limit)] /\ Unlimited = F[EmptyReport(NoLimit)].failures
    BY <1>4 DEF Evaluated, Unlimited
  <1> HIDE DEF F
  <1> QED
    BY <1>1, <1>2, <1>3, <1>5, FromEmpty

\* A test passes exactly when everything that it expects holds: no limit, no
\* early return and no rounding turns a mismatch into a success.
THEOREM SuccessIsSatisfaction == CaptureSpec => []SuccessMeansSatisfied
  <1>1. Evaluated => SuccessMeansSatisfied
    BY EvaluatedReport DEF SuccessMeansSatisfied
  <1> QED
    BY <1>1, AlwaysEvaluated, PTL

\* A limit only cuts the list of failures off, and the report says so.
THEOREM LimitsOnlyTruncate == CaptureSpec => []RetainsFirstFailures
  <1>1. Evaluated => RetainsFirstFailures
    BY EvaluatedReport DEF RetainsFirstFailures
  <1> QED
    BY <1>1, AlwaysEvaluated, PTL

(***************************************************************************)
(* A walk of several steps.                                                *)
(***************************************************************************)
GoOn(steps, n, w) == IF w.error # "none" THEN w ELSE steps[n][w]

IsCourse(f, steps, w, m) == f = [n \in 0 .. m |-> IF n = 0 THEN w ELSE GoOn(steps, n, f[n - 1])]

\* The walks after each of the steps.
LEMMA CoursesExist ==
  ASSUME NEW steps, NEW w, NEW length \in Nat
  PROVE  \E f : IsCourse(f, steps, w, length)
  <1> DEFINE Bad == {m \in 0 .. length : ~ \E f : IsCourse(f, steps, w, m)}
  <1>1. ASSUME NEW m \in Bad, \A k \in Bad : m <= k
        PROVE  FALSE
    <2>1. m # 0
      <3>1. IsCourse([n \in 0 .. 0 |-> w], steps, w, 0)
        BY DEF IsCourse
      <3> QED
        BY <1>1, <3>1
    <2>2. PICK f : IsCourse(f, steps, w, m - 1)
      <3>1. m - 1 \in 0 .. length /\ ~ (m <= m - 1)
        BY <2>1
      <3> QED
        BY <1>1, <3>1
    <2> DEFINE last == GoOn(steps, m, f[m - 1])
               longer == [n \in 0 .. m |-> IF n = m THEN last ELSE f[n]]
    <2>3. ASSUME NEW n \in 0 .. m
          PROVE  longer[n] = IF n = 0 THEN w ELSE GoOn(steps, n, longer[n - 1])
      <3>1. CASE n = m
        BY <2>1, <3>1
      <3>2. CASE n # m
        <4>1. n \in 0 .. m - 1 /\ longer[n] = f[n]
          BY <3>2
        <4>2. f[n] = IF n = 0 THEN w ELSE GoOn(steps, n, f[n - 1])
          BY <2>2, <4>1 DEF IsCourse
        <4>3. n # 0 => longer[n - 1] = f[n - 1]
          BY <3>2
        <4> QED
          BY <4>1, <4>2, <4>3
      <3> QED
        BY <3>1, <3>2
    <2> HIDE DEF last
    <2>4. IsCourse(longer, steps, w, m)
      BY <2>3 DEF IsCourse
    <2> QED
      BY <1>1, <2>4
  <1>2. Bad \in SUBSET Nat
    OBVIOUS
  <1>3. Bad = {}
    BY <1>1, <1>2, LeastNumber
  <1> QED
    BY <1>3

\* A walk goes through its steps until the first error.
LEMMA UntilErrorCourse ==
  ASSUME NEW steps, NEW w \in Walk, Len(steps) \in Nat
  PROVE  \E f : /\ f[0] = w
                /\ \A n \in 1 .. Len(steps) : f[n] = GoOn(steps, n, f[n - 1])
                /\ UntilError(steps)[w] = f[Len(steps)]
  <1> DEFINE length == Len(steps)
             f == CHOOSE g : IsCourse(g, steps, w, length)
  <1>1. IsCourse(f, steps, w, length)
    BY CoursesExist
  <1>2. UntilError(steps)[w] = f[length]
    BY DEF UntilError, IsCourse, GoOn
  <1> HIDE DEF f
  <1>3. f = [n \in 0 .. length |-> IF n = 0 THEN w ELSE GoOn(steps, n, f[n - 1])]
    BY <1>1 DEF IsCourse
  <1>4. 0 \in 0 .. length /\ \A n \in 1 .. length : n \in 0 .. length /\ n # 0
    OBVIOUS
  <1>5. f[0] = w /\ \A n \in 1 .. length : f[n] = GoOn(steps, n, f[n - 1])
    BY <1>3, <1>4
  <1> QED
    BY <1>2, <1>5

\* What every step keeps is kept by the whole.
LEMMA UntilErrorKeeps ==
  ASSUME NEW K \in SUBSET Walk, NEW steps, Len(steps) \in Nat,
         \A i \in 1 .. Len(steps) : \A w \in K : steps[i][w] \in K
  PROVE  \A w \in K : UntilError(steps)[w] \in K
  <1>1. ASSUME NEW w \in K
        PROVE  UntilError(steps)[w] \in K
    <2> DEFINE length == Len(steps)
    <2>1. PICK f : /\ f[0] = w
                   /\ \A n \in 1 .. length : f[n] = GoOn(steps, n, f[n - 1])
                   /\ UntilError(steps)[w] = f[length]
      BY UntilErrorCourse
    <2> DEFINE Bad == {m \in 0 .. length : f[m] \notin K}
    <2>2. ASSUME NEW m \in Bad, \A k \in Bad : m <= k
          PROVE  FALSE
      <3>1. m \in 1 .. length
        BY <2>1, <2>2
      <3>2. m - 1 \in 0 .. length /\ ~ (m <= m - 1)
        BY <3>1
      <3>3. f[m - 1] \in K
        BY <2>2, <3>2
      <3> QED
        BY <2>1, <3>1, <3>3 DEF GoOn
    <2>3. Bad \in SUBSET Nat
      OBVIOUS
    <2>4. Bad = {}
      BY <2>2, <2>3, LeastNumber
    <2>5. length \in 0 .. length
      OBVIOUS
    <2> QED
      BY <2>1, <2>4, <2>5
  <1> QED
    BY <1>1

(***************************************************************************)
(* The walk stages what is there.                                          *)
(***************************************************************************)
ReadsBack(v, c) == At(c.root, c.below) # Missing /\ At(c.root, c.below) = At(v, c.from)

Readable(v) == {w \in Walk : \A i \in DOMAIN w.staged : ReadsBack(v, w.staged[i])}

SharedRoots == Optional([root : Json, depth : Nat])

RootsFit(v, shared, path) ==
  \A j \in DOMAIN shared :
     /\ shared[j].depth <= Len(path)
     /\ shared[j].root = At(v, SubSeq(path, 1, shared[j].depth))

\* A site in the value v.
SiteIn(n, v, site) ==
  /\ site \in Site(n)
  /\ site.actual = At(v, site.path)
  /\ RootsFit(v, site.shared, site.path)

\* A shared root is a value, taken at a depth.
LEMMA RootForms ==
  ASSUME NEW shared \in SharedRoots
  PROVE  /\ DOMAIN shared = 1 .. Len(shared) /\ Len(shared) \in Nat
         /\ \A j \in DOMAIN shared : shared[j].root \in Json /\ shared[j].depth \in Nat
  <1> DEFINE S == [root : Json, depth : Nat]
  <1>1. shared \in Seq(S)
    BY DEF SharedRoots, Optional
  <1> HIDE DEF S
  <1>2. DOMAIN shared = 1 .. Len(shared) /\ Len(shared) \in Nat /\ \A j \in DOMAIN shared : shared[j] \in S
    BY <1>1
  <1> QED
    BY <1>2 DEF S

\* One sequence after another.
LEMMA ConcatForm ==
  ASSUME NEW S, NEW a \in Seq(S), NEW b \in Seq(S)
  PROVE  /\ a \o b \in Seq(S) /\ Len(a \o b) = Len(a) + Len(b)
         /\ a \o b = [j \in 1 .. Len(a \o b) |-> (a \o b)[j]]
         /\ \A j \in 1 .. Len(a \o b) :
              (a \o b)[j] = IF j <= Len(a) THEN a[j] ELSE b[j - Len(a)]
  <1>1. a \o b \in Seq(S)
    OBVIOUS
  <1>2. Len(a \o b) = Len(a) + Len(b)
    OBVIOUS
  <1>3. \A j \in 1 .. Len(a) + Len(b) : (a \o b)[j] = IF j <= Len(a) THEN a[j] ELSE b[j - Len(a)]
    OBVIOUS
  <1>4. ASSUME NEW s \in Seq(S)
        PROVE  s = [j \in 1 .. Len(s) |-> s[j]]
    OBVIOUS
  <1> QED
    BY <1>1, <1>2, <1>3, <1>4

\* A path is its first segments and the others.
LEMMA SplitPath ==
  ASSUME NEW p \in Path, NEW d \in Nat, d <= Len(p)
  PROVE  /\ SubSeq(p, 1, d) \in Path /\ SubSeq(p, d + 1, Len(p)) \in Path
         /\ p = SubSeq(p, 1, d) \o SubSeq(p, d + 1, Len(p))
  <1> DEFINE S == [key : STRING] \cup [index : Nat]
             a == SubSeq(p, 1, d)
             b == SubSeq(p, d + 1, Len(p))
  <1>1. p \in Seq(S) /\ Path = Seq(S)
    BY DEF Path
  <1> HIDE DEF S
  <1>2. p = [j \in 1 .. Len(p) |-> p[j]] /\ Len(p) \in Nat
    BY <1>1
  <1>3. a \in Seq(S) /\ Len(a) = d /\ \A j \in 1 .. d : a[j] = p[j]
    BY <1>1
  <1>4. b \in Seq(S) /\ Len(b) = Len(p) - d /\ \A j \in 1 .. Len(p) - d : b[j] = p[d + j]
    BY <1>1
  <1> HIDE DEF a, b
  <1>5. a \o b \in Seq(S) /\ Len(a \o b) = Len(p)
    <2>1. a \o b \in Seq(S) /\ Len(a \o b) = Len(a) + Len(b)
      BY <1>3, <1>4, ConcatForm
    <2>2. d + (Len(p) - d) = Len(p)
      BY <1>2
    <2> QED
      BY <1>3, <1>4, <2>1, <2>2
  <1>6. \A j \in 1 .. Len(p) : (a \o b)[j] = p[j]
    <2>1. ASSUME NEW j \in 1 .. Len(p)
          PROVE  (a \o b)[j] = p[j]
      <3>1. CASE j <= d
        BY <1>2, <1>3, <1>4, <3>1
      <3>2. CASE ~ (j <= d)
        <4>1. (a \o b)[j] = b[j - d] /\ j - d \in 1 .. Len(p) - d
          BY <1>2, <1>3, <1>4, <3>2
        <4> QED
          BY <1>4, <4>1
      <3> QED
        BY <3>1, <3>2
    <2> QED
      BY <2>1
  <1>7. p = a \o b
    <2> DEFINE q == a \o b
    <2>1. q = [j \in 1 .. Len(q) |-> q[j]]
      BY <1>3, <1>4, ConcatForm
    <2>2. Len(q) = Len(p) /\ \A j \in 1 .. Len(p) : q[j] = p[j]
      BY <1>5, <1>6
    <2> HIDE DEF q
    <2>3. q = p
      BY <1>2, <2>1, <2>2
    <2> QED
      BY <2>3 DEF q
  <1> QED
    BY <1>1, <1>3, <1>4, <1>7 DEF a, b

\* One more segment leaves the first ones alone.
LEMMA LongerSplit ==
  ASSUME NEW p \in Path, NEW s \in [key : STRING] \cup [index : Nat], NEW d \in Nat, d <= Len(p)
  PROVE  /\ Append(p, s) \in Path /\ Len(Append(p, s)) = Len(p) + 1 /\ Len(p) \in Nat
         /\ SubSeq(Append(p, s), 1, d) = SubSeq(p, 1, d)
  BY DEF Path

\* A whole path is its first segments.
LEMMA WholePath ==
  ASSUME NEW p \in Path
  PROVE  SubSeq(p, 1, Len(p)) = p /\ Len(p) \in Nat
  BY DEF Path

\* The value at a longer path is a child.
LEMMA AtAppend ==
  ASSUME NEW p \in Path, NEW s \in [key : STRING] \cup [index : Nat]
  PROVE  \A v : At(v, Append(p, s)) = Child(At(v, p), s)
  <1>1. Append(p, s) = p \o <<s>> /\ <<s>> \in Path
    BY DEF Path
  <1>2. \A v : At(v, p \o <<s>>) = At(At(v, p), <<s>>)
    BY <1>1, AtPath
  <1> QED
    BY <1>1, <1>2, AtChild

\* A field of a site.
LEMMA FieldOfSite ==
  ASSUME NEW n \in 0 .. MaxHeight, NEW v, NEW site, SiteIn(n, v, site),
         NEW i \in DOMAIN site.assertion.fields
  PROVE  /\ FieldKey(site, i) \in [key : STRING] \cup [index : Nat]
         /\ FieldPath(site, i) \in Path
         /\ FieldValue(site, i) = At(v, FieldPath(site, i))
         /\ FieldKey(site, i) \in Segments(site.actual) =>
              FieldValue(site, i) \in Json /\ FieldValue(site, i) # Missing
  <1>1. /\ site.assertion \in AssertionUpTo[n] /\ site.actual \in JsonUpTo[MaxHeight]
        /\ site.path \in Path /\ MaxHeight \in 0 .. MaxHeight
    BY HeightAssumption DEF SiteIn, Site, Json
  <1>2. FieldKey(site, i) \in [key : STRING] \cup [index : Nat]
    BY <1>1, FieldForms, KeyIsSegment DEF FieldKey, FieldOf
  <1>3. FieldPath(site, i) \in Path
    BY <1>1, <1>2 DEF FieldPath, Path
  <1>4. FieldValue(site, i) = At(v, FieldPath(site, i))
    BY <1>1, <1>2, AtAppend DEF FieldValue, FieldPath, SiteIn
  <1>5. ASSUME FieldKey(site, i) \in Segments(site.actual)
        PROVE  FieldValue(site, i) \in Json /\ FieldValue(site, i) # Missing
    <2>1. FieldValue(site, i) \in Json
      BY <1>1, <1>5, ChildForm DEF FieldValue
    <2> QED
      BY <1>1, <2>1, JsonIsThere DEF Json
  <1> QED
    BY <1>2, <1>3, <1>4, <1>5

\* The root that a field and what is below it share.
LEMMA SharedFits ==
  ASSUME NEW n \in 0 .. MaxHeight, NEW v, NEW site, SiteIn(n, v, site),
         NEW i \in DOMAIN site.assertion.fields, FieldKey(site, i) \in Segments(site.actual)
  PROVE  /\ SharedBelow(site, i) \in SharedRoots
         /\ RootsFit(v, SharedBelow(site, i), FieldPath(site, i))
         /\ FieldOf(site, i).capture # <<>> => 1 \in DOMAIN SharedBelow(site, i)
  <1> DEFINE p == FieldPath(site, i)
             s == FieldKey(site, i)
             sh == site.shared
  <1>1. /\ s \in [key : STRING] \cup [index : Nat] /\ p \in Path
        /\ FieldValue(site, i) = At(v, p) /\ FieldValue(site, i) \in Json
    BY FieldOfSite
  <1>2. /\ sh \in SharedRoots /\ site.path \in Path /\ p = Append(site.path, s)
        /\ RootsFit(v, sh, site.path)
    BY DEF SiteIn, Site, SharedRoots, FieldPath
  <1>3. DOMAIN sh = 1 .. Len(sh) /\ Len(sh) \in Nat
        /\ \A j \in DOMAIN sh : sh[j].depth \in Nat
    BY <1>2, RootForms
  <1> HIDE DEF p, s, sh
  <1>4. RootsFit(v, sh, p)
    <2>1. ASSUME NEW j \in DOMAIN sh
          PROVE  sh[j].depth <= Len(p) /\ SubSeq(p, 1, sh[j].depth) = SubSeq(site.path, 1, sh[j].depth)
      <3>1. sh[j].depth \in Nat /\ sh[j].depth <= Len(site.path)
        BY <1>2, <1>3 DEF RootsFit
      <3> QED
        BY <1>1, <1>2, <3>1, LongerSplit
    <2> QED
      BY <1>2, <2>1 DEF RootsFit
  <1>5. CASE FieldOf(site, i).capture = <<>>
    <2>1. SharedBelow(site, i) = sh
      BY <1>5 DEF SharedBelow, sh
    <2> QED
      BY <1>2, <1>4, <1>5, <2>1 DEF p
  <1>6. CASE FieldOf(site, i).capture # <<>> /\ sh # <<>>
    <2>1. SharedBelow(site, i) = sh
      BY <1>6 DEF SharedBelow, Share, sh
    <2>2. 1 \in DOMAIN sh
      BY <1>3, <1>6
    <2> QED
      BY <1>2, <1>4, <2>1, <2>2 DEF p
  <1>7. CASE FieldOf(site, i).capture # <<>> /\ sh = <<>>
    <2> DEFINE h == [root |-> FieldValue(site, i), depth |-> Len(p)]
    <2>1. SharedBelow(site, i) = <<h>>
      BY <1>7 DEF SharedBelow, Share, sh, p
    <2>2. Len(p) \in Nat /\ SubSeq(p, 1, Len(p)) = p
      BY <1>1, WholePath
    <2>3. h \in [root : Json, depth : Nat]
      BY <1>1, <2>2
    <2>4. h.depth <= Len(p) /\ h.root = At(v, SubSeq(p, 1, h.depth))
      <3>1. h.depth = Len(p) /\ h.root = At(v, p)
        BY <1>1
      <3>2. Len(p) <= Len(p)
        BY <2>2
      <3> HIDE DEF h
      <3>3. h.depth <= Len(p)
        BY <3>1, <3>2
      <3>4. SubSeq(p, 1, h.depth) = p
        BY <2>2, <3>1
      <3> QED
        BY <3>1, <3>3, <3>4
    <2> HIDE DEF h
    <2>5. <<h>> \in SharedRoots
      <3> DEFINE S == [root : Json, depth : Nat]
      <3>1. h \in S
        BY <2>3
      <3> HIDE DEF S
      <3>2. <<h>> \in Seq(S) /\ Len(<<h>>) <= 1
        BY <3>1
      <3> QED
        BY <3>2 DEF S, SharedRoots, Optional
    <2>6. RootsFit(v, <<h>>, p)
      BY <2>4 DEF RootsFit
    <2> QED
      BY <2>1, <2>5, <2>6 DEF p
  <1> QED
    BY <1>5, <1>6, <1>7

\* What is staged, of a shared root and the path below it, is the value of the field.
LEMMA StageReads ==
  ASSUME NEW v, NEW w \in Readable(v), NEW name \in STRING, NEW shared \in SharedRoots,
         1 \in DOMAIN shared, NEW path \in Path, RootsFit(v, shared, path), At(v, path) # Missing
  PROVE  Stage(w, name, shared, path) \in Readable(v)
  <1> DEFINE h == shared[1]
             below == SubSeq(path, h.depth + 1, Len(path))
             c == [name |-> name, root |-> h.root, from |-> path, below |-> below]
             Entry == [name : STRING, root : Json, below : Path, from : Path]
  <1>1. h.root \in Json /\ h.depth \in Nat /\ h.depth <= Len(path)
        /\ h.root = At(v, SubSeq(path, 1, h.depth))
    BY RootForms DEF RootsFit
  <1>2. /\ below \in Path /\ SubSeq(path, 1, h.depth) \in Path
        /\ path = SubSeq(path, 1, h.depth) \o below
    BY <1>1, SplitPath
  <1>3. At(v, SubSeq(path, 1, h.depth) \o below) = At(At(v, SubSeq(path, 1, h.depth)), below)
    BY <1>2, AtPath
  <1>4. At(h.root, below) = At(v, path)
    BY <1>1, <1>2, <1>3
  <1>5. c \in Entry /\ ReadsBack(v, c)
    BY <1>1, <1>2, <1>4 DEF ReadsBack
  <1>6. w = [staged |-> w.staged, error |-> w.error] /\ w.staged \in Seq(Entry) /\ w.error \in Reason
        /\ \A i \in DOMAIN w.staged : ReadsBack(v, w.staged[i])
    BY DEF Readable, Walk
  <1>7. CASE \E i \in DOMAIN w.staged : w.staged[i].name = name
    <2>1. Stage(w, name, shared, path) = [w EXCEPT !.error = "DuplicateVariable"]
      BY <1>7 DEF Stage
    <2>2. Stage(w, name, shared, path) \in Walk /\ Stage(w, name, shared, path).staged = w.staged
      BY <1>6, <2>1 DEF Walk, Reason
    <2> QED
      BY <1>6, <2>2 DEF Readable
  <1>8. CASE ~ \E i \in DOMAIN w.staged : w.staged[i].name = name
    <2>1. Stage(w, name, shared, path) = [w EXCEPT !.staged = Append(@, c)]
      BY <1>8 DEF Stage
    <2> HIDE DEF c, Entry
    <2> DEFINE more == Append(w.staged, c)
    <2>2. more \in Seq(Entry) /\ \A i \in DOMAIN more : ReadsBack(v, more[i])
      BY <1>5, <1>6
    <2>3. [w EXCEPT !.staged = Append(@, c)] = [staged |-> more, error |-> w.error]
      <3>1. ASSUME NEW x, NEW y, NEW e, w = [staged |-> x, error |-> e]
            PROVE  [w EXCEPT !.staged = y] = [staged |-> y, error |-> e]
        BY <3>1
      <3> QED
        BY <1>6, <3>1
    <2>4. [staged |-> more, error |-> w.error] \in Walk
      BY <1>6, <2>2 DEF Walk, Entry
    <2> QED
      BY <2>1, <2>2, <2>3, <2>4 DEF Readable
  <1> QED
    BY <1>7, <1>8

\* What ExtractUpTo does with a field.
FieldStep(n, site, i) ==
  [walk \in Walk |->
     IF FieldKey(site, i) \notin Segments(site.actual)
     THEN Failed(walk, "MissingCaptureField")
     ELSE LET taken == CaptureField(walk, site, i)
          IN IF taken.error # "none" \/ FieldOf(site, i).nested = <<>> THEN taken
             ELSE IF KindOf(FieldValue(site, i)) # "object"
             THEN Failed(taken, "InvalidNestedCaptureField")
             ELSE ExtractUpTo[n - 1][SiteBelow(site, i)][taken]]

FieldSteps(n, site) == [i \in DOMAIN site.assertion.fields |-> FieldStep(n, site, i)]

\* What ExtractUpTo is.
LEMMA ExtractForms ==
  ASSUME NEW n \in 0 .. MaxHeight, NEW site \in Site(n)
  PROVE  ExtractUpTo[n][site] = UntilError(FieldSteps(n, site))
  <1>1. ExtractUpTo[n] = WalksStep(n, ExtractUpTo[n - 1])
    BY WalksEquation
  <1> QED
    BY <1>1 DEF WalksStep, FieldStep, FieldSteps

\* There is one step for each field.
LEMMA StepsForm ==
  ASSUME NEW n \in 0 .. MaxHeight, NEW site \in Site(n)
  PROVE  /\ DOMAIN site.assertion.fields = 1 .. Len(site.assertion.fields)
         /\ Len(site.assertion.fields) \in Nat
         /\ Len(FieldSteps(n, site)) = Len(site.assertion.fields)
         /\ \A i \in DOMAIN site.assertion.fields : FieldSteps(n, site)[i] = FieldStep(n, site, i)
  <1> DEFINE fields == site.assertion.fields
             S == {FieldStep(n, site, i) : i \in DOMAIN fields}
             steps == FieldSteps(n, site)
  <1>1. DOMAIN fields = 1 .. Len(fields) /\ Len(fields) \in Nat
    <2>1. ASSUME NEW T, NEW x \in Assertion(T)
          PROVE  DOMAIN x.fields = 1 .. Len(x.fields) /\ Len(x.fields) \in Nat
      BY DEF Assertion
    <2>2. site.assertion \in AssertionUpTo[n]
      BY DEF Site
    <2> QED
      BY <2>1, <2>2, AssertionsEquation DEF AssertionsStep
  <1>2. /\ DOMAIN steps = DOMAIN fields /\ \A i \in DOMAIN fields : steps[i] = FieldStep(n, site, i)
        /\ steps = [i \in DOMAIN fields |-> steps[i]]
    BY DEF FieldSteps
  <1>3. \A i \in DOMAIN fields : steps[i] \in S
    BY <1>2
  <1> HIDE DEF steps, S, fields
  <1>4. steps \in Seq(S)
    BY <1>1, <1>2, <1>3, FunctionIsSequence
  <1>5. Len(steps) = Len(fields)
    BY <1>1, <1>2, <1>4
  <1> QED
    BY <1>1, <1>2, <1>5 DEF steps, fields

\* The parts of a walk.
LEMMA FailedForm ==
  ASSUME NEW w \in Walk, NEW reason \in Reason
  PROVE  Failed(w, reason) \in Walk /\ Failed(w, reason).staged = w.staged
         /\ Failed(w, reason).error = reason
  BY DEF Failed, Walk

\* The name of a capture.
LEMMA CaptureName ==
  ASSUME NEW n \in 0 .. MaxHeight, NEW site \in Site(n), NEW i \in DOMAIN site.assertion.fields,
         FieldOf(site, i).capture # <<>>
  PROVE  FieldOf(site, i).capture[1] \in STRING
  <1>1. site.assertion \in AssertionUpTo[n]
    BY DEF Site
  <1> QED
    BY <1>1, FieldForms DEF FieldOf

\* The capture of a field.
LEMMA CaptureReads ==
  ASSUME NEW n \in 0 .. MaxHeight, NEW v, NEW site, SiteIn(n, v, site),
         NEW i \in DOMAIN site.assertion.fields, FieldKey(site, i) \in Segments(site.actual),
         NEW w \in Readable(v)
  PROVE  CaptureField(w, site, i) \in Readable(v)
  <1>1. CASE FieldOf(site, i).capture = <<>>
    BY <1>1 DEF CaptureField
  <1>2. CASE FieldOf(site, i).capture # <<>>
    <2>1. FieldOf(site, i).capture[1] \in STRING
      BY <1>2, CaptureName DEF SiteIn
    <2>2. /\ FieldPath(site, i) \in Path /\ At(v, FieldPath(site, i)) # Missing
      BY FieldOfSite
    <2>3. /\ SharedBelow(site, i) \in SharedRoots /\ 1 \in DOMAIN SharedBelow(site, i)
          /\ RootsFit(v, SharedBelow(site, i), FieldPath(site, i))
      BY <1>2, SharedFits
    <2>4. CaptureField(w, site, i)
            = Stage(w, FieldOf(site, i).capture[1], SharedBelow(site, i), FieldPath(site, i))
      BY <1>2 DEF CaptureField
    <2> QED
      BY <2>1, <2>2, <2>3, <2>4, StageReads
  <1> QED
    BY <1>1, <1>2

\* The site of a nested assertion.
LEMMA SiteBelowIn ==
  ASSUME NEW n \in 0 .. MaxHeight, NEW v, NEW site, SiteIn(n, v, site),
         NEW i \in DOMAIN site.assertion.fields, FieldKey(site, i) \in Segments(site.actual),
         FieldOf(site, i).nested # <<>>
  PROVE  n - 1 \in 0 .. MaxHeight /\ SiteIn(n - 1, v, SiteBelow(site, i))
  <1>1. site.assertion \in AssertionUpTo[n]
    BY DEF SiteIn, Site
  <1>2. n - 1 \in 0 .. MaxHeight /\ FieldOf(site, i).nested[1] \in AssertionUpTo[n - 1]
    BY <1>1, FieldForms DEF FieldOf
  <1>3. /\ FieldPath(site, i) \in Path /\ FieldValue(site, i) = At(v, FieldPath(site, i))
        /\ FieldValue(site, i) \in Json
    BY FieldOfSite
  <1>4. /\ SharedBelow(site, i) \in SharedRoots
        /\ RootsFit(v, SharedBelow(site, i), FieldPath(site, i))
    BY SharedFits
  <1> QED
    BY <1>2, <1>3, <1>4 DEF SiteBelow, SiteIn, Site, SharedRoots

\* Whatever a walk stages can be read back.
ReadsUpTo(n) ==
  \A v, site : SiteIn(n, v, site) =>
     \A w \in Readable(v) : ExtractUpTo[n][site][w] \in Readable(v)

\* One field.
LEMMA FieldReads ==
  ASSUME NEW n \in 0 .. MaxHeight, n - 1 \in 0 .. MaxHeight => ReadsUpTo(n - 1),
         NEW v, NEW site, SiteIn(n, v, site), NEW i \in DOMAIN site.assertion.fields,
         NEW w \in Readable(v)
  PROVE  FieldStep(n, site, i)[w] \in Readable(v)
  <1> DEFINE taken == CaptureField(w, site, i)
  <1>1. w \in Walk /\ {"MissingCaptureField", "InvalidNestedCaptureField"} \subseteq Reason
    BY DEF Readable, Reason
  <1>2. ASSUME NEW x \in Readable(v), NEW reason \in Reason
        PROVE  Failed(x, reason) \in Readable(v)
    BY FailedForm DEF Readable
  <1>3. CASE FieldKey(site, i) \notin Segments(site.actual)
    <2>1. FieldStep(n, site, i)[w] = Failed(w, "MissingCaptureField")
      BY <1>1, <1>3 DEF FieldStep
    <2> QED
      BY <1>1, <1>2, <2>1
  <1>4. CASE FieldKey(site, i) \in Segments(site.actual)
    <2>1. taken \in Readable(v)
      BY <1>4, CaptureReads
    <2>2. FieldStep(n, site, i)[w] =
            IF taken.error # "none" \/ FieldOf(site, i).nested = <<>> THEN taken
            ELSE IF KindOf(FieldValue(site, i)) # "object"
            THEN Failed(taken, "InvalidNestedCaptureField")
            ELSE ExtractUpTo[n - 1][SiteBelow(site, i)][taken]
      BY <1>1, <1>4 DEF FieldStep
    <2> HIDE DEF taken
    <2>3. FieldOf(site, i).nested # <<>> => ExtractUpTo[n - 1][SiteBelow(site, i)][taken] \in Readable(v)
      BY <1>4, <2>1, SiteBelowIn DEF ReadsUpTo
    <2> QED
      BY <1>1, <1>2, <2>1, <2>2, <2>3
  <1> QED
    BY <1>3, <1>4

\* Walks of every height.
LEMMA AllReads == \A n \in 0 .. MaxHeight : ReadsUpTo(n)
  <1> DEFINE Bad == {m \in 0 .. MaxHeight : ~ ReadsUpTo(m)}
  <1>1. ASSUME NEW m \in Bad, \A k \in Bad : m <= k
        PROVE  FALSE
    <2>1. ~ (m <= m - 1)
      BY HeightAssumption
    <2>2. m - 1 \in 0 .. MaxHeight => ReadsUpTo(m - 1)
      BY <1>1, <2>1
    <2>3. ASSUME NEW v, NEW site, SiteIn(m, v, site)
          PROVE  \A w \in Readable(v) : ExtractUpTo[m][site][w] \in Readable(v)
      <3>1. site \in Site(m) /\ Readable(v) \in SUBSET Walk
        BY <2>3 DEF SiteIn, Readable
      <3> DEFINE steps == FieldSteps(m, site)
      <3>2. Len(steps) \in Nat /\ \A i \in 1 .. Len(steps) : \A w \in Readable(v) : steps[i][w] \in Readable(v)
        BY <2>2, <2>3, <3>1, StepsForm, FieldReads
      <3>3. ExtractUpTo[m][site] = UntilError(steps)
        BY <3>1, ExtractForms
      <3> HIDE DEF steps
      <3> QED
        BY <3>1, <3>2, <3>3, UntilErrorKeeps
    <2> QED
      BY <1>1, <2>3 DEF ReadsUpTo
  <1>2. Bad \in SUBSET Nat
    BY HeightAssumption
  <1>3. Bad = {}
    BY <1>1, <1>2, LeastNumber
  <1> QED
    BY <1>3

\* The walk over a whole body.
WholeSite(a, v) == [assertion |-> a, actual |-> v, path |-> <<>>, shared |-> <<>>]
FirstWalk == [staged |-> <<>>, error |-> "none"]

\* It starts at the root, with nothing staged.
LEMMA WholeSiteIn ==
  ASSUME NEW a \in AssertionUpTo[MaxHeight], NEW v \in Json
  PROVE  SiteIn(MaxHeight, v, WholeSite(a, v)) /\ FirstWalk \in Readable(v)
  <1>1. <<>> \in Path /\ <<>> \in SharedRoots /\ At(v, <<>>) = v
    BY AtRoot DEF Path, SharedRoots, Optional
  <1>2. WholeSite(a, v) \in Site(MaxHeight)
    BY <1>1 DEF WholeSite, Site, SharedRoots
  <1>3. FirstWalk \in Readable(v)
    BY DEF FirstWalk, Readable, Walk, Reason
  <1> QED
    BY <1>1, <1>2, <1>3 DEF SiteIn, WholeSite, RootsFit

\* It stages what can be read back.
LEMMA ExtractReads ==
  ASSUME NEW a \in AssertionUpTo[MaxHeight], NEW v \in Json
  PROVE  ExtractObject(a, v) \in Readable(v)
  <1>1. MaxHeight \in 0 .. MaxHeight
    BY HeightAssumption
  <1>2. ExtractObject(a, v) = ExtractUpTo[MaxHeight][WholeSite(a, v)][FirstWalk]
    BY DEF ExtractObject, WholeSite, FirstWalk
  <1> QED
    BY <1>1, <1>2, WholeSiteIn, AllReads DEF ReadsUpTo

(***************************************************************************)
(* The captures of an assertion, seen from the source.                     *)
(***************************************************************************)
ScopeCaptures(s) ==
  {[path |-> Append(s.path, Key(s.assertion.fields[i].name)),
    name |-> s.assertion.fields[i].capture[1]] :
     i \in {j \in DOMAIN s.assertion.fields : s.assertion.fields[j].capture # <<>>}}

CapturesUpTo(n, a) == UNION {ScopeCaptures(s) : s \in ScopesUpTo[n][a]}

Lifted(k, captures) == {[path |-> <<Key(k)>> \o c.path, name |-> c.name] : c \in captures}

OwnCapture(a, i) ==
  IF a.fields[i].capture = <<>> THEN {}
  ELSE {[path |-> <<Key(a.fields[i].name)>>, name |-> a.fields[i].capture[1]]}

NestedCaptures(n, a, i) ==
  IF a.fields[i].nested = <<>> THEN {}
  ELSE Lifted(a.fields[i].name, CapturesUpTo(n - 1, a.fields[i].nested[1]))

FieldCaptures(n, a, i) == OwnCapture(a, i) \cup NestedCaptures(n, a, i)

Names(captures) == {c.name : c \in captures}

Distinct(captures) == \A c, d \in captures : c.name = d.name => c = d

NestedOk(n, a) ==
  \A s \in ScopesUpTo[n][a] : \A i \in DOMAIN s.assertion.fields :
     s.assertion.fields[i].nested # <<>> => s.assertion.fields[i].type = "object"

\* The captures of a nested scope, one level up.
LEMMA ScopeCapturesUnder ==
  ASSUME NEW k \in STRING, NEW n \in 0 .. MaxHeight, NEW a \in AssertionUpTo[n],
         NEW t \in ScopesUpTo[n][a], \A i \in DOMAIN t.assertion.fields : t.assertion.fields[i].name \in STRING
  PROVE  ScopeCaptures([path |-> <<Key(k)>> \o t.path, assertion |-> t.assertion])
           = Lifted(k, ScopeCaptures(t))
  <1> DEFINE fields == t.assertion.fields
             captured == {j \in DOMAIN fields : fields[j].capture # <<>>}
             s == [path |-> <<Key(k)>> \o t.path, assertion |-> t.assertion]
  <1>1. t.path \in Path
    BY ScopePaths
  <1>2. ASSUME NEW i \in captured
        PROVE  Append(<<Key(k)>> \o t.path, Key(fields[i].name)) = <<Key(k)>> \o Append(t.path, Key(fields[i].name))
    <2>1. ASSUME NEW S, NEW x \in S, NEW y \in S, NEW p \in Seq(S)
          PROVE  Append(<<x>> \o p, y) = <<x>> \o Append(p, y)
      OBVIOUS
    <2>2. Key(k) \in [key : STRING] \cup [index : Nat] /\ Key(fields[i].name) \in [key : STRING] \cup [index : Nat]
      BY KeyIsSegment
    <2> QED
      BY <1>1, <2>1, <2>2 DEF Path
  <1>3. ScopeCaptures(s) = {[path |-> Append(<<Key(k)>> \o t.path, Key(fields[i].name)),
                             name |-> fields[i].capture[1]] : i \in captured}
    BY DEF ScopeCaptures
  <1>4. Lifted(k, ScopeCaptures(t)) = {[path |-> <<Key(k)>> \o Append(t.path, Key(fields[i].name)),
                                        name |-> fields[i].capture[1]] : i \in captured}
    <2> DEFINE one(i) == [path |-> Append(t.path, Key(fields[i].name)), name |-> fields[i].capture[1]]
    <2>1. ScopeCaptures(t) = {one(i) : i \in captured}
      BY DEF ScopeCaptures
    <2>2. Lifted(k, {one(i) : i \in captured}) = {[path |-> <<Key(k)>> \o one(i).path, name |-> one(i).name] : i \in captured}
      <3> HIDE DEF one
      <3> QED
        BY DEF Lifted
    <2> QED
      BY <2>1, <2>2
  <1> QED
    BY <1>2, <1>3, <1>4

\* The scopes are assertions of some height.
LEMMA ScopeAssertions ==
  \A n \in 0 .. MaxHeight : \A a \in AssertionUpTo[n] : \A s \in ScopesUpTo[n][a] :
     \E m \in 0 .. MaxHeight : s.assertion \in AssertionUpTo[m]
  <1> DEFINE Good(m) == \A a \in AssertionUpTo[m] : \A s \in ScopesUpTo[m][a] :
                \E k \in 0 .. MaxHeight : s.assertion \in AssertionUpTo[k]
             Bad == {m \in 0 .. MaxHeight : ~ Good(m)}
  <1>1. ASSUME NEW m \in Bad, \A k \in Bad : m <= k
        PROVE  FALSE
    <2>1. ~ (m <= m - 1)
      BY HeightAssumption
    <2>2. m - 1 \in 0 .. MaxHeight => Good(m - 1)
      BY <1>1, <2>1
    <2>3. ASSUME NEW a \in AssertionUpTo[m], NEW s \in ScopesUpTo[m][a]
          PROVE  \E k \in 0 .. MaxHeight : s.assertion \in AssertionUpTo[k]
      <3>1. CASE s = [path |-> <<>>, assertion |-> a]
        BY <3>1
      <3>2. CASE s # [path |-> <<>>, assertion |-> a]
        <4>1. PICK i \in DOMAIN a.fields : a.fields[i].nested # <<>>
                 /\ s \in Under(a.fields[i].name, ScopesUpTo[m - 1][a.fields[i].nested[1]])
          BY <3>2, ScopesUnfold
        <4>2. PICK t \in ScopesUpTo[m - 1][a.fields[i].nested[1]] : s.assertion = t.assertion
          BY <4>1 DEF Under
        <4>3. m - 1 \in 0 .. MaxHeight /\ a.fields[i].nested[1] \in AssertionUpTo[m - 1]
          BY <4>1, FieldForms
        <4> QED
          BY <2>2, <4>2, <4>3
      <3> QED
        BY <3>1, <3>2
    <2> QED
      BY <2>3
  <1>2. Bad \in SUBSET Nat
    BY HeightAssumption
  <1> HIDE DEF Good
  <1>3. Bad = {}
    BY <1>1, <1>2, LeastNumber
  <1>4. \A n \in 0 .. MaxHeight : Good(n)
    BY <1>3
  <1> QED
    BY <1>4 DEF Good

\* The names in a scope are strings.
LEMMA ScopeNames ==
  ASSUME NEW n \in 0 .. MaxHeight, NEW a \in AssertionUpTo[n], NEW s \in ScopesUpTo[n][a]
  PROVE  \A i \in DOMAIN s.assertion.fields : s.assertion.fields[i].name \in STRING
  <1>1. PICK m \in 0 .. MaxHeight : s.assertion \in AssertionUpTo[m]
    BY ScopeAssertions
  <1> QED
    BY <1>1, FieldForms

\* The captures of an assertion are those of its fields.
LEMMA CapturesUnfold ==
  ASSUME NEW n \in 0 .. MaxHeight, NEW a \in AssertionUpTo[n]
  PROVE  CapturesUpTo(n, a) = UNION {FieldCaptures(n, a, i) : i \in DOMAIN a.fields}
  <1> DEFINE root == [path |-> <<>>, assertion |-> a]
             inner(i) == ScopesUpTo[n - 1][a.fields[i].nested[1]]
             below(i) == IF a.fields[i].nested = <<>> THEN {} ELSE Under(a.fields[i].name, inner(i))
  <1>1. ScopesUpTo[n][a] = {root} \cup (UNION {below(i) : i \in DOMAIN a.fields})
    BY ScopesUnfold
  <1>2. ScopeCaptures(root) = UNION {OwnCapture(a, i) : i \in DOMAIN a.fields}
    <2> DEFINE one(i) == [path |-> <<Key(a.fields[i].name)>>, name |-> a.fields[i].capture[1]]
               captured == {j \in DOMAIN a.fields : a.fields[j].capture # <<>>}
    <2>1. \A x : Append(<<>>, x) = <<x>>
      OBVIOUS
    <2>2. ScopeCaptures(root) = {one(i) : i \in captured}
      BY <2>1 DEF ScopeCaptures
    <2>3. \A i : OwnCapture(a, i) = IF a.fields[i].capture = <<>> THEN {} ELSE {one(i)}
      BY DEF OwnCapture
    <2> HIDE DEF one
    <2> QED
      BY <2>2, <2>3
  <1>3. ASSUME NEW i \in DOMAIN a.fields
        PROVE  (UNION {ScopeCaptures(s) : s \in below(i)}) = NestedCaptures(n, a, i)
    <2>1. CASE a.fields[i].nested = <<>>
      BY <2>1 DEF NestedCaptures
    <2>2. CASE a.fields[i].nested # <<>>
      <3> DEFINE k == a.fields[i].name
                 up(t) == [path |-> <<Key(k)>> \o t.path, assertion |-> t.assertion]
      <3>1. n - 1 \in 0 .. MaxHeight /\ a.fields[i].nested[1] \in AssertionUpTo[n - 1] /\ k \in STRING
        BY <2>2, FieldForms
      <3>2. \A t \in inner(i) : ScopeCaptures(up(t)) = Lifted(k, ScopeCaptures(t))
        BY <3>1, ScopeNames, ScopeCapturesUnder
      <3>3. below(i) = {up(t) : t \in inner(i)}
        BY <2>2 DEF Under
      <3>4. NestedCaptures(n, a, i) = Lifted(k, UNION {ScopeCaptures(t) : t \in inner(i)})
        BY <2>2 DEF NestedCaptures, CapturesUpTo
      <3> HIDE DEF up, below, inner
      <3>5. (UNION {ScopeCaptures(s) : s \in below(i)}) = UNION {Lifted(k, ScopeCaptures(t)) : t \in inner(i)}
        BY <3>2, <3>3
      <3>6. ASSUME NEW T
            PROVE  (UNION {Lifted(k, ScopeCaptures(t)) : t \in T})
                      = Lifted(k, UNION {ScopeCaptures(t) : t \in T})
        <4> DEFINE lift(c) == [path |-> <<Key(k)>> \o c.path, name |-> c.name]
        <4>1. \A C : Lifted(k, C) = {lift(c) : c \in C}
          BY DEF Lifted
        <4> HIDE DEF lift
        <4> QED
          BY <4>1
      <3> QED
        BY <3>4, <3>5, <3>6
    <2> QED
      BY <2>1, <2>2
  <1>4. CapturesUpTo(n, a) = ScopeCaptures(root)
          \cup (UNION {UNION {ScopeCaptures(s) : s \in below(i)} : i \in DOMAIN a.fields})
    <2> HIDE DEF root, below
    <2> QED
      BY <1>1 DEF CapturesUpTo
  <1>5. CapturesUpTo(n, a) = (UNION {OwnCapture(a, i) : i \in DOMAIN a.fields})
          \cup (UNION {NestedCaptures(n, a, i) : i \in DOMAIN a.fields})
    <2> HIDE DEF root, below
    <2> QED
      BY <1>2, <1>3, <1>4
  <1> QED
    BY <1>5 DEF FieldCaptures

\* Nested assertions are under objects, at every height.
LEMMA NestedOkUnfold ==
  ASSUME NEW n \in 0 .. MaxHeight, NEW a \in AssertionUpTo[n]
  PROVE  NestedOk(n, a) <=>
           \A i \in DOMAIN a.fields : a.fields[i].nested # <<>> =>
              a.fields[i].type = "object" /\ NestedOk(n - 1, a.fields[i].nested[1])
  <1> DEFINE root == [path |-> <<>>, assertion |-> a]
             inner(i) == ScopesUpTo[n - 1][a.fields[i].nested[1]]
             below(i) == IF a.fields[i].nested = <<>> THEN {} ELSE Under(a.fields[i].name, inner(i))
             Fit(x) == \A i \in DOMAIN x.fields : x.fields[i].nested # <<>> => x.fields[i].type = "object"
  <1>1. ScopesUpTo[n][a] = {root} \cup (UNION {below(i) : i \in DOMAIN a.fields})
    BY ScopesUnfold
  <1>2. NestedOk(n, a) <=> \A s \in ScopesUpTo[n][a] : Fit(s.assertion)
    BY DEF NestedOk
  <1>3. ASSUME NEW i \in DOMAIN a.fields
        PROVE  (\A s \in below(i) : Fit(s.assertion)) <=>
                 (a.fields[i].nested # <<>> => NestedOk(n - 1, a.fields[i].nested[1]))
    <2>1. CASE a.fields[i].nested = <<>>
      BY <2>1
    <2>2. CASE a.fields[i].nested # <<>>
      <3>1. NestedOk(n - 1, a.fields[i].nested[1]) <=> \A t \in inner(i) : Fit(t.assertion)
        BY DEF NestedOk
      <3>2. below(i) = {[path |-> <<Key(a.fields[i].name)>> \o t.path, assertion |-> t.assertion] :
                          t \in inner(i)}
        BY <2>2 DEF Under
      <3> DEFINE up(t) == [path |-> <<Key(a.fields[i].name)>> \o t.path, assertion |-> t.assertion]
      <3>4. below(i) = {up(t) : t \in inner(i)} /\ \A t : up(t).assertion = t.assertion
        BY <3>2
      <3> HIDE DEF Fit, inner, below, up
      <3>3. (\A s \in below(i) : Fit(s.assertion)) <=> \A t \in inner(i) : Fit(t.assertion)
        BY <3>4
      <3> QED
        BY <2>2, <3>1, <3>3
    <2> QED
      BY <2>1, <2>2
  <1>4. root.assertion = a
    OBVIOUS
  <1>5. (\A s \in ScopesUpTo[n][a] : Fit(s.assertion)) <=>
          Fit(a) /\ \A i \in DOMAIN a.fields : \A s \in below(i) : Fit(s.assertion)
    <2> HIDE DEF Fit, root, below
    <2> QED
      BY <1>1, <1>4
  <1>6. Fit(a) <=> \A i \in DOMAIN a.fields : a.fields[i].nested # <<>> => a.fields[i].type = "object"
    OBVIOUS
  <1> HIDE DEF Fit, below
  <1> QED
    BY <1>2, <1>3, <1>5, <1>6

\* Captures are at paths that are not empty.
LEMMA CapturePaths ==
  ASSUME NEW n \in 0 .. MaxHeight, NEW a \in AssertionUpTo[n]
  PROVE  \A c \in CapturesUpTo(n, a) : c.path \in Path /\ c.path # <<>>
  <1>1. ASSUME NEW c \in CapturesUpTo(n, a)
        PROVE  c.path \in Path /\ c.path # <<>>
    <2>1. PICK s \in ScopesUpTo[n][a] : c \in ScopeCaptures(s)
      BY DEF CapturesUpTo
    <2>2. PICK i \in DOMAIN s.assertion.fields :
            c.path = Append(s.path, Key(s.assertion.fields[i].name))
      BY <2>1 DEF ScopeCaptures
    <2>3. Key(s.assertion.fields[i].name) \in [key : STRING] \cup [index : Nat]
      BY ScopeNames, KeyIsSegment
    <2>4. s.path \in Path
      BY ScopePaths
    <2>5. ASSUME NEW S, NEW p \in Seq(S), NEW x \in S
          PROVE  Append(p, x) \in Seq(S) /\ Append(p, x) # <<>>
      <3>1. Append(p, x) \in Seq(S)
        OBVIOUS
      <3>2. Len(Append(p, x)) = Len(p) + 1 /\ Len(p) \in Nat
        OBVIOUS
      <3> QED
        BY <3>1, <3>2
    <2> QED
      BY <2>2, <2>3, <2>4, <2>5 DEF Path
  <1> QED
    BY <1>1

\* A key goes before a path, and can be taken away again.
LEMMA KeyBefore ==
  ASSUME NEW k \in STRING, NEW p \in Path
  PROVE  /\ (<<Key(k)>> \o p)[1] = Key(k)
         /\ p # <<>> => <<Key(k)>> \o p # <<Key(k)>>
         /\ \A q \in Path : <<Key(k)>> \o p = <<Key(k)>> \o q => p = q
  <1> DEFINE S == [key : STRING] \cup [index : Nat]
             x == Key(k)
  <1>1. x \in S /\ p \in Seq(S) /\ Path = Seq(S)
    BY KeyIsSegment DEF Path
  <1> HIDE DEF S, x
  <1>2. (<<x>> \o p)[1] = x
    BY <1>1
  <1>3. p # <<>> => <<x>> \o p # <<x>>
    <2>1. Len(<<x>> \o p) = 1 + Len(p) /\ Len(<<x>>) = 1
      BY <1>1
    <2>2. p # <<>> => Len(p) # 0
      BY <1>1
    <2> QED
      BY <1>1, <2>1, <2>2
  <1>4. ASSUME NEW q \in Seq(S), <<x>> \o p = <<x>> \o q
        PROVE  p = q
    <2>1. Len(<<x>> \o p) = 1 + Len(p) /\ Len(<<x>> \o q) = 1 + Len(q)
      BY <1>1
    <2>2. Len(p) = Len(q)
      BY <1>1, <1>4, <2>1
    <2>3. \A j \in 1 .. Len(p) : p[j] = (<<x>> \o p)[j + 1]
      BY <1>1
    <2>4. \A j \in 1 .. Len(q) : q[j] = (<<x>> \o q)[j + 1]
      BY <1>1
    <2>5. \A j \in 1 .. Len(p) : p[j] = q[j]
      BY <1>4, <2>2, <2>3, <2>4
    <2> QED
      BY <1>1, <2>2, <2>5
  <1> QED
    BY <1>1, <1>2, <1>3, <1>4 DEF x

\* Two captures that are one a level up are one.
LEMMA LiftedDistinct ==
  ASSUME NEW k \in STRING, NEW captures, \A c \in captures : c.path \in Path,
         \A c \in captures : c = [path |-> c.path, name |-> c.name]
  PROVE  /\ Distinct(Lifted(k, captures)) <=> Distinct(captures)
         /\ Names(Lifted(k, captures)) = Names(captures)
  <1> DEFINE lift(c) == [path |-> <<Key(k)>> \o c.path, name |-> c.name]
  <1>1. Lifted(k, captures) = {lift(c) : c \in captures} /\ \A c : lift(c).name = c.name
    BY DEF Lifted
  <1>2. ASSUME NEW c \in captures, NEW d \in captures, lift(c) = lift(d)
        PROVE  c = d
    <2>1. <<Key(k)>> \o c.path = <<Key(k)>> \o d.path /\ c.name = d.name
      BY <1>2
    <2>2. c.path = d.path
      BY <2>1, KeyBefore
    <2> QED
      BY <2>1, <2>2
  <1> HIDE DEF lift
  <1>3. Distinct(Lifted(k, captures)) <=> Distinct(captures)
    BY <1>1, <1>2 DEF Distinct
  <1>4. Names(Lifted(k, captures)) = Names(captures)
    BY <1>1 DEF Names
  <1> QED
    BY <1>3, <1>4

\* A capture is a path and a name.
LEMMA CaptureForm ==
  ASSUME NEW n, NEW a
  PROVE  \A c \in CapturesUpTo(n, a) : c = [path |-> c.path, name |-> c.name]
  BY DEF CapturesUpTo, ScopeCaptures

\* The captures of one field.
LEMMA FieldCapturesDistinct ==
  ASSUME NEW n \in 0 .. MaxHeight, NEW a \in AssertionUpTo[n], NEW i \in DOMAIN a.fields
  PROVE  LET own == OwnCapture(a, i)
             inner == CapturesUpTo(n - 1, a.fields[i].nested[1])
         IN /\ Names(FieldCaptures(n, a, i)) =
                 Names(own) \cup IF a.fields[i].nested = <<>> THEN {} ELSE Names(inner)
            /\ Distinct(FieldCaptures(n, a, i)) <=>
                 (a.fields[i].nested # <<>> => Distinct(inner) /\ Names(own) \cap Names(inner) = {})
            /\ \A c \in FieldCaptures(n, a, i) : c.path[1] = Key(a.fields[i].name)
  <1> DEFINE k == a.fields[i].name
             own == OwnCapture(a, i)
             inner == CapturesUpTo(n - 1, a.fields[i].nested[1])
             o == [path |-> <<Key(k)>>, name |-> a.fields[i].capture[1]]
             all == FieldCaptures(n, a, i)
  <1>1. k \in STRING /\ (a.fields[i].nested # <<>> =>
           n - 1 \in 0 .. MaxHeight /\ a.fields[i].nested[1] \in AssertionUpTo[n - 1])
    BY FieldForms
  <1>2. own = IF a.fields[i].capture = <<>> THEN {} ELSE {o}
    BY DEF OwnCapture
  <1>3. o.path[1] = Key(k)
    OBVIOUS
  <1>4. CASE a.fields[i].nested = <<>>
    <2>1. all = own
      BY <1>4 DEF FieldCaptures, NestedCaptures
    <2> HIDE DEF o, own, all
    <2>2. Distinct(own)
      BY <1>2 DEF Distinct
    <2>3. \A c \in own : c.path[1] = Key(k)
      BY <1>2, <1>3
    <2>4. Names(all) = Names(own)
      BY <2>1
    <2> QED
      BY <1>4, <2>1, <2>2, <2>3, <2>4 DEF all, own
  <1>5. CASE a.fields[i].nested # <<>>
    <2>1. all = own \cup Lifted(k, inner)
      BY <1>5 DEF FieldCaptures, NestedCaptures
    <2>2. \A c \in inner : c.path \in Path /\ c.path # <<>> /\ c = [path |-> c.path, name |-> c.name]
      BY <1>1, <1>5, CapturePaths, CaptureForm
    <2>3. /\ Distinct(Lifted(k, inner)) <=> Distinct(inner)
          /\ Names(Lifted(k, inner)) = Names(inner)
      BY <1>1, <2>2, LiftedDistinct
    <2>4. ASSUME NEW c \in Lifted(k, inner)
          PROVE  c.path[1] = Key(k) /\ c # o
      <3>1. PICK d \in inner : c = [path |-> <<Key(k)>> \o d.path, name |-> d.name]
        BY DEF Lifted
      <3>2. d.path \in Path /\ d.path # <<>>
        BY <2>2
      <3> QED
        BY <1>1, <3>1, <3>2, KeyBefore
    <2> HIDE DEF o, own, all, inner, k
    <2>5. Names(all) = Names(own) \cup Names(inner)
      BY <2>1, <2>3 DEF Names
    <2>6. Distinct(all) <=> Distinct(inner) /\ Names(own) \cap Names(inner) = {}
      <3>1. Distinct(own)
        BY <1>2 DEF Distinct
      <3>2. ASSUME NEW A, NEW B, A \cap B = {}
            PROVE  Distinct(A \cup B) <=> Distinct(A) /\ Distinct(B) /\ Names(A) \cap Names(B) = {}
        BY <3>2 DEF Distinct, Names
      <3>3. own \cap Lifted(k, inner) = {}
        BY <1>2, <2>4
      <3> QED
        BY <2>1, <2>3, <3>1, <3>2, <3>3
    <2>7. \A c \in all : c.path[1] = Key(k)
      BY <1>2, <1>3, <2>1, <2>4
    <2> QED
      BY <1>5, <2>5, <2>6, <2>7 DEF all, own, inner, k
  <1> QED
    BY <1>4, <1>5

\* The captures of all fields.
LEMMA FieldsDistinct ==
  ASSUME NEW n \in 0 .. MaxHeight, NEW a \in AssertionUpTo[n]
  PROVE  /\ Distinct(CapturesUpTo(n, a)) <=>
              /\ \A i \in DOMAIN a.fields : Distinct(FieldCaptures(n, a, i))
              /\ \A i, j \in DOMAIN a.fields :
                   i # j => Names(FieldCaptures(n, a, i)) \cap Names(FieldCaptures(n, a, j)) = {}
         /\ Names(CapturesUpTo(n, a)) = UNION {Names(FieldCaptures(n, a, i)) : i \in DOMAIN a.fields}
  <1> DEFINE C == [i \in DOMAIN a.fields |-> FieldCaptures(n, a, i)]
  <1>1. ASSUME NEW i \in DOMAIN a.fields, NEW j \in DOMAIN a.fields, i # j
        PROVE  C[i] \cap C[j] = {}
    <2>1. a.fields[i].name # a.fields[j].name
      BY <1>1, FieldForms
    <2>2. Key(a.fields[i].name) # Key(a.fields[j].name)
      BY <2>1 DEF Key
    <2>3. /\ \A c \in FieldCaptures(n, a, i) : c.path[1] = Key(a.fields[i].name)
          /\ \A c \in FieldCaptures(n, a, j) : c.path[1] = Key(a.fields[j].name)
      BY FieldCapturesDistinct
    <2> QED
      BY <2>2, <2>3
  <1>2. \A i \in DOMAIN a.fields : C[i] = FieldCaptures(n, a, i)
    OBVIOUS
  <1> DEFINE I == DOMAIN a.fields
             all == UNION {C[i] : i \in I}
  <1>3. CapturesUpTo(n, a) = UNION {FieldCaptures(n, a, i) : i \in I}
    BY CapturesUnfold
  <1> HIDE DEF C
  <1>4. CapturesUpTo(n, a) = all
    BY <1>2, <1>3
  <1>5. \A i, j \in I : i # j => C[i] \cap C[j] = {}
    BY <1>1
  <1> HIDE DEF I
  <1>6. /\ Distinct(all) <=>
             /\ \A i \in I : Distinct(C[i])
             /\ \A i, j \in I : i # j => Names(C[i]) \cap Names(C[j]) = {}
        /\ Names(all) = UNION {Names(C[i]) : i \in I}
    <2>1. Names(all) = UNION {Names(C[i]) : i \in I}
      BY DEF Names
    <2>2. Distinct(all) <=>
             /\ \A i \in I : Distinct(C[i])
             /\ \A i, j \in I : i # j => Names(C[i]) \cap Names(C[j]) = {}
      BY <1>5 DEF Distinct, Names
    <2> QED
      BY <2>1, <2>2
  <1> HIDE DEF all
  <1> QED
    BY <1>2, <1>4, <1>6 DEF I

(***************************************************************************)
(* The walk fails for a name that is taken, or for a nested assertion      *)
(* where no object can be.                                                 *)
(***************************************************************************)
StagedNames(w) == {w.staged[i].name : i \in DOMAIN w.staged}

Takes(r, w, names) ==
  /\ (r.error = "none") <=> names \cap StagedNames(w) = {}
  /\ r.error = "none" => StagedNames(r) = StagedNames(w) \cup names

TakesIf(r, w, ok, names) ==
  /\ ok => Takes(r, w, names)
  /\ ~ ok => r.error # "none"

\* Sets of names that steps take, and when they all can.
AllNames(N, length) == UNION {N[i] : i \in 1 .. length}

AllFree(N, Ok, w, length) ==
  /\ \A i \in 1 .. length : i \in Ok /\ N[i] \cap StagedNames(w) = {}
  /\ \A i, j \in 1 .. length : i # j => N[i] \cap N[j] = {}

StepsTake(f, steps, N, Ok, length) ==
  /\ f[0].error = "none"
  /\ \A m \in 1 .. length : f[m] = GoOn(steps, m, f[m - 1])
  /\ \A m \in 1 .. length :
       f[m - 1].error = "none" => TakesIf(steps[m][f[m - 1]], f[m - 1], m \in Ok, N[m])

\* Steps that take names, until the first that cannot.
LEMMA NamesInTurn ==
  ASSUME NEW steps, NEW length \in Nat, NEW f, NEW Ok, NEW N,
         StepsTake(f, steps, N, Ok, length)
  PROVE  /\ (f[length].error = "none") <=> AllFree(N, Ok, f[0], length)
         /\ f[length].error = "none" =>
              StagedNames(f[length]) = StagedNames(f[0]) \cup AllNames(N, length)
  <1> DEFINE Free(m) == /\ \A i \in 1 .. m : i \in Ok /\ N[i] \cap StagedNames(f[0]) = {}
                        /\ \A i, j \in 1 .. m : i # j => N[i] \cap N[j] = {}
             Taken(m) == StagedNames(f[0]) \cup (UNION {N[i] : i \in 1 .. m})
             Known(m) == /\ (f[m].error = "none") <=> Free(m)
                         /\ f[m].error = "none" => StagedNames(f[m]) = Taken(m)
             Bad == {m \in 0 .. length : ~ Known(m)}
  <1>0. /\ f[0].error = "none"
        /\ \A m \in 1 .. length : f[m] = GoOn(steps, m, f[m - 1])
        /\ \A m \in 1 .. length :
             f[m - 1].error = "none" => TakesIf(steps[m][f[m - 1]], f[m - 1], m \in Ok, N[m])
    BY DEF StepsTake
  <1>1. Known(0)
    <2>1. 1 .. 0 = {}
      OBVIOUS
    <2> QED
      BY <1>0, <2>1
  <1>2. ASSUME NEW m \in 1 .. length, Known(m - 1)
        PROVE  Known(m)
    <2>1. 1 .. m = (1 .. m - 1) \cup {m} /\ m \notin 1 .. m - 1
      OBVIOUS
    <2>2. Taken(m) = Taken(m - 1) \cup N[m]
      BY <2>1
    <2>3. Free(m) <=> Free(m - 1) /\ m \in Ok /\ N[m] \cap Taken(m - 1) = {}
      <3> DEFINE K == 1 .. m - 1
      <3>1. (\A i \in 1 .. m : i \in Ok /\ N[i] \cap StagedNames(f[0]) = {}) <=>
              (\A i \in K : i \in Ok /\ N[i] \cap StagedNames(f[0]) = {})
                /\ m \in Ok /\ N[m] \cap StagedNames(f[0]) = {}
        BY <2>1
      <3>2. (\A i, j \in 1 .. m : i # j => N[i] \cap N[j] = {}) <=>
              (\A i, j \in K : i # j => N[i] \cap N[j] = {})
                /\ \A i \in K : N[m] \cap N[i] = {}
        BY <2>1
      <3>3. N[m] \cap Taken(m - 1) = {} <=>
              N[m] \cap StagedNames(f[0]) = {} /\ \A i \in K : N[m] \cap N[i] = {}
        OBVIOUS
      <3> QED
        BY <3>1, <3>2, <3>3
    <2> HIDE DEF Free, Taken
    <2>4. CASE f[m - 1].error # "none"
      BY <1>0, <1>2, <2>3, <2>4 DEF GoOn
    <2>5. CASE f[m - 1].error = "none"
      <3>1. f[m] = steps[m][f[m - 1]]
        BY <1>0, <2>5 DEF GoOn
      <3>2. Free(m - 1) /\ StagedNames(f[m - 1]) = Taken(m - 1)
        BY <1>2, <2>5
      <3>3. TakesIf(f[m], f[m - 1], m \in Ok, N[m])
        BY <1>0, <2>5, <3>1
      <3> QED
        BY <2>2, <2>3, <3>2, <3>3 DEF TakesIf, Takes
    <2> QED
      BY <2>4, <2>5
  <1> HIDE DEF Known
  <1>3. ASSUME NEW m \in Bad, \A k \in Bad : m <= k
        PROVE  FALSE
    <2>1. m \in 1 .. length
      BY <1>1, <1>3
    <2>2. m - 1 \in 0 .. length /\ ~ (m <= m - 1)
      BY <2>1
    <2>3. Known(m - 1)
      BY <1>3, <2>2
    <2> QED
      BY <1>2, <1>3, <2>1, <2>3
  <1>4. Bad \in SUBSET Nat
    OBVIOUS
  <1>5. Bad = {}
    BY <1>3, <1>4, LeastNumber
  <1>6. Known(length)
    BY <1>5
  <1> QED
    BY <1>6 DEF Known, AllFree, AllNames

\* Staging takes one name.
LEMMA StageTakes ==
  ASSUME NEW w \in Walk, w.error = "none", NEW name, NEW shared, NEW path
  PROVE  Takes(Stage(w, name, shared, path), w, {name})
  <1> DEFINE c == [name |-> name, root |-> shared[1].root, from |-> path,
                   below |-> SubSeq(path, shared[1].depth + 1, Len(path))]
             Entry == [name : STRING, root : Json, below : Path, from : Path]
             r == Stage(w, name, shared, path)
  <1>1. /\ w = [staged |-> w.staged, error |-> w.error] /\ w.staged \in Seq(Entry)
    BY DEF Walk
  <1>2. CASE \E i \in DOMAIN w.staged : w.staged[i].name = name
    <2>1. r.error = "DuplicateVariable"
      BY <1>1, <1>2 DEF Stage
    <2>2. name \in StagedNames(w)
      BY <1>2 DEF StagedNames
    <2> HIDE DEF r
    <2> QED
      BY <2>1, <2>2 DEF Takes, r
  <1>3. CASE ~ \E i \in DOMAIN w.staged : w.staged[i].name = name
    <2>1. r = [w EXCEPT !.staged = Append(@, c)]
      BY <1>3 DEF Stage
    <2>2. c.name = name
      OBVIOUS
    <2> HIDE DEF c, Entry
    <2>3. r.error = "none" /\ r.staged = Append(w.staged, c)
      <3>1. ASSUME NEW x, NEW y, NEW e, w = [staged |-> x, error |-> e]
            PROVE  [w EXCEPT !.staged = y] = [staged |-> y, error |-> e]
        BY <3>1
      <3>2. r = [staged |-> Append(w.staged, c), error |-> w.error]
        BY <1>1, <2>1, <3>1
      <3> HIDE DEF r
      <3> QED
        BY <3>2
    <2> HIDE DEF r
    <2> DEFINE s == w.staged
    <2>4. /\ DOMAIN Append(s, c) = DOMAIN s \cup {Len(s) + 1} /\ Len(s) + 1 \notin DOMAIN s
          /\ \A i \in DOMAIN s : Append(s, c)[i] = s[i]
          /\ Append(s, c)[Len(s) + 1] = c
      BY <1>1
    <2>5. StagedNames(r) = StagedNames(w) \cup {name}
      BY <2>2, <2>3, <2>4 DEF StagedNames
    <2>6. {name} \cap StagedNames(w) = {}
      BY <1>3 DEF StagedNames
    <2> QED
      BY <2>3, <2>5, <2>6 DEF Takes, r
  <1> QED
    BY <1>2, <1>3

\* The capture of a field takes its name.
LEMMA CaptureTakes ==
  ASSUME NEW w \in Walk, w.error = "none", NEW site, NEW i
  PROVE  Takes(CaptureField(w, site, i), w, Names(OwnCapture(site.assertion, i)))
  <1>1. CASE FieldOf(site, i).capture = <<>>
    <2>1. CaptureField(w, site, i) = w /\ Names(OwnCapture(site.assertion, i)) = {}
      BY <1>1 DEF CaptureField, OwnCapture, FieldOf, Names
    <2> QED
      BY <2>1 DEF Takes
  <1>2. CASE FieldOf(site, i).capture # <<>>
    <2> DEFINE o == [path |-> <<Key(FieldOf(site, i).name)>>, name |-> FieldOf(site, i).capture[1]]
    <2>1. OwnCapture(site.assertion, i) = {o} /\ o.name = FieldOf(site, i).capture[1]
      BY <1>2 DEF OwnCapture, FieldOf
    <2>2. CaptureField(w, site, i)
            = Stage(w, FieldOf(site, i).capture[1], SharedBelow(site, i), FieldPath(site, i))
      BY <1>2 DEF CaptureField
    <2> HIDE DEF o
    <2>3. Names(OwnCapture(site.assertion, i)) = {FieldOf(site, i).capture[1]}
      BY <2>1 DEF Names
    <2> QED
      BY <2>2, <2>3, StageTakes
  <1> QED
    BY <1>1, <1>2

\* A site where all that is asserted holds.
SiteMatches(n, site) ==
  KindOf(site.actual) = "object"
    /\ \E depth \in Nat : ObjectMatches(n, site.assertion, site.actual, depth)

WalkTakes(n, site, w) ==
  TakesIf(ExtractUpTo[n][site][w], w,
          NestedOk(n, site.assertion) /\ Distinct(CapturesUpTo(n, site.assertion)),
          Names(CapturesUpTo(n, site.assertion)))

WalksTakeUpTo(n) ==
  \A v, site : SiteIn(n, v, site) /\ SiteMatches(n, site) =>
     \A w \in Readable(v) : w.error = "none" => WalkTakes(n, site, w)

FieldOk(n, a, i) ==
  /\ a.fields[i].nested # <<>> =>
       a.fields[i].type = "object" /\ NestedOk(n - 1, a.fields[i].nested[1])
  /\ Distinct(FieldCaptures(n, a, i))

\* The fields of a site that matches are there.
LEMMA FieldOfMatch ==
  ASSUME NEW n \in 0 .. MaxHeight, NEW v, NEW site, SiteIn(n, v, site), SiteMatches(n, site),
         NEW i \in DOMAIN site.assertion.fields
  PROVE  /\ FieldKey(site, i) \in Segments(site.actual)
         /\ HasType(FieldValue(site, i), FieldOf(site, i).type)
         /\ FieldOf(site, i).nested # <<>> /\ KindOf(FieldValue(site, i)) = "object" =>
              SiteMatches(n - 1, SiteBelow(site, i))
  <1>1. site.assertion \in AssertionUpTo[n]
    BY DEF SiteIn, Site
  <1>2. PICK depth \in Nat : ObjectMatches(n, site.assertion, site.actual, depth)
    BY DEF SiteMatches
  <1>3. /\ ScopeMatches(site.assertion, site.actual, depth)
        /\ NestedMatches(n, site.assertion, site.actual, depth, i)
    BY <1>1, <1>2, ObjectUnfold DEF SiteMatches
  <1>4. /\ FieldValue(site, i) # Missing
        /\ HasType(FieldValue(site, i), FieldOf(site, i).type)
    BY <1>3 DEF ScopeMatches, FieldValue, FieldKey, FieldOf
  <1>5. FieldKey(site, i) \in Segments(site.actual)
    BY <1>4, NoChild DEF FieldValue
  <1>6. ASSUME FieldOf(site, i).nested # <<>>, KindOf(FieldValue(site, i)) = "object"
        PROVE  SiteMatches(n - 1, SiteBelow(site, i))
    <2>1. ObjectMatches(n - 1, FieldOf(site, i).nested[1], FieldValue(site, i), depth + 1)
      BY <1>3, <1>6 DEF NestedMatches, FieldOf, FieldValue, FieldKey
    <2>2. depth + 1 \in Nat
      OBVIOUS
    <2> QED
      BY <1>6, <2>1, <2>2 DEF SiteMatches, SiteBelow
  <1> QED
    BY <1>4, <1>5, <1>6

\* One field takes the names of its captures.
LEMMA FieldTakes ==
  ASSUME NEW n \in 0 .. MaxHeight, n - 1 \in 0 .. MaxHeight => WalksTakeUpTo(n - 1),
         NEW v, NEW site, SiteIn(n, v, site), SiteMatches(n, site),
         NEW i \in DOMAIN site.assertion.fields, NEW w \in Readable(v), w.error = "none"
  PROVE  TakesIf(FieldStep(n, site, i)[w], w, FieldOk(n, site.assertion, i),
                 Names(FieldCaptures(n, site.assertion, i)))
  <1> DEFINE a == site.assertion
             taken == CaptureField(w, site, i)
             r == FieldStep(n, site, i)[w]
             own == Names(OwnCapture(a, i))
             all == Names(FieldCaptures(n, a, i))
             inner == CapturesUpTo(n - 1, a.fields[i].nested[1])
             below == SiteBelow(site, i)
  <1>1. /\ FieldKey(site, i) \in Segments(site.actual)
        /\ HasType(FieldValue(site, i), FieldOf(site, i).type)
        /\ a \in AssertionUpTo[n] /\ w \in Walk /\ FieldOf(site, i) = a.fields[i]
    BY FieldOfMatch DEF SiteIn, Site, Readable, FieldOf
  <1>2. r = IF taken.error # "none" \/ FieldOf(site, i).nested = <<>> THEN taken
            ELSE IF KindOf(FieldValue(site, i)) # "object"
            THEN Failed(taken, "InvalidNestedCaptureField")
            ELSE ExtractUpTo[n - 1][SiteBelow(site, i)][taken]
    BY <1>1 DEF FieldStep
  <1>3. Takes(taken, w, own)
    BY <1>1, CaptureTakes
  <1>4. taken \in Readable(v) /\ taken \in Walk
    BY <1>1, CaptureReads DEF Readable
  <1>5. /\ all = own \cup IF a.fields[i].nested = <<>> THEN {} ELSE Names(inner)
        /\ Distinct(FieldCaptures(n, a, i)) <=>
             (a.fields[i].nested # <<>> => Distinct(inner) /\ own \cap Names(inner) = {})
    BY <1>1, FieldCapturesDistinct
  <1> HIDE DEF taken, r, own, all, inner
  <1>6. CASE taken.error # "none"
    <2>1. r.error # "none" /\ all \cap StagedNames(w) # {}
      BY <1>2, <1>3, <1>5, <1>6 DEF Takes
    <2>2. TakesIf(r, w, FieldOk(n, a, i), all)
      BY <2>1 DEF TakesIf, Takes
    <2> QED
      BY <2>2 DEF r, all
  <1>7. CASE taken.error = "none" /\ a.fields[i].nested = <<>>
    <2>1. r = taken /\ all = own /\ FieldOk(n, a, i)
      BY <1>1, <1>2, <1>5, <1>7 DEF FieldOk
    <2>2. TakesIf(r, w, FieldOk(n, a, i), all)
      BY <1>3, <2>1 DEF TakesIf
    <2> QED
      BY <2>2 DEF r, all
  <1>8. CASE /\ taken.error = "none" /\ a.fields[i].nested # <<>>
             /\ KindOf(FieldValue(site, i)) # "object"
    <2>1. r = Failed(taken, "InvalidNestedCaptureField")
      BY <1>1, <1>2, <1>8
    <2>2. r.error # "none"
      BY <1>4, <2>1, FailedForm DEF Reason
    <2>3. a.fields[i].type # "object"
      BY <1>1, <1>8 DEF HasType
    <2>4. TakesIf(r, w, FieldOk(n, a, i), all)
      BY <1>8, <2>2, <2>3 DEF TakesIf, FieldOk
    <2> QED
      BY <2>4 DEF r, all
  <1>9. CASE /\ taken.error = "none" /\ a.fields[i].nested # <<>>
             /\ KindOf(FieldValue(site, i)) = "object"
    <2>1. r = ExtractUpTo[n - 1][below][taken]
      BY <1>1, <1>2, <1>9
    <2>2. a.fields[i].type = "object"
      <3>1. a.fields[i].type \in Types
        BY <1>1, FieldForms
      <3> QED
        BY <1>1, <1>9, <3>1 DEF HasType, IsNumber, Types
    <2>3. n - 1 \in 0 .. MaxHeight /\ SiteIn(n - 1, v, below) /\ SiteMatches(n - 1, below)
      BY <1>1, <1>9, SiteBelowIn, FieldOfMatch
    <2>4. WalkTakes(n - 1, below, taken)
      BY <1>4, <1>9, <2>3 DEF WalksTakeUpTo
    <2>5. below.assertion = a.fields[i].nested[1]
      BY DEF SiteBelow, FieldOf
    <2>6. TakesIf(r, taken, NestedOk(n - 1, a.fields[i].nested[1]) /\ Distinct(inner), Names(inner))
      BY <2>1, <2>4, <2>5 DEF WalkTakes, inner
    <2>7. StagedNames(taken) = StagedNames(w) \cup own /\ own \cap StagedNames(w) = {}
      BY <1>3, <1>9 DEF Takes
    <2>8. /\ all = own \cup Names(inner)
          /\ FieldOk(n, a, i) <=> /\ NestedOk(n - 1, a.fields[i].nested[1]) /\ Distinct(inner)
                                  /\ own \cap Names(inner) = {}
      BY <1>5, <1>9, <2>2 DEF FieldOk
    <2>9. TakesIf(r, w, FieldOk(n, a, i), all)
      BY <2>6, <2>7, <2>8 DEF TakesIf, Takes
    <2> QED
      BY <2>9 DEF r, all
  <1> QED
    BY <1>6, <1>7, <1>8, <1>9

\* All fields take the names of their captures.
LEMMA SiteTakes ==
  ASSUME NEW n \in 0 .. MaxHeight, n - 1 \in 0 .. MaxHeight => WalksTakeUpTo(n - 1),
         NEW v, NEW site, SiteIn(n, v, site), SiteMatches(n, site),
         NEW w \in Readable(v), w.error = "none"
  PROVE  WalkTakes(n, site, w)
  <1> DEFINE a == site.assertion
             length == Len(a.fields)
             steps == FieldSteps(n, site)
             N == [i \in 1 .. length |-> Names(FieldCaptures(n, a, i))]
             Ok == {i \in 1 .. length : FieldOk(n, a, i)}
             r == ExtractUpTo[n][site][w]
             K == Readable(v)
  <1>1. /\ site \in Site(n) /\ a \in AssertionUpTo[n] /\ w \in Walk /\ K \in SUBSET Walk
    BY DEF SiteIn, Site, Readable
  <1>2. /\ DOMAIN a.fields = 1 .. length /\ length \in Nat /\ Len(steps) = length
        /\ \A i \in 1 .. length : steps[i] = FieldStep(n, site, i)
    BY <1>1, StepsForm
  <1>3. r = UntilError(steps)[w]
    BY <1>1, ExtractForms
  <1>4. ASSUME NEW i \in 1 .. length, NEW x \in K
        PROVE  /\ steps[i][x] \in K
               /\ x.error = "none" => TakesIf(steps[i][x], x, i \in Ok, N[i])
    <2>1. i \in DOMAIN site.assertion.fields /\ steps[i] = FieldStep(n, site, i)
      BY <1>2
    <2>2. steps[i][x] \in K
      <3>1. n - 1 \in 0 .. MaxHeight => ReadsUpTo(n - 1)
        BY AllReads
      <3> QED
        BY <2>1, <3>1, FieldReads
    <2>3. x.error = "none" => TakesIf(steps[i][x], x, FieldOk(n, a, i), Names(FieldCaptures(n, a, i)))
      BY <2>1, FieldTakes
    <2>4. (i \in Ok <=> FieldOk(n, a, i)) /\ N[i] = Names(FieldCaptures(n, a, i))
      OBVIOUS
    <2> HIDE DEF Ok, N, steps
    <2> QED
      BY <2>2, <2>3, <2>4 DEF TakesIf
  <1> HIDE DEF steps, r, K
  <1>5. PICK f : /\ f[0] = w
                 /\ \A m \in 1 .. length : f[m] = GoOn(steps, m, f[m - 1])
                 /\ r = f[length]
    BY <1>1, <1>2, <1>3, UntilErrorCourse
  <1>6. \A m \in 0 .. length : f[m] \in K
    <2> DEFINE Bad == {m \in 0 .. length : f[m] \notin K}
    <2>1. ASSUME NEW m \in Bad, \A k \in Bad : m <= k
          PROVE  FALSE
      <3>1. m \in 1 .. length
        BY <1>2, <1>5, <2>1 DEF K
      <3>2. m - 1 \in 0 .. length /\ ~ (m <= m - 1)
        BY <1>2, <3>1
      <3>3. f[m - 1] \in K
        BY <2>1, <3>2
      <3>4. f[m] = GoOn(steps, m, f[m - 1])
        BY <1>5, <3>1
      <3>5. steps[m][f[m - 1]] \in K
        BY <1>4, <3>1, <3>3
      <3> QED
        BY <2>1, <3>3, <3>4, <3>5 DEF GoOn
    <2>2. Bad \in SUBSET Nat
      BY <1>2
    <2>3. Bad = {}
      BY <2>1, <2>2, LeastNumber
    <2> QED
      BY <2>3
  <1>7. \A m \in 1 .. length :
          f[m - 1].error = "none" => TakesIf(steps[m][f[m - 1]], f[m - 1], m \in Ok, N[m])
    <2>1. ASSUME NEW m \in 1 .. length, f[m - 1].error = "none"
          PROVE  TakesIf(steps[m][f[m - 1]], f[m - 1], m \in Ok, N[m])
      <3>1. m - 1 \in 0 .. length
        BY <1>2
      <3>2. f[m - 1] \in K
        BY <1>6, <3>1
      <3> HIDE DEF Ok, N
      <3> QED
        BY <1>4, <2>1, <3>2
    <2> QED
      BY <2>1
  <1>8. /\ Distinct(CapturesUpTo(n, a)) <=>
              /\ \A i \in 1 .. length : Distinct(FieldCaptures(n, a, i))
              /\ \A i, j \in 1 .. length : i # j => N[i] \cap N[j] = {}
        /\ Names(CapturesUpTo(n, a)) = UNION {N[i] : i \in 1 .. length}
    <2>1. \A i \in 1 .. length : N[i] = Names(FieldCaptures(n, a, i))
      OBVIOUS
    <2> HIDE DEF N
    <2>2. /\ Distinct(CapturesUpTo(n, a)) <=>
                /\ \A i \in 1 .. length : Distinct(FieldCaptures(n, a, i))
                /\ \A i, j \in 1 .. length :
                     i # j => Names(FieldCaptures(n, a, i)) \cap Names(FieldCaptures(n, a, j)) = {}
          /\ Names(CapturesUpTo(n, a)) = UNION {Names(FieldCaptures(n, a, i)) : i \in 1 .. length}
      BY <1>1, <1>2, FieldsDistinct
    <2> QED
      BY <2>1, <2>2
  <1>9. NestedOk(n, a) /\ Distinct(CapturesUpTo(n, a)) <=>
          /\ \A i \in 1 .. length : i \in Ok
          /\ \A i, j \in 1 .. length : i # j => N[i] \cap N[j] = {}
    <2>1. NestedOk(n, a) <=>
            \A i \in 1 .. length : a.fields[i].nested # <<>> =>
               a.fields[i].type = "object" /\ NestedOk(n - 1, a.fields[i].nested[1])
      BY <1>1, <1>2, NestedOkUnfold
    <2>2. \A i \in 1 .. length : i \in Ok <=> FieldOk(n, a, i)
      OBVIOUS
    <2> HIDE DEF Ok, N, length
    <2> QED
      BY <1>8, <2>1, <2>2 DEF FieldOk
  <1>10. f[0].error = "none"
    BY <1>5
  <1> HIDE DEF Ok, N, length
  <1>14. StepsTake(f, steps, N, Ok, length)
    BY <1>5, <1>7, <1>10 DEF StepsTake
  <1>11. /\ (f[length].error = "none") <=> AllFree(N, Ok, f[0], length)
         /\ f[length].error = "none" => StagedNames(f[length]) = StagedNames(f[0]) \cup AllNames(N, length)
    BY <1>2, <1>14, NamesInTurn
  <1>12. Names(CapturesUpTo(n, a)) \cap StagedNames(w) = {} <=>
           \A i \in 1 .. length : N[i] \cap StagedNames(w) = {}
    BY <1>8
  <1>13. TakesIf(r, w, NestedOk(n, a) /\ Distinct(CapturesUpTo(n, a)), Names(CapturesUpTo(n, a)))
    BY <1>5, <1>8, <1>9, <1>11, <1>12 DEF TakesIf, Takes, AllFree, AllNames
  <1> QED
    BY <1>13 DEF WalkTakes, r

\* Walks of every height.
LEMMA AllWalksTake == \A n \in 0 .. MaxHeight : WalksTakeUpTo(n)
  <1> DEFINE Bad == {m \in 0 .. MaxHeight : ~ WalksTakeUpTo(m)}
  <1>1. ASSUME NEW m \in Bad, \A k \in Bad : m <= k
        PROVE  FALSE
    <2>1. ~ (m <= m - 1)
      BY HeightAssumption
    <2>2. m - 1 \in 0 .. MaxHeight => WalksTakeUpTo(m - 1)
      BY <1>1, <2>1
    <2>3. WalksTakeUpTo(m)
      BY <2>2, SiteTakes DEF WalksTakeUpTo
    <2> QED
      BY <1>1, <2>3
  <1>2. Bad \in SUBSET Nat
    BY HeightAssumption
  <1>3. Bad = {}
    BY <1>1, <1>2, LeastNumber
  <1> QED
    BY <1>3

\* A walk over a body that matches fails for what can be seen in the source.
LEMMA ExtractFails ==
  ASSUME NEW a \in AssertionUpTo[MaxHeight], NEW v \in Json, BodyMatches(a, v)
  PROVE  ExtractObject(a, v).error # "none" <=> ~ CapturesDistinct(a) \/ ~ NestedUnderObjects(a)
  <1> DEFINE site == WholeSite(a, v)
             r == ExtractUpTo[MaxHeight][site][FirstWalk]
  <1>1. MaxHeight \in 0 .. MaxHeight
    BY HeightAssumption
  <1>2. ExtractObject(a, v) = r
    BY DEF ExtractObject, WholeSite, FirstWalk
  <1>3. site.assertion = a /\ site.actual = v
    BY DEF WholeSite
  <1>4. SiteMatches(MaxHeight, site)
    <2>1. \A s \in Scopes(a) : Len(s.path) \in Nat /\ 0 + Len(s.path) = Len(s.path)
      <3>1. \A s \in Scopes(a) : s.path \in Path
        BY <1>1, ScopePaths DEF Scopes
      <3> QED
        BY <3>1 DEF Path
    <2>2. ObjectMatches(MaxHeight, a, v, 0) /\ KindOf(v) = "object"
      BY <2>1 DEF ObjectMatches, FitsScope, BodyMatches, Scopes
    <2> QED
      BY <1>3, <2>2 DEF SiteMatches
  <1>5. FirstWalk.error = "none" /\ StagedNames(FirstWalk) = {}
    BY DEF FirstWalk, StagedNames
  <1>6. SiteIn(MaxHeight, v, site) /\ FirstWalk \in Readable(v)
    BY WholeSiteIn
  <1> HIDE DEF site
  <1>7. WalkTakes(MaxHeight, site, FirstWalk)
    BY <1>1, <1>4, <1>5, <1>6, AllWalksTake DEF WalksTakeUpTo
  <1> HIDE DEF r
  <1>8. r.error = "none" <=> NestedOk(MaxHeight, a) /\ Distinct(CapturesUpTo(MaxHeight, a))
    BY <1>3, <1>5, <1>7 DEF WalkTakes, TakesIf, Takes, r
  <1>9. NestedOk(MaxHeight, a) <=> NestedUnderObjects(a)
    BY DEF NestedOk, NestedUnderObjects, Scopes
  <1>10. Distinct(CapturesUpTo(MaxHeight, a)) <=> CapturesDistinct(a)
    BY DEF Distinct, CapturesUpTo, ScopeCaptures, CapturesDistinct, CaptureFields, Scopes
  <1> QED
    BY <1>2, <1>8, <1>9, <1>10

(***************************************************************************)
(* What the walk leaves behind, in every state.                            *)
(***************************************************************************)
\* The report is evaluated, and a walk takes place only after a success.
Walked(a) ==
  LET walk == ExtractObject(a, Actual.body.value)
  IN /\ HasCapture(a)
     /\ error = walk.error
     /\ staged = IF walk.error = "none" THEN walk.staged ELSE <<>>

NotWalked == error = "none" /\ staged = <<>>

Extracted ==
  /\ Evaluated
  /\ phase \in {"assert", "capture", "done"}
  /\ phase # "done" => NotWalked
  /\ phase = "capture" => IsSuccess(report) /\ \E a \in BodyAssertions : HasCapture(a)
  /\ phase = "done" =>
       \/ NotWalked /\ (IsSuccess(report) => \A a \in BodyAssertions : ~ HasCapture(a))
       \/ IsSuccess(report) /\ \E a \in BodyAssertions : Walked(a)

\* There is at most one body assertion.
LEMMA BodyAssertionForms ==
  ASSUME Evaluated
  PROVE  /\ \A a, b \in BodyAssertions : a = b
         /\ \A a \in BodyAssertions : a \in AssertionUpTo[MaxHeight]
         /\ Actual.body.kind = "json" => Actual.body.value \in Json
  <1> DEFINE body == Expected.body
  <1>1. body \in Seq(BodyTest) /\ Len(body) <= 1 /\ Actual.body \in Body
    BY ExchangesAssumption DEF Evaluated, Expected, Actual, Optional
  <1>2. DOMAIN body = 1 .. Len(body) /\ Len(body) \in Nat /\ \A i \in DOMAIN body : body[i] \in BodyTest
    BY <1>1
  <1>3. \A i \in DOMAIN body : i = 1
    BY <1>1, <1>2
  <1>4. \A b \in BodyTest : b.kind = "json" => b.object \in AssertionUpTo[MaxHeight]
    BY DEF BodyTest
  <1>5. Actual.body.kind = "json" => Actual.body.value \in Json
    BY <1>1 DEF Body
  <1> QED
    BY <1>2, <1>3, <1>4, <1>5 DEF BodyAssertions

\* After a success the body matches its assertion.
LEMMA SuccessMatches ==
  ASSUME Evaluated, phase # "assert", IsSuccess(report), NEW a \in BodyAssertions
  PROVE  Actual.body.kind = "json" /\ BodyMatches(a, Actual.body.value)
  <1>1. Satisfied
    BY EvaluatedReport
  <1>2. PICK i \in DOMAIN Expected.body : Expected.body[i].kind = "json" /\ a = Expected.body[i].object
    BY DEF BodyAssertions
  <1> QED
    BY <1>1, <1>2 DEF Satisfied

\* The walk is that of the one body assertion.
LEMMA AlwaysExtracted == CaptureSpec => []Extracted
  <1>1. CaptureInit => Extracted
    BY DEF CaptureInit, Extracted, Evaluated, NotWalked
  <1>2. Extracted /\ [CaptureNext]_captureVars => Extracted'
    <2> SUFFICES ASSUME Extracted, [CaptureNext]_captureVars
                 PROVE  Extracted'
      OBVIOUS
    <2>1. CASE EvaluateAssertions
      <3>1. Expected' = Expected /\ Actual' = Actual /\ BodyAssertions' = BodyAssertions
        BY <2>1 DEF EvaluateAssertions, Expected, Actual, BodyAssertions
      <3>2. Evaluated'
        BY <2>1, <3>1 DEF EvaluateAssertions, Evaluated, Extracted
      <3>3. NotWalked'
        BY <2>1 DEF EvaluateAssertions, Extracted, NotWalked
      <3>4. phase' \in {"capture", "done"}
            /\ (phase' = "capture" <=> IsSuccess(report') /\ \E a \in BodyAssertions : HasCapture(a))
        BY <2>1 DEF EvaluateAssertions
      <3> QED
        BY <3>1, <3>2, <3>3, <3>4 DEF Extracted
    <2>2. CASE Extract
      <3>1. /\ Expected' = Expected /\ Actual' = Actual /\ BodyAssertions' = BodyAssertions
            /\ report' = report
        BY <2>2 DEF Extract, Expected, Actual, BodyAssertions
      <3>2. Evaluated'
        BY <2>2, <3>1 DEF Extract, Evaluated, Extracted
      <3>3. Evaluated /\ phase = "capture" /\ phase # "assert" /\ IsSuccess(report)
        BY <2>2 DEF Extract, Extracted
      <3>4. PICK a \in BodyAssertions : HasCapture(a)
        BY <2>2 DEF Extract, Extracted
      <3>5. Actual.body.kind = "json" /\ KindOf(Actual.body.value) = "object"
        BY <3>3, <3>4, SuccessMatches DEF BodyMatches
      <3>6. PICK b \in BodyAssertions :
              LET walk == ExtractObject(b, Actual.body.value)
              IN error' = walk.error /\ staged' = IF walk.error = "none" THEN walk.staged ELSE <<>>
        BY <2>2, <3>5 DEF Extract
      <3>7. b = a
        BY <3>3, <3>4, <3>6, BodyAssertionForms
      <3>8. Walked(b)'
        BY <3>1, <3>4, <3>6, <3>7 DEF Walked
      <3>9. phase' = "done" /\ IsSuccess(report')
        BY <2>2, <3>1, <3>3 DEF Extract
      <3> QED
        BY <3>1, <3>2, <3>6, <3>8, <3>9 DEF Extracted
    <2>3. CASE UNCHANGED captureVars
      BY <2>3 DEF captureVars, Extracted, Evaluated, Expected, Actual, BodyAssertions, Walked, NotWalked
    <2> QED
      BY <2>1, <2>2, <2>3 DEF CaptureNext
  <1> QED
    BY <1>1, <1>2, PTL DEF CaptureSpec

\* Whatever was captured and shared, reading a staged value back gives the
\* value of the captured field in the response.
THEOREM CapturesAreReadable == CaptureSpec => []CapturesReadBack
  <1>1. Extracted => CapturesReadBack
    <2> SUFFICES ASSUME Extracted
                 PROVE  CapturesReadBack
      OBVIOUS
    <2>1. CASE staged = <<>>
      BY <2>1 DEF CapturesReadBack
    <2>2. CASE staged # <<>>
      <3>1. phase = "done" /\ IsSuccess(report) /\ Evaluated
        BY <2>2 DEF Extracted, NotWalked
      <3>2. PICK a \in BodyAssertions : Walked(a)
        BY <2>2, <3>1 DEF Extracted, NotWalked
      <3>3. staged = ExtractObject(a, Actual.body.value).staged
        BY <2>2, <3>2 DEF Walked
      <3>4. a \in AssertionUpTo[MaxHeight] /\ Actual.body.value \in Json
        BY <3>1, <3>2, BodyAssertionForms, SuccessMatches
      <3>5. ExtractObject(a, Actual.body.value) \in Readable(Actual.body.value)
        BY <3>4, ExtractReads
      <3>6. \A i \in DOMAIN staged : ReadsBack(Actual.body.value, staged[i])
        BY <3>3, <3>5 DEF Readable
      <3> QED
        BY <3>6 DEF CapturesReadBack, ReadsBack
    <2> QED
      BY <2>1, <2>2
  <1> QED
    BY <1>1, AlwaysExtracted, PTL

\* After a success the walk fails for a name captured twice or a nested
\* assertion under a field that is no object: the response has no say in it.
THEOREM WalkFailureIsStatic == CaptureSpec => []WalkFailsStatically
  <1>1. Extracted => WalkFailsStatically
    <2> SUFFICES ASSUME Extracted, phase = "done", IsSuccess(report), NEW a \in BodyAssertions
                 PROVE  (error # "none") <=> /\ HasCapture(a)
                                             /\ ~ CapturesDistinct(a) \/ ~ NestedUnderObjects(a)
      BY DEF WalkFailsStatically
    <2>1. Evaluated
      BY DEF Extracted
    <2>2. CASE NotWalked /\ \A b \in BodyAssertions : ~ HasCapture(b)
      BY <2>2 DEF NotWalked
    <2>3. CASE \E b \in BodyAssertions : Walked(b)
      <3>1. Walked(a)
        BY <2>1, <2>3, BodyAssertionForms
      <3>2. a \in AssertionUpTo[MaxHeight] /\ Actual.body.value \in Json /\ BodyMatches(a, Actual.body.value)
        BY <2>1, BodyAssertionForms, SuccessMatches
      <3>3. ExtractObject(a, Actual.body.value).error # "none"
              <=> ~ CapturesDistinct(a) \/ ~ NestedUnderObjects(a)
        BY <3>2, ExtractFails
      <3> QED
        BY <3>1, <3>3 DEF Walked
    <2> QED
      BY <2>2, <2>3 DEF Extracted
  <1> QED
    BY <1>1, AlwaysExtracted, PTL
=============================================================================
