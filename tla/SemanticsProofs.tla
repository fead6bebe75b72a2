-------------------------- MODULE SemanticsProofs --------------------------
(***************************************************************************)
(* Theorems about Semantics, for syntax trees and suites of any size and   *)
(* height: validate_and_convert accepts exactly the sound suites           *)
(* (AcceptedExactly), and what it accepts can be converted and resolved    *)
(* (AcceptedMeansExecutable).                                              *)
(*                                                                         *)
(* The proof has four layers: the recursive definitions have solutions;    *)
(* the errors of a tree are none exactly if all its sites are clean, by    *)
(* induction on the height; the walk gives each test the scope that module *)
(* Suites defines (WalkInv); and the conversion of clean sites has tame    *)
(* nodes, for which ResolutionInv leaves few errors.                       *)
(***************************************************************************)
EXTENDS Semantics, ResolutionProofs, SequenceTheorems, FiniteSetTheorems

-----------------------------------------------------------------------------
(***************************************************************************)
(* The recursive definitions, solved like those of module Resolution.      *)
(***************************************************************************)
\* Values of the source.
TreesStep(n, prev) ==
  TextValue \cup [kind : {"scalar"}, type : {"integer", "number", "boolean", "null"}]
    \cup IF n = 0 THEN {}
         ELSE [kind : {"array"}, items : Seq(prev)]
                \cup [kind : {"object"}, entries : Seq([key : Spelled, value : prev])]

IsTrees(f, m) == f = [n \in 0 .. m |-> TreesStep(n, f[n - 1])]

\* There are no arrays and no objects at height 0.
LEMMA TreesBase == \A p, q : TreesStep(0, p) = TreesStep(0, q)
  BY DEF TreesStep

\* The recursive definition of ValueTreeUpTo has a solution.
LEMMA TreesExists == \E f : IsTrees(f, MaxHeight)
  <1> DEFINE Bad == {m \in 0 .. MaxHeight : ~ \E f : IsTrees(f, m)}
  <1>1. ASSUME NEW m \in Bad, \A k \in Bad : m <= k
        PROVE  FALSE
    <2>1. m # 0
      <3>1. IsTrees([n \in 0 .. 0 |-> TreesStep(0, 0)], 0)
        BY TreesBase DEF IsTrees
      <3> QED
        BY <1>1, <3>1
    <2>2. PICK f : IsTrees(f, m - 1)
      <3>1. m - 1 \in 0 .. MaxHeight /\ ~ (m <= m - 1)
        BY <2>1, LimitsArePositive
      <3> QED
        BY <1>1, <3>1
    <2> DEFINE longer == [n \in 0 .. m |-> IF n = m THEN TreesStep(m, f[m - 1]) ELSE f[n]]
    <2>3. ASSUME NEW n \in 0 .. m
          PROVE  longer[n] = TreesStep(n, longer[n - 1])
      <3>1. CASE n = m
        BY <2>1, <3>1
      <3>2. CASE n # m
        <4>1. n \in 0 .. m - 1 /\ longer[n] = f[n]
          BY <3>2
        <4>2. f[n] = TreesStep(n, f[n - 1])
          BY <2>2, <4>1 DEF IsTrees
        <4>3. n # 0 => longer[n - 1] = f[n - 1]
          BY <3>2
        <4> QED
          BY <4>1, <4>2, <4>3, TreesBase
      <3> QED
        BY <3>1, <3>2
    <2>4. IsTrees(longer, m)
      BY <2>3 DEF IsTrees
    <2> QED
      BY <1>1, <2>4
  <1>2. Bad \in SUBSET Nat
    BY LimitsArePositive
  <1>3. Bad = {}
    BY <1>1, <1>2, LeastNumber
  <1> QED
    BY <1>3, LimitsArePositive

\* What ValueTreeUpTo is at each height.
LEMMA TreesEquation ==
  \A n \in 0 .. MaxHeight : ValueTreeUpTo[n] = TreesStep(n, ValueTreeUpTo[n - 1])
  <1>1. IsTrees(ValueTreeUpTo, MaxHeight)
    BY TreesExists DEF IsTrees, ValueTreeUpTo, TreesStep
  <1> QED
    BY <1>1 DEF IsTrees

\* What a value of each height looks like.
LEMMA TreeForms ==
  ASSUME NEW n \in 0 .. MaxHeight, NEW v \in ValueTreeUpTo[n]
  PROVE  \/ v.kind = "text" /\ v \in TextValue /\ v.text \in Seq(Fragment)
         \/ v.kind = "scalar"
         \/ v.kind = "array" /\ n - 1 \in 0 .. MaxHeight /\ v.items \in Seq(ValueTreeUpTo[n - 1])
         \/ /\ v.kind = "object" /\ n - 1 \in 0 .. MaxHeight
            /\ v.entries \in Seq([key : Spelled, value : ValueTreeUpTo[n - 1]])
  <1>1. v \in TreesStep(n, ValueTreeUpTo[n - 1])
    BY TreesEquation
  <1> DEFINE entries == Seq([key : Spelled, value : ValueTreeUpTo[n - 1]])
             items == Seq(ValueTreeUpTo[n - 1])
  <1>2. \/ v \in TextValue
        \/ v \in [kind : {"scalar"}, type : {"integer", "number", "boolean", "null"}]
        \/ n # 0 /\ v \in [kind : {"array"}, items : items]
        \/ n # 0 /\ v \in [kind : {"object"}, entries : entries]
    BY <1>1 DEF TreesStep
  <1> HIDE DEF entries, items
  <1>3. n # 0 => n - 1 \in 0 .. MaxHeight
    BY LimitsArePositive
  <1>4. v \in TextValue => v.kind = "text" /\ v.text \in Seq(Fragment)
    BY DEF TextValue
  <1>5. \/ v \in TextValue
        \/ v.kind = "scalar"
        \/ n # 0 /\ v.kind = "array" /\ v.items \in items
        \/ n # 0 /\ v.kind = "object" /\ v.entries \in entries
    BY <1>2
  <1> QED
    BY <1>3, <1>4, <1>5 DEF entries, items

\* What is directly in a value is lower than it.
LEMMA ChildrenAreLower ==
  ASSUME NEW n \in 0 .. MaxHeight, NEW v \in ValueTreeUpTo[n], NEW c \in Children(v)
  PROVE  n - 1 \in 0 .. MaxHeight /\ c \in ValueTreeUpTo[n - 1]
  <1>1. CASE v.kind = "array"
    <2>1. n - 1 \in 0 .. MaxHeight /\ v.items \in Seq(ValueTreeUpTo[n - 1])
      BY <1>1, TreeForms
    <2>2. c \in ToSet(v.items)
      BY <1>1 DEF Children
    <2> QED
      BY <2>1, <2>2 DEF ToSet
  <1>2. CASE v.kind = "object"
    <2> DEFINE E == [key : Spelled, value : ValueTreeUpTo[n - 1]]
    <2>1. n - 1 \in 0 .. MaxHeight /\ v.entries \in Seq(E)
      BY <1>2, TreeForms
    <2>2. PICK e \in ToSet(v.entries) : c = e.value
      BY <1>2 DEF Children
    <2>3. \A x \in E : x.value \in ValueTreeUpTo[n - 1]
      OBVIOUS
    <2> HIDE DEF E
    <2>4. e \in E
      BY <2>1 DEF ToSet
    <2> QED
      BY <2>1, <2>2, <2>3, <2>4
  <1>3. v.kind \in {"array", "object"}
    BY DEF Children
  <1> QED
    BY <1>1, <1>2, <1>3

\* Its site is one of the height below.
LEMMA ChildSites ==
  ASSUME NEW n \in 0 .. MaxHeight, NEW site \in ValueSite(n), NEW c \in Children(site.tree)
  PROVE  n - 1 \in 0 .. MaxHeight /\ At(c, site.depth + 1) \in ValueSite(n - 1)
  <1>1. site.tree \in ValueTreeUpTo[n] /\ site.depth \in Nat
    BY DEF ValueSite
  <1>2. n - 1 \in 0 .. MaxHeight /\ c \in ValueTreeUpTo[n - 1]
    BY <1>1, ChildrenAreLower
  <1> QED
    BY <1>1, <1>2 DEF ValueSite, At

\* Nothing is in a value of height 0.
LEMMA NoChildren == \A site \in ValueSite(0) : Children(site.tree) = {}
  <1>1. 0 \in 0 .. MaxHeight /\ 0 - 1 \notin 0 .. MaxHeight
    BY LimitsArePositive
  <1> QED
    BY <1>1, ChildSites

\* The sites that the walk reaches.
ReachedStep(n, prev) ==
  [site \in ValueSite(n) |->
     {site} \cup IF Enter(site.depth)
                 THEN UNION {prev[At(v, site.depth + 1)] : v \in Children(site.tree)}
                 ELSE {}]

IsReached(f, m) == f = [n \in 0 .. m |-> ReachedStep(n, f[n - 1])]

\* There is nothing below a site of height 0.
LEMMA ReachedBase == \A p, q : ReachedStep(0, p) = ReachedStep(0, q)
  <1>1. \A p : ReachedStep(0, p) = [site \in ValueSite(0) |-> {site}]
    BY NoChildren DEF ReachedStep
  <1> QED
    BY <1>1

\* The recursive definition of ReachedUpTo has a solution.
LEMMA ReachedExists == \E f : IsReached(f, MaxHeight)
  <1> DEFINE Bad == {m \in 0 .. MaxHeight : ~ \E f : IsReached(f, m)}
  <1>1. ASSUME NEW m \in Bad, \A k \in Bad : m <= k
        PROVE  FALSE
    <2>1. m # 0
      <3>1. IsReached([n \in 0 .. 0 |-> ReachedStep(0, 0)], 0)
        BY ReachedBase DEF IsReached
      <3> QED
        BY <1>1, <3>1
    <2>2. PICK f : IsReached(f, m - 1)
      <3>1. m - 1 \in 0 .. MaxHeight /\ ~ (m <= m - 1)
        BY <2>1, LimitsArePositive
      <3> QED
        BY <1>1, <3>1
    <2> DEFINE longer == [n \in 0 .. m |-> IF n = m THEN ReachedStep(m, f[m - 1]) ELSE f[n]]
    <2>3. ASSUME NEW n \in 0 .. m
          PROVE  longer[n] = ReachedStep(n, longer[n - 1])
      <3>1. CASE n = m
        BY <2>1, <3>1
      <3>2. CASE n # m
        <4>1. n \in 0 .. m - 1 /\ longer[n] = f[n]
          BY <3>2
        <4>2. f[n] = ReachedStep(n, f[n - 1])
          BY <2>2, <4>1 DEF IsReached
        <4>3. n # 0 => longer[n - 1] = f[n - 1]
          BY <3>2
        <4> QED
          BY <4>1, <4>2, <4>3, ReachedBase
      <3> QED
        BY <3>1, <3>2
    <2>4. IsReached(longer, m)
      BY <2>3 DEF IsReached
    <2> QED
      BY <1>1, <2>4
  <1>2. Bad \in SUBSET Nat
    BY LimitsArePositive
  <1>3. Bad = {}
    BY <1>1, <1>2, LeastNumber
  <1> QED
    BY <1>3, LimitsArePositive

\* What ReachedUpTo is at each height.
LEMMA ReachedEquation ==
  \A n \in 0 .. MaxHeight : ReachedUpTo[n] = ReachedStep(n, ReachedUpTo[n - 1])
  <1>1. IsReached(ReachedUpTo, MaxHeight)
    BY ReachedExists DEF IsReached, ReachedUpTo, ReachedStep
  <1> QED
    BY <1>1 DEF IsReached

\* All sites of a value.
SitesStep(n, prev) ==
  [site \in ValueSite(n) |->
     {site} \cup UNION {prev[At(v, site.depth + 1)] : v \in Children(site.tree)}]

IsSites(f, m) == f = [n \in 0 .. m |-> SitesStep(n, f[n - 1])]

\* There is nothing below a site of height 0.
LEMMA SitesBase == \A p, q : SitesStep(0, p) = SitesStep(0, q)
  <1>1. \A p : SitesStep(0, p) = [site \in ValueSite(0) |-> {site}]
    BY NoChildren DEF SitesStep
  <1> QED
    BY <1>1

\* The recursive definition of ValueSitesUpTo has a solution.
LEMMA SitesExists == \E f : IsSites(f, MaxHeight)
  <1> DEFINE Bad == {m \in 0 .. MaxHeight : ~ \E f : IsSites(f, m)}
  <1>1. ASSUME NEW m \in Bad, \A k \in Bad : m <= k
        PROVE  FALSE
    <2>1. m # 0
      <3>1. IsSites([n \in 0 .. 0 |-> SitesStep(0, 0)], 0)
        BY SitesBase DEF IsSites
      <3> QED
        BY <1>1, <3>1
    <2>2. PICK f : IsSites(f, m - 1)
      <3>1. m - 1 \in 0 .. MaxHeight /\ ~ (m <= m - 1)
        BY <2>1, LimitsArePositive
      <3> QED
        BY <1>1, <3>1
    <2> DEFINE longer == [n \in 0 .. m |-> IF n = m THEN SitesStep(m, f[m - 1]) ELSE f[n]]
    <2>3. ASSUME NEW n \in 0 .. m
          PROVE  longer[n] = SitesStep(n, longer[n - 1])
      <3>1. CASE n = m
        BY <2>1, <3>1
      <3>2. CASE n # m
        <4>1. n \in 0 .. m - 1 /\ longer[n] = f[n]
          BY <3>2
        <4>2. f[n] = SitesStep(n, f[n - 1])
          BY <2>2, <4>1 DEF IsSites
        <4>3. n # 0 => longer[n - 1] = f[n - 1]
          BY <3>2
        <4> QED
          BY <4>1, <4>2, <4>3, SitesBase
      <3> QED
        BY <3>1, <3>2
    <2>4. IsSites(longer, m)
      BY <2>3 DEF IsSites
    <2> QED
      BY <1>1, <2>4
  <1>2. Bad \in SUBSET Nat
    BY LimitsArePositive
  <1>3. Bad = {}
    BY <1>1, <1>2, LeastNumber
  <1> QED
    BY <1>3, LimitsArePositive

\* What ValueSitesUpTo is at each height.
LEMMA SitesEquation ==
  \A n \in 0 .. MaxHeight : ValueSitesUpTo[n] = SitesStep(n, ValueSitesUpTo[n - 1])
  <1>1. IsSites(ValueSitesUpTo, MaxHeight)
    BY SitesExists DEF IsSites, ValueSitesUpTo, SitesStep
  <1> QED
    BY <1>1 DEF IsSites

-----------------------------------------------------------------------------
(***************************************************************************)
(* The recursive definitions on object assertions.                         *)
(***************************************************************************)
AssertionTreesStep(n, prev) ==
  [exact : BOOLEAN, fields : Seq(FieldTree(IF n = 0 THEN {<<>>} ELSE AtMostOne(prev)))]

IsAssertionTrees(f, m) == f = [n \in 0 .. m |-> AssertionTreesStep(n, f[n - 1])]

\* No assertions are nested at height 0.
LEMMA AssertionTreesBase == \A p, q : AssertionTreesStep(0, p) = AssertionTreesStep(0, q)
  BY DEF AssertionTreesStep

\* The recursive definition of AssertionTreeUpTo has a solution.
LEMMA AssertionTreesExists == \E f : IsAssertionTrees(f, MaxHeight)
  <1> DEFINE Bad == {m \in 0 .. MaxHeight : ~ \E f : IsAssertionTrees(f, m)}
  <1>1. ASSUME NEW m \in Bad, \A k \in Bad : m <= k
        PROVE  FALSE
    <2>1. m # 0
      <3>1. IsAssertionTrees([n \in 0 .. 0 |-> AssertionTreesStep(0, 0)], 0)
        BY AssertionTreesBase DEF IsAssertionTrees
      <3> QED
        BY <1>1, <3>1
    <2>2. PICK f : IsAssertionTrees(f, m - 1)
      <3>1. m - 1 \in 0 .. MaxHeight /\ ~ (m <= m - 1)
        BY <2>1, LimitsArePositive
      <3> QED
        BY <1>1, <3>1
    <2> DEFINE longer == [n \in 0 .. m |-> IF n = m THEN AssertionTreesStep(m, f[m - 1]) ELSE f[n]]
    <2>3. ASSUME NEW n \in 0 .. m
          PROVE  longer[n] = AssertionTreesStep(n, longer[n - 1])
      <3>1. CASE n = m
        BY <2>1, <3>1
      <3>2. CASE n # m
        <4>1. n \in 0 .. m - 1 /\ longer[n] = f[n]
          BY <3>2
        <4>2. f[n] = AssertionTreesStep(n, f[n - 1])
          BY <2>2, <4>1 DEF IsAssertionTrees
        <4>3. n # 0 => longer[n - 1] = f[n - 1]
          BY <3>2
        <4> QED
          BY <4>1, <4>2, <4>3, AssertionTreesBase
      <3> QED
        BY <3>1, <3>2
    <2>4. IsAssertionTrees(longer, m)
      BY <2>3 DEF IsAssertionTrees
    <2> QED
      BY <1>1, <2>4
  <1>2. Bad \in SUBSET Nat
    BY LimitsArePositive
  <1>3. Bad = {}
    BY <1>1, <1>2, LeastNumber
  <1> QED
    BY <1>3, LimitsArePositive

\* What AssertionTreeUpTo is at each height.
LEMMA AssertionTreesEquation ==
  \A n \in 0 .. MaxHeight : AssertionTreeUpTo[n] = AssertionTreesStep(n, AssertionTreeUpTo[n - 1])
  <1>1. IsAssertionTrees(AssertionTreeUpTo, MaxHeight)
    BY AssertionTreesExists DEF IsAssertionTrees, AssertionTreeUpTo, AssertionTreesStep
  <1> QED
    BY <1>1 DEF IsAssertionTrees

\* What an assertion of each height looks like.
LEMMA AssertionForms ==
  ASSUME NEW n \in 0 .. MaxHeight, NEW a \in AssertionTreeUpTo[n]
  PROVE  /\ DOMAIN a.fields = 1 .. Len(a.fields) /\ Len(a.fields) \in Nat
         /\ a.fields \in Seq(ToSet(a.fields))
         /\ \A f \in ToSet(a.fields) :
              /\ f.expected \in Seq(ValueTree) /\ f.capture \in Seq(STRING)
              /\ \/ f.nested = <<>>
                 \/ /\ n - 1 \in 0 .. MaxHeight
                    /\ f.nested \in Seq(AssertionTreeUpTo[n - 1])
  <1> DEFINE nested == IF n = 0 THEN {<<>>} ELSE AtMostOne(AssertionTreeUpTo[n - 1])
             F == FieldTree(nested)
  <1>1. a.fields \in Seq(F)
    <2>1. a \in AssertionTreesStep(n, AssertionTreeUpTo[n - 1])
      BY AssertionTreesEquation
    <2>2. a \in [exact : BOOLEAN, fields : Seq(F)]
      BY <2>1 DEF AssertionTreesStep
    <2> HIDE DEF F
    <2> QED
      BY <2>2
  <1>2. ASSUME NEW f \in F
        PROVE  /\ f.expected \in Seq(ValueTree) /\ f.capture \in Seq(STRING)
               /\ f.nested \in nested
    <2> HIDE DEF nested
    <2>1. f \in FieldTree(nested)
      OBVIOUS
    <2>2. f.expected \in AtMostOne(ValueTree) /\ f.capture \in AtMostOne(STRING) /\ f.nested \in nested
      BY <2>1 DEF FieldTree
    <2> QED
      BY <2>2 DEF AtMostOne
  <1>3. \A x \in nested : x = <<>> \/ (n # 0 /\ x \in Seq(AssertionTreeUpTo[n - 1]))
    BY DEF AtMostOne
  <1>4. n # 0 => n - 1 \in 0 .. MaxHeight
    BY LimitsArePositive
  <1> HIDE DEF F, nested
  <1>5. DOMAIN a.fields = 1 .. Len(a.fields) /\ Len(a.fields) \in Nat
    BY <1>1
  <1>6. ToSet(a.fields) \subseteq F
    BY <1>1 DEF ToSet
  <1>7. a.fields \in Seq(ToSet(a.fields))
    <2>1. \A i \in 1 .. Len(a.fields) : a.fields[i] \in ToSet(a.fields)
      BY <1>5 DEF ToSet
    <2> QED
      BY <1>1, <1>5, <2>1, IsASeq
  <1> QED
    BY <1>2, <1>3, <1>4, <1>5, <1>6, <1>7

\* The assertions nested in an assertion are lower than it.
LEMMA NestedAreLower ==
  ASSUME NEW n \in 0 .. MaxHeight, NEW site \in AssertionSite(n),
         NEW f \in ToSet(site.tree.fields), NEW a \in ToSet(f.nested)
  PROVE  n - 1 \in 0 .. MaxHeight /\ At(a, site.depth + 1) \in AssertionSite(n - 1)
  <1>1. site.tree \in AssertionTreeUpTo[n] /\ site.depth \in Nat
    BY DEF AssertionSite
  <1>2. f.nested # <<>>
    BY DEF ToSet
  <1>3. n - 1 \in 0 .. MaxHeight /\ f.nested \in Seq(AssertionTreeUpTo[n - 1])
    BY <1>1, <1>2, AssertionForms
  <1>4. a \in AssertionTreeUpTo[n - 1]
    BY <1>3 DEF ToSet
  <1> QED
    BY <1>1, <1>3, <1>4 DEF AssertionSite, At

\* No assertions are nested in one of height 0.
LEMMA NothingNested ==
  \A site \in AssertionSite(0) : NestedIn(site.tree) = {}
  <1>1. 0 \in 0 .. MaxHeight /\ 0 - 1 \notin 0 .. MaxHeight
    BY LimitsArePositive
  <1> QED
    BY <1>1, NestedAreLower DEF NestedIn

\* The assertions that the walk reaches.
AssertionsReachedStep(n, prev) ==
  [site \in AssertionSite(n) |->
     {site} \cup IF Enter(site.depth)
                 THEN UNION {prev[At(a, site.depth + 1)] : a \in NestedIn(site.tree)}
                 ELSE {}]

IsAssertionsReached(f, m) == f = [n \in 0 .. m |-> AssertionsReachedStep(n, f[n - 1])]

\* There is nothing below a site of height 0.
LEMMA AssertionsReachedBase == \A p, q : AssertionsReachedStep(0, p) = AssertionsReachedStep(0, q)
  <1>1. \A p : AssertionsReachedStep(0, p) = [site \in AssertionSite(0) |-> {site}]
    BY NothingNested DEF AssertionsReachedStep
  <1> QED
    BY <1>1

\* The recursive definition of AssertionsReachedUpTo has a solution.
LEMMA AssertionsReachedExists == \E f : IsAssertionsReached(f, MaxHeight)
  <1> DEFINE Bad == {m \in 0 .. MaxHeight : ~ \E f : IsAssertionsReached(f, m)}
  <1>1. ASSUME NEW m \in Bad, \A k \in Bad : m <= k
        PROVE  FALSE
    <2>1. m # 0
      <3>1. IsAssertionsReached([n \in 0 .. 0 |-> AssertionsReachedStep(0, 0)], 0)
        BY AssertionsReachedBase DEF IsAssertionsReached
      <3> QED
        BY <1>1, <3>1
    <2>2. PICK f : IsAssertionsReached(f, m - 1)
      <3>1. m - 1 \in 0 .. MaxHeight /\ ~ (m <= m - 1)
        BY <2>1, LimitsArePositive
      <3> QED
        BY <1>1, <3>1
    <2> DEFINE longer == [n \in 0 .. m |-> IF n = m THEN AssertionsReachedStep(m, f[m - 1]) ELSE f[n]]
    <2>3. ASSUME NEW n \in 0 .. m
          PROVE  longer[n] = AssertionsReachedStep(n, longer[n - 1])
      <3>1. CASE n = m
        BY <2>1, <3>1
      <3>2. CASE n # m
        <4>1. n \in 0 .. m - 1 /\ longer[n] = f[n]
          BY <3>2
        <4>2. f[n] = AssertionsReachedStep(n, f[n - 1])
          BY <2>2, <4>1 DEF IsAssertionsReached
        <4>3. n # 0 => longer[n - 1] = f[n - 1]
          BY <3>2
        <4> QED
          BY <4>1, <4>2, <4>3, AssertionsReachedBase
      <3> QED
        BY <3>1, <3>2
    <2>4. IsAssertionsReached(longer, m)
      BY <2>3 DEF IsAssertionsReached
    <2> QED
      BY <1>1, <2>4
  <1>2. Bad \in SUBSET Nat
    BY LimitsArePositive
  <1>3. Bad = {}
    BY <1>1, <1>2, LeastNumber
  <1> QED
    BY <1>3, LimitsArePositive

\* What AssertionsReachedUpTo is at each height.
LEMMA AssertionsReachedEquation ==
  \A n \in 0 .. MaxHeight : AssertionsReachedUpTo[n] = AssertionsReachedStep(n, AssertionsReachedUpTo[n - 1])
  <1>1. IsAssertionsReached(AssertionsReachedUpTo, MaxHeight)
    BY AssertionsReachedExists DEF IsAssertionsReached, AssertionsReachedUpTo, AssertionsReachedStep
  <1> QED
    BY <1>1 DEF IsAssertionsReached

\* All assertions nested in one.
AssertionSitesStep(n, prev) ==
  [site \in AssertionSite(n) |->
     {site} \cup UNION {prev[At(a, site.depth + 1)] : a \in NestedIn(site.tree)}]

IsAssertionSites(f, m) == f = [n \in 0 .. m |-> AssertionSitesStep(n, f[n - 1])]

\* There is nothing below a site of height 0.
LEMMA AssertionSitesBase == \A p, q : AssertionSitesStep(0, p) = AssertionSitesStep(0, q)
  <1>1. \A p : AssertionSitesStep(0, p) = [site \in AssertionSite(0) |-> {site}]
    BY NothingNested DEF AssertionSitesStep
  <1> QED
    BY <1>1

\* The recursive definition of AssertionSitesUpTo has a solution.
LEMMA AssertionSitesExists == \E f : IsAssertionSites(f, MaxHeight)
  <1> DEFINE Bad == {m \in 0 .. MaxHeight : ~ \E f : IsAssertionSites(f, m)}
  <1>1. ASSUME NEW m \in Bad, \A k \in Bad : m <= k
        PROVE  FALSE
    <2>1. m # 0
      <3>1. IsAssertionSites([n \in 0 .. 0 |-> AssertionSitesStep(0, 0)], 0)
        BY AssertionSitesBase DEF IsAssertionSites
      <3> QED
        BY <1>1, <3>1
    <2>2. PICK f : IsAssertionSites(f, m - 1)
      <3>1. m - 1 \in 0 .. MaxHeight /\ ~ (m <= m - 1)
        BY <2>1, LimitsArePositive
      <3> QED
        BY <1>1, <3>1
    <2> DEFINE longer == [n \in 0 .. m |-> IF n = m THEN AssertionSitesStep(m, f[m - 1]) ELSE f[n]]
    <2>3. ASSUME NEW n \in 0 .. m
          PROVE  longer[n] = AssertionSitesStep(n, longer[n - 1])
      <3>1. CASE n = m
        BY <2>1, <3>1
      <3>2. CASE n # m
        <4>1. n \in 0 .. m - 1 /\ longer[n] = f[n]
          BY <3>2
        <4>2. f[n] = AssertionSitesStep(n, f[n - 1])
          BY <2>2, <4>1 DEF IsAssertionSites
        <4>3. n # 0 => longer[n - 1] = f[n - 1]
          BY <3>2
        <4> QED
          BY <4>1, <4>2, <4>3, AssertionSitesBase
      <3> QED
        BY <3>1, <3>2
    <2>4. IsAssertionSites(longer, m)
      BY <2>3 DEF IsAssertionSites
    <2> QED
      BY <1>1, <2>4
  <1>2. Bad \in SUBSET Nat
    BY LimitsArePositive
  <1>3. Bad = {}
    BY <1>1, <1>2, LeastNumber
  <1> QED
    BY <1>3, LimitsArePositive

\* What AssertionSitesUpTo is at each height.
LEMMA AssertionSitesEquation ==
  \A n \in 0 .. MaxHeight : AssertionSitesUpTo[n] = AssertionSitesStep(n, AssertionSitesUpTo[n - 1])
  <1>1. IsAssertionSites(AssertionSitesUpTo, MaxHeight)
    BY AssertionSitesExists DEF IsAssertionSites, AssertionSitesUpTo, AssertionSitesStep
  <1> QED
    BY <1>1 DEF IsAssertionSites

-----------------------------------------------------------------------------
(***************************************************************************)
(* Sequences.                                                              *)
(***************************************************************************)
IsFlat(f, seqs, m) ==
  f = [i \in 1 .. m |-> IF i = 1 THEN seqs[i] ELSE f[i - 1] \o seqs[i]]

\* The loop of FlattenSeq has a solution.
LEMMA FlatExists ==
  ASSUME NEW seqs, NEW length \in Nat
  PROVE  \E f : IsFlat(f, seqs, length)
  <1> DEFINE Bad == {m \in 0 .. length : ~ \E f : IsFlat(f, seqs, m)}
  <1>1. ASSUME NEW m \in Bad, \A k \in Bad : m <= k
        PROVE  FALSE
    <2>1. m # 0
      <3>1. IsFlat([i \in 1 .. 0 |-> <<>>], seqs, 0)
        BY DEF IsFlat
      <3> QED
        BY <1>1, <3>1
    <2>2. PICK f : IsFlat(f, seqs, m - 1)
      <3>1. m - 1 \in 0 .. length /\ ~ (m <= m - 1)
        BY <2>1
      <3> QED
        BY <1>1, <3>1
    <2> DEFINE last == IF m = 1 THEN seqs[m] ELSE f[m - 1] \o seqs[m]
               longer == [n \in 1 .. m |-> IF n = m THEN last ELSE f[n]]
    <2>3. ASSUME NEW n \in 1 .. m
          PROVE  longer[n] = IF n = 1 THEN seqs[n] ELSE longer[n - 1] \o seqs[n]
      <3>1. CASE n = m
        BY <2>1, <3>1
      <3>2. CASE n # m
        <4>1. n \in 1 .. m - 1 /\ longer[n] = f[n]
          BY <3>2
        <4>2. f[n] = IF n = 1 THEN seqs[n] ELSE f[n - 1] \o seqs[n]
          BY <2>2, <4>1 DEF IsFlat
        <4>3. n # 1 => longer[n - 1] = f[n - 1]
          BY <3>2
        <4> QED
          BY <4>1, <4>2, <4>3
      <3> QED
        BY <3>1, <3>2
    <2> HIDE DEF last
    <2>4. IsFlat(longer, seqs, m)
      BY <2>3 DEF IsFlat
    <2> QED
      BY <1>1, <2>4
  <1>2. Bad \in SUBSET Nat
    OBVIOUS
  <1>3. Bad = {}
    BY <1>1, <1>2, LeastNumber
  <1> QED
    BY <1>3

FlatUpTo(f, seqs, S, n) ==
  f[n] \in Seq(S) /\ ToSet(f[n]) = UNION {ToSet(seqs[i]) : i \in 1 .. n}

\* The elements of a concatenation.
LEMMA Concatenated ==
  ASSUME NEW S, NEW s \in Seq(S), NEW t \in Seq(S)
  PROVE  s \o t \in Seq(S) /\ ToSet(s \o t) = ToSet(s) \cup ToSet(t)
  <1>1. s \o t \in Seq(S) /\ Len(s \o t) = Len(s) + Len(t)
    BY ConcatProperties
  <1>2. \A i \in 1 .. Len(s) + Len(t) :
           (s \o t)[i] = IF i <= Len(s) THEN s[i] ELSE t[i - Len(s)]
    BY ConcatProperties
  <1>3. /\ DOMAIN s = 1 .. Len(s) /\ DOMAIN t = 1 .. Len(t)
        /\ DOMAIN (s \o t) = 1 .. Len(s) + Len(t)
        /\ Len(s) \in Nat /\ Len(t) \in Nat
    BY <1>1, LenProperties
  <1>4. ASSUME NEW x \in ToSet(s \o t)
        PROVE  x \in ToSet(s) \cup ToSet(t)
    <2>1. PICK i \in 1 .. Len(s) + Len(t) : x = (s \o t)[i]
      BY <1>3 DEF ToSet
    <2>2. CASE i <= Len(s)
      BY <1>2, <1>3, <2>1, <2>2 DEF ToSet
    <2>3. CASE ~ (i <= Len(s))
      <3>1. i - Len(s) \in DOMAIN t /\ x = t[i - Len(s)]
        BY <1>2, <1>3, <2>1, <2>3
      <3> QED
        BY <3>1 DEF ToSet
    <2> QED
      BY <2>2, <2>3
  <1>5. ASSUME NEW x \in ToSet(s)
        PROVE  x \in ToSet(s \o t)
    <2>1. PICK i \in 1 .. Len(s) : x = s[i]
      BY <1>3 DEF ToSet
    <2>2. i \in DOMAIN (s \o t) /\ (s \o t)[i] = x
      BY <1>2, <1>3, <2>1
    <2> QED
      BY <2>2 DEF ToSet
  <1>6. ASSUME NEW x \in ToSet(t)
        PROVE  x \in ToSet(s \o t)
    <2>1. PICK i \in 1 .. Len(t) : x = t[i]
      BY <1>3 DEF ToSet
    <2>2. i + Len(s) \in DOMAIN (s \o t) /\ (s \o t)[i + Len(s)] = x
      BY <1>2, <1>3, <2>1
    <2> QED
      BY <2>2 DEF ToSet
  <1> QED
    BY <1>1, <1>4, <1>5, <1>6

\* The elements of a flattened sequence are those of its parts.
LEMMA Flattened ==
  ASSUME NEW S, NEW seqs \in Seq(Seq(S))
  PROVE  /\ FlattenSeq(seqs) \in Seq(S)
         /\ ToSet(FlattenSeq(seqs)) = UNION {ToSet(seqs[i]) : i \in 1 .. Len(seqs)}
  <1> DEFINE k == Len(seqs)
             f == CHOOSE g : IsFlat(g, seqs, k)
  <1>1. k \in Nat /\ DOMAIN seqs = 1 .. k /\ \A i \in 1 .. k : seqs[i] \in Seq(S)
    OBVIOUS
  <1>2. CASE k = 0
    <2>1. seqs = <<>>
      BY <1>2
    <2>2. FlattenSeq(seqs) = <<>>
      BY <1>2, <2>1 DEF FlattenSeq
    <2> QED
      BY <1>2, <2>2 DEF ToSet
  <1>3. CASE k # 0
    <2>1. IsFlat(f, seqs, k)
      BY <1>1, FlatExists
    <2>2. FlattenSeq(seqs) = f[k]
      BY <1>3 DEF FlattenSeq, IsFlat
    <2> HIDE DEF f, k
    <2> DEFINE Bad == {n \in 1 .. k : ~ FlatUpTo(f, seqs, S, n)}
    <2>3. ASSUME NEW n \in Bad, \A m \in Bad : n <= m
          PROVE  FALSE
      <3>1. f[n] = IF n = 1 THEN seqs[n] ELSE f[n - 1] \o seqs[n]
        BY <2>1 DEF IsFlat
      <3>2. CASE n = 1
        <4>1. f[n] \in Seq(S) /\ f[n] = seqs[1]
          BY <1>1, <3>1, <3>2
        <4>2. 1 .. n = {1}
          BY <3>2
        <4>3. ToSet(f[n]) = UNION {ToSet(seqs[i]) : i \in 1 .. n}
          BY <4>1, <4>2
        <4> QED
          BY <4>1, <4>3 DEF FlatUpTo
      <3>3. CASE n # 1
        <4>1. n - 1 \in 1 .. k /\ ~ (n <= n - 1)
          BY <1>1, <3>3
        <4>2. FlatUpTo(f, seqs, S, n - 1)
          BY <2>3, <4>1
        <4>3. f[n] = f[n - 1] \o seqs[n] /\ f[n - 1] \in Seq(S) /\ seqs[n] \in Seq(S)
          BY <1>1, <3>1, <3>3, <4>2 DEF FlatUpTo
        <4>4. f[n] \in Seq(S) /\ ToSet(f[n]) = ToSet(f[n - 1]) \cup ToSet(seqs[n])
          BY <4>3, Concatenated
        <4>5. 1 .. n = (1 .. n - 1) \cup {n}
          BY <1>1, <3>3
        <4>6. UNION {ToSet(seqs[i]) : i \in 1 .. n}
                = (UNION {ToSet(seqs[i]) : i \in 1 .. n - 1}) \cup ToSet(seqs[n])
          BY <4>5
        <4> QED
          BY <4>2, <4>4, <4>6 DEF FlatUpTo
      <3> QED
        BY <3>2, <3>3
    <2>4. Bad \in SUBSET Nat
      BY <1>1
    <2>5. Bad = {}
      BY <2>3, <2>4, LeastNumber
    <2>6. FlatUpTo(f, seqs, S, k)
      BY <1>1, <1>3, <2>5
    <2> QED
      BY <2>2, <2>6 DEF FlatUpTo, k
  <1> QED
    BY <1>2, <1>3

\* The entries of the sections of one kind.
LEMMA EntriesAreThose ==
  ASSUME NEW T, NEW sections \in Seq(T), NEW kind, NEW S,
         \A s \in ToSet(sections) : s.of = kind => s.entries \in Seq(S)
  PROVE  /\ EntriesOf(sections, kind) \in Seq(S)
         /\ \A e : e \in ToSet(EntriesOf(sections, kind))
                     <=> \E s \in ToSet(sections) : s.of = kind /\ e \in ToSet(s.entries)
  <1> DEFINE seqs == [i \in DOMAIN sections |->
                        IF sections[i].of = kind THEN sections[i].entries ELSE <<>>]
  <1>1. DOMAIN sections = 1 .. Len(sections) /\ Len(sections) \in Nat
    OBVIOUS
  <1>2. \A i \in 1 .. Len(sections) : seqs[i] \in Seq(S)
    BY <1>1, EmptySeq DEF ToSet
  <1>3. seqs \in [1 .. Len(sections) -> Seq(S)]
    BY <1>1, <1>2
  <1>4. seqs \in Seq(Seq(S)) /\ Len(seqs) = Len(sections)
    <2> HIDE DEF seqs
    <2>1. seqs \in Seq(Seq(S))
      BY <1>1, <1>3, SeqDef
    <2> QED
      BY <1>1, <1>3, <2>1, LenProperties
  <1>5. EntriesOf(sections, kind) = FlattenSeq(seqs)
    BY DEF EntriesOf
  <1>6. \A i \in 1 .. Len(sections) :
           /\ sections[i].of = kind => seqs[i] = sections[i].entries
           /\ sections[i].of # kind => ToSet(seqs[i]) = {}
    BY <1>1 DEF ToSet
  <1> HIDE DEF seqs
  <1>7. /\ FlattenSeq(seqs) \in Seq(S)
        /\ ToSet(FlattenSeq(seqs)) = UNION {ToSet(seqs[i]) : i \in 1 .. Len(sections)}
    BY <1>4, Flattened
  <1>8. \A e : e \in ToSet(FlattenSeq(seqs)) <=> \E i \in 1 .. Len(sections) : e \in ToSet(seqs[i])
    BY <1>7
  <1>9. \A e : e \in ToSet(FlattenSeq(seqs))
                 <=> \E i \in 1 .. Len(sections) :
                        sections[i].of = kind /\ e \in ToSet(sections[i].entries)
    BY <1>6, <1>8
  <1>10. ToSet(sections) = {sections[i] : i \in 1 .. Len(sections)}
    BY <1>1 DEF ToSet
  <1> QED
    BY <1>5, <1>7, <1>9, <1>10

IsMap(f, entries, m) ==
  f = [n \in 0 .. m |-> IF n = 0 THEN <<>> ELSE Insert(f[n - 1], entries[n])]

\* The loop that builds a domain map has a solution.
LEMMA MapExists ==
  ASSUME NEW entries, NEW length \in Nat
  PROVE  \E f : IsMap(f, entries, length)
  <1> DEFINE Bad == {m \in 0 .. length : ~ \E f : IsMap(f, entries, m)}
  <1>1. ASSUME NEW m \in Bad, \A k \in Bad : m <= k
        PROVE  FALSE
    <2>1. m # 0
      <3>1. IsMap([n \in 0 .. 0 |-> <<>>], entries, 0)
        BY DEF IsMap
      <3> QED
        BY <1>1, <3>1
    <2>2. PICK f : IsMap(f, entries, m - 1)
      <3>1. m - 1 \in 0 .. length /\ ~ (m <= m - 1)
        BY <2>1
      <3> QED
        BY <1>1, <3>1
    <2> DEFINE last == Insert(f[m - 1], entries[m])
               longer == [n \in 0 .. m |-> IF n = m THEN last ELSE f[n]]
    <2>3. ASSUME NEW n \in 0 .. m
          PROVE  longer[n] = IF n = 0 THEN <<>> ELSE Insert(longer[n - 1], entries[n])
      <3>1. CASE n = m
        BY <2>1, <3>1
      <3>2. CASE n # m
        <4>1. n \in 0 .. m - 1 /\ longer[n] = f[n]
          BY <3>2
        <4>2. f[n] = IF n = 0 THEN <<>> ELSE Insert(f[n - 1], entries[n])
          BY <2>2, <4>1 DEF IsMap
        <4>3. n # 0 => longer[n - 1] = f[n - 1]
          BY <3>2
        <4> QED
          BY <4>1, <4>2, <4>3
      <3> QED
        BY <3>1, <3>2
    <2> HIDE DEF last
    <2>4. IsMap(longer, entries, m)
      BY <2>3 DEF IsMap
    <2> QED
      BY <1>1, <2>4
  <1>2. Bad \in SUBSET Nat
    OBVIOUS
  <1>3. Bad = {}
    BY <1>1, <1>2, LeastNumber
  <1> QED
    BY <1>3

\* An insertion keeps to a set that the entry is in.
LEMMA InsertKeeps ==
  ASSUME NEW S, NEW map \in Seq(S), NEW entry \in S
  PROVE  Insert(map, entry) \in Seq(S)
  <1> DEFINE same == {i \in DOMAIN map : map[i].key = entry.key}
             replaced == [i \in DOMAIN map |-> IF i \in same THEN entry ELSE map[i]]
  <1>1. Len(map) \in Nat /\ map \in [1 .. Len(map) -> S] /\ DOMAIN map = 1 .. Len(map)
    BY LenProperties
  <1> HIDE DEF same
  <1>2. replaced \in [1 .. Len(map) -> S]
    BY <1>1
  <1>3. replaced \in Seq(S)
    <2> HIDE DEF replaced
    <2> QED
      BY <1>1, <1>2, SeqDef
  <1>4. Append(map, entry) \in Seq(S)
    BY AppendProperties
  <1> QED
    BY <1>3, <1>4 DEF Insert, same

\* A domain map has only entries of the source.
LEMMA MapOfEntries ==
  ASSUME NEW S, NEW entries \in Seq(S)
  PROVE  /\ AsMap(entries) \in Seq(S)
         /\ \A i \in DOMAIN AsMap(entries) : AsMap(entries)[i] \in ToSet(entries)
  <1> DEFINE k == Len(entries)
             f == CHOOSE g : IsMap(g, entries, k)
             E == ToSet(entries)
  <1>1. k \in Nat /\ DOMAIN entries = 1 .. k
    OBVIOUS
  <1>2. IsMap(f, entries, k)
    BY <1>1, MapExists
  <1>3. AsMap(entries) = f[k]
    BY DEF AsMap, IsMap
  <1>4. \A n \in 1 .. k : entries[n] \in E
    BY <1>1 DEF ToSet
  <1>5. E \subseteq S
    BY DEF ToSet
  <1> HIDE DEF f, k, E
  <1> DEFINE Bad == {n \in 0 .. k : f[n] \notin Seq(E)}
  <1>6. ASSUME NEW n \in Bad, \A m \in Bad : n <= m
        PROVE  FALSE
    <2>1. f[n] = IF n = 0 THEN <<>> ELSE Insert(f[n - 1], entries[n])
      BY <1>2 DEF IsMap
    <2>2. n # 0
      BY <2>1, EmptySeq
    <2>3. n - 1 \in 0 .. k /\ ~ (n <= n - 1) /\ n \in 1 .. k
      BY <1>1, <2>2
    <2>4. f[n - 1] \in Seq(E) /\ entries[n] \in E
      BY <1>4, <1>6, <2>3
    <2>5. Insert(f[n - 1], entries[n]) \in Seq(E)
      BY <2>4, InsertKeeps
    <2> QED
      BY <2>1, <2>2, <2>5
  <1>7. Bad \in SUBSET Nat
    BY <1>1
  <1>8. Bad = {}
    BY <1>6, <1>7, LeastNumber
  <1>9. f[k] \in Seq(E)
    BY <1>1, <1>8
  <1>10. AsMap(entries) \in Seq(E)
    BY <1>3, <1>9
  <1>11. AsMap(entries) \in Seq(S)
    BY <1>5, <1>10, SeqMonotonic
  <1> QED
    BY <1>10, <1>11 DEF E

-----------------------------------------------------------------------------
(***************************************************************************)
(* Texts, names and values: no error is reported exactly if all is clean.  *)
(***************************************************************************)
Readable(text, visible) ==
  WellFormed(text) /\ \A f \in ToSet(text) : f.kind = "placeholder" => f.name \in visible

Clean(site, visible) ==
  SiteIsSound(site) /\ (site.tree.kind = "text" => Readable(site.tree.text, visible))

\* The check of an interpolation.
LEMMA TextIsReadable ==
  ASSUME NEW text, NEW visible
  PROVE  TextErrors(text, visible) = {} <=> Readable(text, visible)
  <1> DEFINE errors == UNION {When(f.name \notin visible, "variable") :
                                f \in {x \in ToSet(text) : x.kind = "placeholder"}}
  <1>1. (\E f \in ToSet(text) : IsMalformed(f)) <=> ~ WellFormed(text)
    BY DEF WellFormed
  <1>2. errors = {} <=> \A f \in ToSet(text) : f.kind = "placeholder" => f.name \in visible
    BY DEF When
  <1>3. TextErrors(text, visible) = IF ~ WellFormed(text) THEN {"interpolation"} ELSE errors
    BY <1>1 DEF TextErrors
  <1> QED
    BY <1>2, <1>3 DEF Readable

\* The checks of a set of names.
LEMMA NamesAreFine ==
  ASSUME NEW names, NEW k \in Nat, DOMAIN names = 1 .. k
  PROVE  NameErrors(names) = {} <=> AreNames(names)
  <1>1. Duplicated(names) <=> ~ IsInjective(names)
    BY DEF Duplicated, IsInjective
  <1>2. NameErrors(names) = {} <=> /\ ~ \E n \in ToSet(names) : n[1] = ""
                                   /\ ~ Duplicated(names)
    BY DEF NameErrors, When
  <1> QED
    BY <1>1, <1>2 DEF AreNames

\* The keys of a sequence of entries.
LEMMA KeysAreFine ==
  ASSUME NEW S, NEW entries \in Seq(S)
  PROVE  NameErrors(Keys(entries)) = {} <=> AreNames(Keys(entries))
  <1>1. Len(entries) \in Nat /\ DOMAIN Keys(entries) = 1 .. Len(entries)
    BY DEF Keys
  <1> QED
    BY <1>1, NamesAreFine

\* Header names, whatever their case.
LEMMA HeadersAreFine ==
  ASSUME NEW S, NEW entries \in Seq(S)
  PROVE  HeaderNameErrors(Keys(entries)) = {} <=> AreHeaders(entries)
  <1> DEFINE k == Len(entries)
             lower == [i \in 1 .. k |-> <<entries[i].key[1], "lower">>]
             any == [i \in 1 .. k |-> <<entries[i].key[1], "any">>]
  <1>1. k \in Nat /\ DOMAIN entries = 1 .. k
    OBVIOUS
  <1>2. HeaderNameErrors(Keys(entries)) = NameErrors(lower)
    BY <1>1 DEF HeaderNameErrors, Keys, Lowercase
  <1>3. AreHeaders(entries) <=> AreNames(any)
    BY <1>1 DEF AreHeaders
  <1>4. \A i, j \in 1 .. k : lower[i] = lower[j] <=> any[i] = any[j]
    OBVIOUS
  <1>5. \A i \in 1 .. k : lower[i][1] = any[i][1]
    OBVIOUS
  <1>6. DOMAIN lower = 1 .. k /\ DOMAIN any = 1 .. k
    OBVIOUS
  <1> HIDE DEF lower, any, k
  <1>7. IsInjective(lower) <=> IsInjective(any)
    BY <1>4, <1>6 DEF IsInjective
  <1>8. (\A n \in ToSet(lower) : n[1] # "") <=> (\A n \in ToSet(any) : n[1] # "")
    <2>1. (\A n \in ToSet(lower) : n[1] # "") <=> \A i \in 1 .. k : lower[i][1] # ""
      BY <1>6 DEF ToSet
    <2>2. (\A n \in ToSet(any) : n[1] # "") <=> \A i \in 1 .. k : any[i][1] # ""
      BY <1>6 DEF ToSet
    <2> QED
      BY <1>5, <2>1, <2>2
  <1>9. AreNames(lower) <=> AreNames(any)
    BY <1>7, <1>8 DEF AreNames
  <1> QED
    BY <1>1, <1>2, <1>3, <1>6, <1>9, NamesAreFine

\* Sections of the same kind.
LEMMA SectionsAreSingle ==
  ASSUME NEW S, NEW sections \in Seq(S)
  PROVE  Repeated(sections) = {} <=> Singly(sections)
  <1>1. Len(sections) \in Nat /\ DOMAIN Kinds(sections) = 1 .. Len(sections)
    BY DEF Kinds
  <1>2. Duplicated(Kinds(sections)) <=> ~ IsInjective(Kinds(sections))
    BY <1>1 DEF Duplicated, IsInjective
  <1> QED
    BY <1>2 DEF Repeated, Singly, When

\* What is reported of a site by itself.
LEMMA SiteIsClean ==
  ASSUME NEW n \in 0 .. MaxHeight, NEW site \in ValueSite(n), NEW visible
  PROVE  ErrorsAt(site, visible) = {} <=> Clean(site, visible)
  <1>1. site.tree \in ValueTreeUpTo[n]
    BY DEF ValueSite
  <1>2. CASE site.tree.kind = "text"
    <2>1. ErrorsAt(site, visible) = TextErrors(site.tree.text, visible)
      BY <1>2 DEF ErrorsAt
    <2> QED
      BY <1>2, <2>1, TextIsReadable DEF Clean, SiteIsSound
  <1>3. CASE site.tree.kind = "scalar"
    BY <1>3 DEF ErrorsAt, Clean, SiteIsSound
  <1>4. CASE site.tree.kind = "array"
    BY <1>4 DEF ErrorsAt, Clean, SiteIsSound, Enter
  <1>5. CASE site.tree.kind = "object"
    <2> DEFINE E == [key : Spelled, value : ValueTreeUpTo[n - 1]]
    <2>1. site.tree.entries \in Seq(E)
      BY <1>1, <1>5, TreeForms
    <2> HIDE DEF E
    <2>2. NameErrors(Keys(site.tree.entries)) = {} <=> AreNames(Keys(site.tree.entries))
      BY <2>1, KeysAreFine
    <2>3. ErrorsAt(site, visible) =
             IF Enter(site.depth) THEN NameErrors(Keys(site.tree.entries)) ELSE {"nesting"}
      BY <1>5 DEF ErrorsAt
    <2> QED
      BY <1>5, <2>2, <2>3 DEF Clean, SiteIsSound, Enter
  <1> QED
    BY <1>1, <1>2, <1>3, <1>4, <1>5, TreeForms

\* The sites of a value, one level unfolded.
LEMMA SitesUnfold ==
  ASSUME NEW n \in 0 .. MaxHeight, NEW site \in ValueSite(n)
  PROVE  \A s : s \in ValueSitesUpTo[n][site]
                  <=> \/ s = site
                      \/ \E v \in Children(site.tree) :
                            s \in ValueSitesUpTo[n - 1][At(v, site.depth + 1)]
  <1>1. ValueSitesUpTo[n][site] =
           {site} \cup UNION {ValueSitesUpTo[n - 1][At(v, site.depth + 1)] : v \in Children(site.tree)}
    BY SitesEquation DEF SitesStep
  <1> QED
    BY <1>1

\* The sites that the walk reaches, one level unfolded.
LEMMA ReachedUnfold ==
  ASSUME NEW n \in 0 .. MaxHeight, NEW site \in ValueSite(n)
  PROVE  \A s : s \in ReachedUpTo[n][site]
                  <=> \/ s = site
                      \/ Enter(site.depth) /\ \E v \in Children(site.tree) :
                            s \in ReachedUpTo[n - 1][At(v, site.depth + 1)]
  <1>1. ReachedUpTo[n][site] =
           {site} \cup IF Enter(site.depth)
                       THEN UNION {ReachedUpTo[n - 1][At(v, site.depth + 1)] :
                                     v \in Children(site.tree)}
                       ELSE {}
    BY ReachedEquation DEF ReachedStep
  <1> QED
    BY <1>1

ReachedIsClean(n, visible) ==
  \A site \in ValueSite(n) :
     (\A s \in ReachedUpTo[n][site] : ErrorsAt(s, visible) = {})
       <=> \A s \in ValueSitesUpTo[n][site] : Clean(s, visible)

\* validate_value, one level.
LEMMA ReachedStepIsClean ==
  ASSUME NEW visible, NEW n \in 0 .. MaxHeight, n # 0 => ReachedIsClean(n - 1, visible)
  PROVE  ReachedIsClean(n, visible)
  <1> SUFFICES ASSUME NEW site \in ValueSite(n)
               PROVE  (\A s \in ReachedUpTo[n][site] : ErrorsAt(s, visible) = {})
                        <=> \A s \in ValueSitesUpTo[n][site] : Clean(s, visible)
    BY DEF ReachedIsClean
  <1>1. ErrorsAt(site, visible) = {} <=> Clean(site, visible)
    BY SiteIsClean
  <1>2. ASSUME NEW v \in Children(site.tree)
        PROVE  (\A s \in ReachedUpTo[n - 1][At(v, site.depth + 1)] : ErrorsAt(s, visible) = {})
                 <=> \A s \in ValueSitesUpTo[n - 1][At(v, site.depth + 1)] : Clean(s, visible)
    <2>1. n - 1 \in 0 .. MaxHeight /\ At(v, site.depth + 1) \in ValueSite(n - 1)
      BY ChildSites
    <2>2. n # 0
      BY <2>1
    <2> QED
      BY <2>1, <2>2 DEF ReachedIsClean
  <1>3. CASE Enter(site.depth)
    BY <1>1, <1>2, <1>3, ReachedUnfold, SitesUnfold
  <1>4. CASE ~ Enter(site.depth) /\ site.tree.kind \in {"array", "object"}
    <2>1. ~ Clean(site, visible)
      BY <1>4 DEF Clean, SiteIsSound, Enter
    <2> QED
      BY <1>1, <2>1, ReachedUnfold, SitesUnfold
  <1>5. CASE site.tree.kind \notin {"array", "object"}
    <2>1. Children(site.tree) = {}
      BY <1>5 DEF Children
    <2> QED
      BY <1>1, <2>1, ReachedUnfold, SitesUnfold
  <1> QED
    BY <1>3, <1>4, <1>5

\* validate_value reports nothing exactly if every site is clean.
LEMMA ValueIsClean ==
  ASSUME NEW visible, NEW v \in ValueTree, NEW depth \in Nat
  PROVE  ValueErrors(v, visible, depth) = {} <=> \A s \in SitesOf(v, depth) : Clean(s, visible)
  <1> DEFINE Bad == {n \in 0 .. MaxHeight : ~ ReachedIsClean(n, visible)}
  <1>1. ASSUME NEW n \in Bad, \A k \in Bad : n <= k
        PROVE  FALSE
    <2>1. n # 0 => n - 1 \in 0 .. MaxHeight /\ ~ (n <= n - 1)
      BY LimitsArePositive
    <2>2. n # 0 => ReachedIsClean(n - 1, visible)
      BY <1>1, <2>1
    <2> QED
      BY <2>2, ReachedStepIsClean
  <1>2. Bad \in SUBSET Nat
    BY LimitsArePositive
  <1>3. Bad = {}
    BY <1>1, <1>2, LeastNumber
  <1>4. MaxHeight \in 0 .. MaxHeight /\ At(v, depth) \in ValueSite(MaxHeight)
    BY LimitsArePositive DEF ValueSite, At, ValueTree
  <1>5. ReachedIsClean(MaxHeight, visible)
    BY <1>3, <1>4
  <1>6. ValueErrors(v, visible, depth) = {}
          <=> \A s \in ReachedUpTo[MaxHeight][At(v, depth)] : ErrorsAt(s, visible) = {}
    BY DEF ValueErrors
  <1> QED
    BY <1>4, <1>5, <1>6 DEF ReachedIsClean, SitesOf

-----------------------------------------------------------------------------
(***************************************************************************)
(* Object assertions.                                                      *)
(***************************************************************************)
CleanField(f, depth, visible) ==
  /\ FieldIsSound(f)
  /\ f.nested # <<>> => f.type = "object"
  /\ \A v \in ToSet(f.expected) : \A s \in SitesOf(v, depth) : Clean(s, visible)

CleanAssertion(site, visible) ==
  /\ site.depth < MaxSemanticDepth /\ AreNames(FieldNames(site.tree))
  /\ \A f \in ToSet(site.tree.fields) : CleanField(f, site.depth + 1, visible)

\* A sequence without elements is empty.
LEMMA NoElements ==
  ASSUME NEW S, NEW s \in Seq(S)
  PROVE  s = <<>> <=> ToSet(s) = {}
  <1>1. DOMAIN s = 1 .. Len(s) /\ Len(s) \in Nat
    BY LenProperties
  <1>2. ASSUME s # <<>>
        PROVE  s[1] \in ToSet(s)
    <2>1. Len(s) \in Nat \ {0}
      BY <1>2, EmptySeq
    <2> QED
      BY <1>1, <2>1 DEF ToSet
  <1>3. ToSet(<<>>) = {}
    BY DEF ToSet
  <1> QED
    BY <1>2, <1>3

\* What is reported of a field by itself.
LEMMA FieldIsClean ==
  ASSUME NEW f, NEW S, NEW visible, NEW depth \in Nat,
         f.expected \in Seq(ValueTree), f.capture \in Seq(STRING), f.nested \in Seq(S)
  PROVE  FieldErrors(f, visible, depth) = {} <=> CleanField(f, depth, visible)
  <1> DEFINE missing == When(f.type = "none" /\ f.expected = <<>> /\ f.nested = <<>>,
                             "missing_assertion")
             OfValue(v) == When(f.type # "none" /\ ~ TypeAccepts(f.type, v), "type_mismatch")
                             \cup ValueErrors(v, visible, depth)
             OfNested(n) == When(f.type # "object", "nested_type") \cup When(n.exact, "nested_mode")
             OfCapture(c) == When(f.type = "none", "capture_type")
                               \cup When(c \notin Names, "variable")
             values == UNION {OfValue(v) : v \in ToSet(f.expected)}
             nested == UNION {OfNested(n) : n \in ToSet(f.nested)}
             captures == UNION {OfCapture(c) : c \in ToSet(f.capture)}
  <1>1. FieldErrors(f, visible, depth) = {}
          <=> missing = {} /\ values = {} /\ nested = {} /\ captures = {}
    <2>1. FieldErrors(f, visible, depth) = missing \cup values \cup nested \cup captures
      BY DEF FieldErrors
    <2> HIDE DEF missing, values, nested, captures
    <2> QED
      BY <2>1
  <1>2. missing = {} <=> ~ (f.type = "none" /\ f.expected = <<>> /\ f.nested = <<>>)
    BY DEF When
  <1>3. values = {} <=> \A v \in ToSet(f.expected) :
                           /\ f.type # "none" => TypeAccepts(f.type, v)
                           /\ ValueErrors(v, visible, depth) = {}
    <2>1. \A v : OfValue(v) = {} <=> /\ f.type # "none" => TypeAccepts(f.type, v)
                                     /\ ValueErrors(v, visible, depth) = {}
      BY DEF When
    <2> HIDE DEF OfValue
    <2> QED
      BY <2>1
  <1>4. nested = {} <=> \A n \in ToSet(f.nested) : f.type = "object" /\ ~ n.exact
    <2>1. \A n : OfNested(n) = {} <=> f.type = "object" /\ ~ n.exact
      BY DEF When
    <2> HIDE DEF OfNested
    <2> QED
      BY <2>1
  <1>5. captures = {} <=> \A c \in ToSet(f.capture) : f.type # "none" /\ c \in Names
    <2>1. \A c : OfCapture(c) = {} <=> f.type # "none" /\ c \in Names
      BY DEF When
    <2> HIDE DEF OfCapture
    <2> QED
      BY <2>1
  <1>6. \A v \in ToSet(f.expected) :
           ValueErrors(v, visible, depth) = {} <=> \A s \in SitesOf(v, depth) : Clean(s, visible)
    <2>1. ToSet(f.expected) \subseteq ValueTree
      BY DEF ToSet
    <2> QED
      BY <2>1, ValueIsClean
  <1>7. /\ f.capture = <<>> <=> ToSet(f.capture) = {}
        /\ f.nested = <<>> <=> ToSet(f.nested) = {}
    BY NoElements
  <1>8. f.expected \o f.nested = <<>> <=> f.expected = <<>> /\ f.nested = <<>>
    <2>1. f.expected \in Seq(ValueTree \cup S) /\ f.nested \in Seq(ValueTree \cup S)
      BY SeqMonotonic
    <2> QED
      BY <2>1, ConcatEqualIffEmpty
  <1> HIDE DEF missing, values, nested, captures
  <1>9. CleanField(f, depth, visible) <=>
          /\ f.type # "none" \/ (f.capture = <<>> /\ f.expected \o f.nested # <<>>)
          /\ f.type # "none" => \A v \in ToSet(f.expected) : TypeAccepts(f.type, v)
          /\ \A n \in ToSet(f.nested) : ~ n.exact
          /\ ToSet(f.capture) \subseteq Names
          /\ f.nested # <<>> => f.type = "object"
          /\ \A v \in ToSet(f.expected) : \A s \in SitesOf(v, depth) : Clean(s, visible)
    BY DEF CleanField, FieldIsSound
  <1>10. captures = {} <=> (f.type # "none" \/ f.capture = <<>>) /\ ToSet(f.capture) \subseteq Names
    BY <1>5, <1>7
  <1>11. nested = {} <=> (f.nested # <<>> => f.type = "object") /\ \A n \in ToSet(f.nested) : ~ n.exact
    BY <1>4, <1>7
  <1>12. values = {} <=> /\ f.type # "none" => \A v \in ToSet(f.expected) : TypeAccepts(f.type, v)
                         /\ \A v \in ToSet(f.expected) : \A s \in SitesOf(v, depth) : Clean(s, visible)
    BY <1>3, <1>6
  <1> QED
    BY <1>1, <1>2, <1>8, <1>9, <1>10, <1>11, <1>12

\* What is reported of an assertion by itself.
LEMMA AssertionIsClean ==
  ASSUME NEW n \in 0 .. MaxHeight, NEW site \in AssertionSite(n), NEW visible
  PROVE  AssertionErrorsAt(site, visible) = {} <=> CleanAssertion(site, visible)
  <1>1. site.tree \in AssertionTreeUpTo[n] /\ site.depth \in Nat
    BY DEF AssertionSite
  <1>2. CASE ~ Enter(site.depth)
    BY <1>2 DEF AssertionErrorsAt, CleanAssertion, Enter
  <1>3. CASE Enter(site.depth)
    <2> DEFINE fields == UNION {FieldErrors(f, visible, site.depth + 1) : f \in ToSet(site.tree.fields)}
    <2>1. AssertionErrorsAt(site, visible) = NameErrors(FieldNames(site.tree)) \cup fields
      BY <1>3 DEF AssertionErrorsAt
    <2>2. NameErrors(FieldNames(site.tree)) = {} <=> AreNames(FieldNames(site.tree))
      <3>1. /\ Len(site.tree.fields) \in Nat
            /\ DOMAIN FieldNames(site.tree) = 1 .. Len(site.tree.fields)
        BY <1>1, AssertionForms DEF FieldNames
      <3> QED
        BY <3>1, NamesAreFine
    <2>3. ASSUME NEW f \in ToSet(site.tree.fields)
          PROVE  FieldErrors(f, visible, site.depth + 1) = {} <=> CleanField(f, site.depth + 1, visible)
      <3>1. f.expected \in Seq(ValueTree) /\ f.capture \in Seq(STRING)
        BY <1>1, AssertionForms
      <3>2. f.nested \in Seq(AssertionTreeUpTo[n - 1])
        BY <1>1, AssertionForms, EmptySeq
      <3>3. site.depth + 1 \in Nat
        BY <1>1
      <3> QED
        BY <3>1, <3>2, <3>3, FieldIsClean
    <2>4. fields = {} <=> \A f \in ToSet(site.tree.fields) : CleanField(f, site.depth + 1, visible)
      BY <2>3
    <2> HIDE DEF fields
    <2> QED
      BY <1>3, <2>1, <2>2, <2>4 DEF CleanAssertion, Enter
  <1> QED
    BY <1>2, <1>3

\* The assertions nested in one, one level unfolded.
LEMMA AssertionSitesUnfold ==
  ASSUME NEW n \in 0 .. MaxHeight, NEW site \in AssertionSite(n)
  PROVE  \A s : s \in AssertionSitesUpTo[n][site]
                  <=> \/ s = site
                      \/ \E f \in ToSet(site.tree.fields) : \E a \in ToSet(f.nested) :
                            s \in AssertionSitesUpTo[n - 1][At(a, site.depth + 1)]
  <1>1. AssertionSitesUpTo[n][site] =
           {site} \cup UNION {AssertionSitesUpTo[n - 1][At(a, site.depth + 1)] :
                                a \in NestedIn(site.tree)}
    BY AssertionSitesEquation DEF AssertionSitesStep
  <1> QED
    BY <1>1 DEF NestedIn

\* Those that the walk reaches, one level unfolded.
LEMMA AssertionsReachedUnfold ==
  ASSUME NEW n \in 0 .. MaxHeight, NEW site \in AssertionSite(n)
  PROVE  \A s : s \in AssertionsReachedUpTo[n][site]
                  <=> \/ s = site
                      \/ Enter(site.depth) /\
                         \E f \in ToSet(site.tree.fields) : \E a \in ToSet(f.nested) :
                            s \in AssertionsReachedUpTo[n - 1][At(a, site.depth + 1)]
  <1>1. AssertionsReachedUpTo[n][site] =
           {site} \cup IF Enter(site.depth)
                       THEN UNION {AssertionsReachedUpTo[n - 1][At(a, site.depth + 1)] :
                                     a \in NestedIn(site.tree)}
                       ELSE {}
    BY AssertionsReachedEquation DEF AssertionsReachedStep
  <1> QED
    BY <1>1 DEF NestedIn

AssertionsAreClean(n, visible) ==
  \A site \in AssertionSite(n) :
     (\A s \in AssertionsReachedUpTo[n][site] : AssertionErrorsAt(s, visible) = {})
       <=> \A s \in AssertionSitesUpTo[n][site] : CleanAssertion(s, visible)

\* validate_assertion, one level.
LEMMA AssertionStepIsClean ==
  ASSUME NEW visible, NEW n \in 0 .. MaxHeight, n # 0 => AssertionsAreClean(n - 1, visible)
  PROVE  AssertionsAreClean(n, visible)
  <1> SUFFICES ASSUME NEW site \in AssertionSite(n)
               PROVE  (\A s \in AssertionsReachedUpTo[n][site] : AssertionErrorsAt(s, visible) = {})
                        <=> \A s \in AssertionSitesUpTo[n][site] : CleanAssertion(s, visible)
    BY DEF AssertionsAreClean
  <1>1. AssertionErrorsAt(site, visible) = {} <=> CleanAssertion(site, visible)
    BY AssertionIsClean
  <1>2. ASSUME NEW f \in ToSet(site.tree.fields), NEW a \in ToSet(f.nested)
        PROVE  (\A s \in AssertionsReachedUpTo[n - 1][At(a, site.depth + 1)] :
                  AssertionErrorsAt(s, visible) = {})
                 <=> \A s \in AssertionSitesUpTo[n - 1][At(a, site.depth + 1)] :
                        CleanAssertion(s, visible)
    <2>1. n - 1 \in 0 .. MaxHeight /\ At(a, site.depth + 1) \in AssertionSite(n - 1)
      BY NestedAreLower
    <2>2. n # 0
      BY <2>1
    <2> QED
      BY <2>1, <2>2 DEF AssertionsAreClean
  <1>3. CASE Enter(site.depth)
    BY <1>1, <1>2, <1>3, AssertionsReachedUnfold, AssertionSitesUnfold
  <1>4. CASE ~ Enter(site.depth)
    <2>1. ~ CleanAssertion(site, visible)
      BY <1>4 DEF CleanAssertion, Enter
    <2> QED
      BY <1>1, <2>1, AssertionsReachedUnfold, AssertionSitesUnfold
  <1> QED
    BY <1>3, <1>4

\* validate_assertion reports nothing exactly if every assertion is clean.
LEMMA WholeAssertionIsClean ==
  ASSUME NEW visible, NEW a \in AssertionTreeUpTo[MaxHeight]
  PROVE  AssertionErrors(a, visible) = {}
           <=> \A s \in AssertionSitesUpTo[MaxHeight][At(a, 0)] : CleanAssertion(s, visible)
  <1> DEFINE Bad == {n \in 0 .. MaxHeight : ~ AssertionsAreClean(n, visible)}
  <1>1. ASSUME NEW n \in Bad, \A k \in Bad : n <= k
        PROVE  FALSE
    <2>1. n # 0 => n - 1 \in 0 .. MaxHeight /\ ~ (n <= n - 1)
      BY LimitsArePositive
    <2>2. n # 0 => AssertionsAreClean(n - 1, visible)
      BY <1>1, <2>1
    <2> QED
      BY <2>2, AssertionStepIsClean
  <1>2. Bad \in SUBSET Nat
    BY LimitsArePositive
  <1>3. Bad = {}
    BY <1>1, <1>2, LeastNumber
  <1>4. MaxHeight \in 0 .. MaxHeight /\ At(a, 0) \in AssertionSite(MaxHeight)
    BY LimitsArePositive DEF AssertionSite, At
  <1>5. AssertionsAreClean(MaxHeight, visible)
    BY <1>3, <1>4
  <1>6. AssertionErrors(a, visible) = {}
          <=> \A s \in AssertionsReachedUpTo[MaxHeight][At(a, 0)] : AssertionErrorsAt(s, visible) = {}
    BY DEF AssertionErrors
  <1> QED
    BY <1>4, <1>5, <1>6 DEF AssertionsAreClean

-----------------------------------------------------------------------------
(***************************************************************************)
(* Requests, expectations and tests.                                       *)
(***************************************************************************)
Reads(texts, visible) ==
  \A t \in texts : \A f \in ToSet(t) : f.kind = "placeholder" => f.name \in visible

RequestIsClean(r, visible) == RequestIsSound(r) /\ Reads(RequestTexts(r), visible)

ExpectationIsClean(e, visible) ==
  /\ ExpectationIsSound(e) /\ Reads(ExpectationTexts(e), visible)
  /\ \A f \in FieldsOf(e) : f.nested # <<>> => f.type = "object"

RequestTree == [method : STRING, path : Seq(Fragment), sections : Seq(RequestSection)]
ExpectationTree == [sections : Seq(ExpectationSection)]
EntryTree == [key : Spelled, value : ValueTree]
HeaderTree == [key : Spelled, text : Seq(Fragment)]

\* Clean sites are sound sites with readable texts.
LEMMA SitesAreClean ==
  ASSUME NEW sites, NEW visible
  PROVE  (\A s \in sites : Clean(s, visible))
           <=> /\ \A s \in sites : SiteIsSound(s)
               /\ \A t \in TextsAt(sites) : Readable(t, visible)
  BY DEF Clean, TextsAt

\* Readable texts are well formed and read what is visible.
LEMMA TextsAreReadable ==
  ASSUME NEW texts, NEW visible
  PROVE  (\A t \in texts : Readable(t, visible))
           <=> (\A t \in texts : WellFormed(t)) /\ Reads(texts, visible)
  BY DEF Readable, Reads

\* What a section of a request looks like.
LEMMA RequestSectionForms ==
  ASSUME NEW s \in RequestSection
  PROVE  /\ s.of \in {"headers", "query", "body"} /\ s.entries \in Seq(EntryTree)
         /\ s.of = "body" => ObjectValueAst(s.entries) \in ValueTree
  BY DEF RequestSection, EntryTree

\* What a section of an expectation looks like.
LEMMA ExpectationSectionForms ==
  ASSUME NEW s \in ExpectationSection
  PROVE  \/ s.of = "status"
         \/ s.of = "headers" /\ s.entries \in Seq(HeaderTree)
         \/ /\ s.of = "body" /\ s.form \in {"empty", "text", "object"} /\ s.text \in Seq(Fragment)
            /\ s.assertion \in AssertionTreeUpTo[MaxHeight]
  <1>1. \/ s \in [of : {"status"}, status : Int]
        \/ s \in [of : {"headers"}, entries : Seq(HeaderTree)]
        \/ s \in [of : {"body"}, form : {"empty", "text", "object"}, text : Seq(Fragment),
                  assertion : AssertionTreeUpTo[MaxHeight]]
    BY DEF ExpectationSection, HeaderTree
  <1> QED
    BY <1>1

\* The sites of a request.
LEMMA SitesOfRequest ==
  ASSUME NEW r
  PROVE  \A x : x \in RequestSites(r) <=>
            \E s \in ToSet(r.sections) :
               IF s.of = "body" THEN x \in SitesOf(ObjectValueAst(s.entries), 0)
               ELSE \E e \in ToSet(s.entries) : x \in SitesOf(e.value, 0)
  <1> DEFINE Below(s) == IF s.of = "body" THEN SitesOf(ObjectValueAst(s.entries), 0)
                         ELSE UNION {SitesOf(e.value, 0) : e \in ToSet(s.entries)}
  <1>1. RequestSites(r) = UNION {Below(s) : s \in ToSet(r.sections)}
    BY DEF RequestSites
  <1>2. \A x, s : x \in Below(s) <=> IF s.of = "body" THEN x \in SitesOf(ObjectValueAst(s.entries), 0)
                                     ELSE \E e \in ToSet(s.entries) : x \in SitesOf(e.value, 0)
    OBVIOUS
  <1> HIDE DEF Below
  <1> QED
    BY <1>1, <1>2

\* validate_request reports nothing exactly of clean requests.
LEMMA RequestDecides ==
  ASSUME NEW r \in RequestTree, NEW visible
  PROVE  RequestErrors(r, visible) = {} <=> RequestIsClean(r, visible)
  <1> DEFINE headers == EntriesOf(r.sections, "headers")
             query == EntriesOf(r.sections, "query")
             bodies == {s \in ToSet(r.sections) : s.of = "body"}
             ofEntries == UNION {ValueErrors(e.value, visible, 0) : e \in ToSet(headers) \cup ToSet(query)}
             ofBodies == UNION {ValueErrors(ObjectValueAst(b.entries), visible, 0) : b \in bodies}
             allowed == \A s \in ToSet(r.sections) : s.of = "body" => r.method \in {"POST", "PUT", "PATCH"}
  <1>1. r.sections \in Seq(RequestSection)
    BY DEF RequestTree
  <1>2. \A s \in ToSet(r.sections) : s \in RequestSection
    BY <1>1 DEF ToSet
  <1>3. \A s \in ToSet(r.sections) : s.entries \in Seq(EntryTree)
    BY <1>2, RequestSectionForms
  <1>4. /\ headers \in Seq(EntryTree) /\ query \in Seq(EntryTree)
        /\ \A e : e \in ToSet(headers) <=>
                    \E s \in ToSet(r.sections) : s.of = "headers" /\ e \in ToSet(s.entries)
        /\ \A e : e \in ToSet(query) <=>
                    \E s \in ToSet(r.sections) : s.of = "query" /\ e \in ToSet(s.entries)
    BY <1>1, <1>3, EntriesAreThose
  <1>5. \A e \in ToSet(headers) \cup ToSet(query) : e.value \in ValueTree
    <2>1. \A e \in EntryTree : e.value \in ValueTree
      BY DEF EntryTree
    <2> HIDE DEF headers, query
    <2>2. ToSet(headers) \cup ToSet(query) \subseteq EntryTree
      BY <1>4 DEF ToSet
    <2> QED
      BY <2>1, <2>2
  <1>6. ofEntries = {} <=> \A e \in ToSet(headers) \cup ToSet(query) :
                              \A x \in SitesOf(e.value, 0) : Clean(x, visible)
    <2> HIDE DEF headers, query
    <2>1. ofEntries = {} <=> \A e \in ToSet(headers) \cup ToSet(query) :
                                ValueErrors(e.value, visible, 0) = {}
      OBVIOUS
    <2> QED
      BY <1>5, <2>1, ValueIsClean
  <1>7. ofBodies = {} <=> \A b \in bodies : \A x \in SitesOf(ObjectValueAst(b.entries), 0) :
                             Clean(x, visible)
    <2>1. \A b \in bodies : ObjectValueAst(b.entries) \in ValueTree
      BY <1>2, RequestSectionForms
    <2> HIDE DEF bodies
    <2>2. ofBodies = {} <=> \A b \in bodies : ValueErrors(ObjectValueAst(b.entries), visible, 0) = {}
      OBVIOUS
    <2> QED
      BY <2>1, <2>2, ValueIsClean
  <1>8. ofEntries = {} /\ ofBodies = {} <=> \A x \in RequestSites(r) : Clean(x, visible)
    <2>1. \A s \in ToSet(r.sections) : s.of \in {"headers", "query", "body"}
      BY <1>2, RequestSectionForms
    <2> HIDE DEF headers, query, ofEntries, ofBodies
    <2> QED
      BY <1>4, <1>6, <1>7, <2>1, SitesOfRequest
  <1>9. allowed <=> When(bodies # {} /\ r.method \notin {"POST", "PUT", "PATCH"}, "body_not_allowed") = {}
    BY DEF When
  <1>10. RequestErrors(r, visible) = {} <=>
           /\ r.path # <<>> /\ Readable(r.path, visible)
           /\ Singly(r.sections)
           /\ AreHeaders(headers) /\ AreNames(Keys(query))
           /\ allowed /\ ofEntries = {} /\ ofBodies = {}
    <2>1. RequestErrors(r, visible) =
             When(r.path = <<>>, "empty_path") \cup TextErrors(r.path, visible)
               \cup Repeated(r.sections)
               \cup HeaderNameErrors(Keys(headers)) \cup NameErrors(Keys(query))
               \cup ofEntries
               \cup When(bodies # {} /\ r.method \notin {"POST", "PUT", "PATCH"}, "body_not_allowed")
               \cup ofBodies
      BY DEF RequestErrors
    <2>2. When(r.path = <<>>, "empty_path") = {} <=> r.path # <<>>
      BY DEF When
    <2>3. TextErrors(r.path, visible) = {} <=> Readable(r.path, visible)
      BY TextIsReadable
    <2>4. Repeated(r.sections) = {} <=> Singly(r.sections)
      BY <1>1, SectionsAreSingle
    <2>5. HeaderNameErrors(Keys(headers)) = {} <=> AreHeaders(headers)
      BY <1>4, HeadersAreFine
    <2>6. NameErrors(Keys(query)) = {} <=> AreNames(Keys(query))
      BY <1>4, KeysAreFine
    <2> HIDE DEF headers, query, bodies, ofEntries, ofBodies, allowed
    <2> QED
      BY <1>9, <2>1, <2>2, <2>3, <2>4, <2>5, <2>6
  <1>11. (\A x \in RequestSites(r) : Clean(x, visible)) <=>
           /\ \A x \in RequestSites(r) : SiteIsSound(x)
           /\ \A t \in TextsAt(RequestSites(r)) : Readable(t, visible)
    BY SitesAreClean
  <1>12. (\A t \in RequestTexts(r) : WellFormed(t)) /\ Reads(RequestTexts(r), visible) <=>
           Readable(r.path, visible) /\ \A t \in TextsAt(RequestSites(r)) : Readable(t, visible)
    <2>1. (\A t \in RequestTexts(r) : Readable(t, visible)) <=>
             Readable(r.path, visible) /\ \A t \in TextsAt(RequestSites(r)) : Readable(t, visible)
      BY DEF RequestTexts
    <2> QED
      BY <2>1, TextsAreReadable
  <1>13. RequestIsSound(r) <=>
           /\ r.path # <<>> /\ \A t \in RequestTexts(r) : WellFormed(t)
           /\ \A s \in RequestSites(r) : SiteIsSound(s)
           /\ Singly(r.sections)
           /\ AreHeaders(headers) /\ AreNames(Keys(query)) /\ allowed
    BY DEF RequestIsSound
  <1> HIDE DEF headers, query, bodies, ofEntries, ofBodies, allowed
  <1> QED
    BY <1>8, <1>10, <1>11, <1>12, <1>13 DEF RequestIsClean

\* The assertions, the fields and the sites of an expectation.
LEMMA PartsOfExpectation ==
  ASSUME NEW e
  PROVE  /\ \A a : a \in AssertionsIn(e) <=>
               \E s \in ToSet(e.sections) :
                  IsObjectBody(s) /\ a \in AssertionSitesUpTo[MaxHeight][At(s.assertion, 0)]
         /\ \A f : f \in FieldsOf(e) <=> \E a \in AssertionsIn(e) : f \in ToSet(a.tree.fields)
         /\ \A x : x \in ExpectedSites(e) <=>
               \E a \in AssertionsIn(e) : \E f \in ToSet(a.tree.fields) :
                  \E v \in ToSet(f.expected) : x \in SitesOf(v, a.depth + 1)
  <1>1. \A a : a \in AssertionsIn(e) <=>
           \E s \in ToSet(e.sections) :
              IsObjectBody(s) /\ a \in AssertionSitesUpTo[MaxHeight][At(s.assertion, 0)]
    BY DEF AssertionsIn
  <1>2. \A f : f \in FieldsOf(e) <=> \E a \in AssertionsIn(e) : f \in ToSet(a.tree.fields)
    BY DEF FieldsOf
  <1>3. \A a, x : x \in ValuesBelow(a) <=>
           \E f \in ToSet(a.tree.fields) : \E v \in ToSet(f.expected) : x \in SitesOf(v, a.depth + 1)
    BY DEF ValuesBelow
  <1>4. \A x : x \in ExpectedSites(e) <=> \E a \in AssertionsIn(e) : x \in ValuesBelow(a)
    BY DEF ExpectedSites
  <1> QED
    BY <1>1, <1>2, <1>3, <1>4

\* Clean assertions, part by part.
LEMMA AssertionsDecide ==
  ASSUME NEW e, NEW visible
  PROVE  (\A a \in AssertionsIn(e) : CleanAssertion(a, visible)) <=>
           /\ \A a \in AssertionsIn(e) : a.depth < MaxSemanticDepth /\ AreNames(FieldNames(a.tree))
           /\ \A f \in FieldsOf(e) : FieldIsSound(f)
           /\ \A f \in FieldsOf(e) : f.nested # <<>> => f.type = "object"
           /\ \A x \in ExpectedSites(e) : Clean(x, visible)
  <1>1. \A a : CleanAssertion(a, visible) <=>
           /\ a.depth < MaxSemanticDepth /\ AreNames(FieldNames(a.tree))
           /\ \A f \in ToSet(a.tree.fields) :
                /\ FieldIsSound(f)
                /\ f.nested # <<>> => f.type = "object"
                /\ \A v \in ToSet(f.expected) : \A s \in SitesOf(v, a.depth + 1) : Clean(s, visible)
    BY DEF CleanAssertion, CleanField
  <1>2. (\A x \in ExpectedSites(e) : Clean(x, visible)) <=>
          \A a \in AssertionsIn(e) : \A f \in ToSet(a.tree.fields) :
             \A v \in ToSet(f.expected) : \A x \in SitesOf(v, a.depth + 1) : Clean(x, visible)
    BY PartsOfExpectation
  <1>3. (\A f \in FieldsOf(e) : FieldIsSound(f)) <=>
          \A a \in AssertionsIn(e) : \A f \in ToSet(a.tree.fields) : FieldIsSound(f)
    BY PartsOfExpectation
  <1>4. (\A f \in FieldsOf(e) : f.nested # <<>> => f.type = "object") <=>
          \A a \in AssertionsIn(e) : \A f \in ToSet(a.tree.fields) :
             f.nested # <<>> => f.type = "object"
    BY PartsOfExpectation
  <1> QED
    BY <1>1, <1>2, <1>3, <1>4

\* What is reported of a section of an expectation.
LEMMA SectionIsClean ==
  ASSUME NEW s \in ExpectationSection, NEW visible
  PROVE  SectionErrors(s, visible) = {} <=>
           /\ s.of = "status" => s.status \in 100 .. 599
           /\ s.of = "body" /\ s.form = "text" => Readable(s.text, visible)
           /\ IsObjectBody(s) =>
                \A a \in AssertionSitesUpTo[MaxHeight][At(s.assertion, 0)] : CleanAssertion(a, visible)
  <1>1. CASE s.of = "status"
    <2>1. SectionErrors(s, visible) = When(s.status \notin 100 .. 599, "status")
      BY <1>1 DEF SectionErrors
    <2> QED
      BY <1>1, <2>1 DEF When, IsObjectBody
  <1>2. CASE s.of = "headers"
    BY <1>2 DEF SectionErrors, IsObjectBody
  <1>3. CASE s.of = "body" /\ s.form = "text"
    <2>1. SectionErrors(s, visible) = TextErrors(s.text, visible)
      BY <1>3 DEF SectionErrors
    <2> QED
      BY <1>3, <2>1, TextIsReadable DEF IsObjectBody
  <1>4. CASE s.of = "body" /\ s.form = "object"
    <2>1. SectionErrors(s, visible) = AssertionErrors(s.assertion, visible)
      BY <1>4 DEF SectionErrors
    <2>2. s.assertion \in AssertionTreeUpTo[MaxHeight]
      BY <1>4, ExpectationSectionForms
    <2> QED
      BY <1>4, <2>1, <2>2, WholeAssertionIsClean DEF IsObjectBody
  <1>5. CASE s.of = "body" /\ s.form = "empty"
    BY <1>5 DEF SectionErrors, IsObjectBody
  <1> QED
    BY <1>1, <1>2, <1>3, <1>4, <1>5, ExpectationSectionForms

\* validate_expectation reports nothing exactly of clean expectations.
LEMMA ExpectationDecides ==
  ASSUME NEW e \in ExpectationTree, NEW visible
  PROVE  ExpectationErrors(e, visible) = {} <=> ExpectationIsClean(e, visible)
  <1> DEFINE headers == EntriesOf(e.sections, "headers")
             ofHeaders == UNION {TextErrors(h.text, visible) : h \in ToSet(headers)}
             ofSections == UNION {SectionErrors(s, visible) : s \in ToSet(e.sections)}
             texts == {s \in ToSet(e.sections) : s.of = "body" /\ s.form = "text"}
             inRange == \A s \in ToSet(e.sections) : s.of = "status" => s.status \in 100 .. 599
  <1>1. e.sections \in Seq(ExpectationSection)
    BY DEF ExpectationTree
  <1>2. \A s \in ToSet(e.sections) : s \in ExpectationSection
    BY <1>1 DEF ToSet
  <1>3. \A s \in ToSet(e.sections) : s.of = "headers" => s.entries \in Seq(HeaderTree)
    BY <1>2, ExpectationSectionForms
  <1>4. headers \in Seq(HeaderTree)
    BY <1>1, <1>3, EntriesAreThose
  <1>5. ofHeaders = {} <=> \A h \in ToSet(headers) : Readable(h.text, visible)
    <2> HIDE DEF headers
    <2>1. ofHeaders = {} <=> \A h \in ToSet(headers) : TextErrors(h.text, visible) = {}
      OBVIOUS
    <2> QED
      BY <2>1, TextIsReadable
  <1>6. ofSections = {} <=> /\ inRange
                            /\ \A s \in texts : Readable(s.text, visible)
                            /\ \A a \in AssertionsIn(e) : CleanAssertion(a, visible)
    <2>1. ofSections = {} <=> \A s \in ToSet(e.sections) : SectionErrors(s, visible) = {}
      OBVIOUS
    <2>2. ofSections = {} <=>
            \A s \in ToSet(e.sections) :
               /\ s.of = "status" => s.status \in 100 .. 599
               /\ s.of = "body" /\ s.form = "text" => Readable(s.text, visible)
               /\ IsObjectBody(s) =>
                    \A a \in AssertionSitesUpTo[MaxHeight][At(s.assertion, 0)] :
                       CleanAssertion(a, visible)
      BY <1>2, <2>1, SectionIsClean
    <2>3. (\A a \in AssertionsIn(e) : CleanAssertion(a, visible)) <=>
            \A s \in ToSet(e.sections) : IsObjectBody(s) =>
               \A a \in AssertionSitesUpTo[MaxHeight][At(s.assertion, 0)] : CleanAssertion(a, visible)
      BY PartsOfExpectation
    <2> HIDE DEF ofSections
    <2> QED
      BY <2>2, <2>3
  <1>7. ExpectationErrors(e, visible) = {} <=>
          Singly(e.sections) /\ AreHeaders(headers) /\ ofHeaders = {} /\ ofSections = {}
    <2>1. ExpectationErrors(e, visible) =
            Repeated(e.sections) \cup HeaderNameErrors(Keys(headers)) \cup ofHeaders \cup ofSections
      BY DEF ExpectationErrors
    <2>2. Repeated(e.sections) = {} <=> Singly(e.sections)
      BY <1>1, SectionsAreSingle
    <2>3. HeaderNameErrors(Keys(headers)) = {} <=> AreHeaders(headers)
      BY <1>4, HeadersAreFine
    <2> HIDE DEF headers, ofHeaders, ofSections
    <2> QED
      BY <2>1, <2>2, <2>3
  <1>8. (\A x \in ExpectedSites(e) : Clean(x, visible)) <=>
          /\ \A x \in ExpectedSites(e) : SiteIsSound(x)
          /\ \A t \in TextsAt(ExpectedSites(e)) : Readable(t, visible)
    BY SitesAreClean
  <1>9. (\A t \in ExpectationTexts(e) : WellFormed(t)) /\ Reads(ExpectationTexts(e), visible) <=>
          /\ \A h \in ToSet(headers) : Readable(h.text, visible)
          /\ \A s \in texts : Readable(s.text, visible)
          /\ \A t \in TextsAt(ExpectedSites(e)) : Readable(t, visible)
    <2>1. ExpectationTexts(e) =
            {h.text : h \in ToSet(headers)} \cup {s.text : s \in texts} \cup TextsAt(ExpectedSites(e))
      BY DEF ExpectationTexts
    <2> HIDE DEF headers, texts
    <2>2. (\A t \in ExpectationTexts(e) : Readable(t, visible)) <=>
            /\ \A h \in ToSet(headers) : Readable(h.text, visible)
            /\ \A s \in texts : Readable(s.text, visible)
            /\ \A t \in TextsAt(ExpectedSites(e)) : Readable(t, visible)
      BY <2>1
    <2> QED
      BY <2>2, TextsAreReadable
  <1>10. ExpectationIsSound(e) <=>
           /\ Singly(e.sections) /\ \A t \in ExpectationTexts(e) : WellFormed(t)
           /\ \A x \in ExpectedSites(e) : SiteIsSound(x)
           /\ AreHeaders(headers) /\ inRange
           /\ \A a \in AssertionsIn(e) : a.depth < MaxSemanticDepth /\ AreNames(FieldNames(a.tree))
           /\ \A f \in FieldsOf(e) : FieldIsSound(f)
    BY DEF ExpectationIsSound
  <1> HIDE DEF headers, texts, ofHeaders, ofSections, inRange
  <1> QED
    BY <1>5, <1>6, <1>7, <1>8, <1>9, <1>10, AssertionsDecide DEF ExpectationIsClean

RequestsAreClean(test, visible) == \A r \in ToSet(test.requests) : RequestIsClean(r, visible)
ExpectationsAreClean(test, visible) ==
  \A e \in ToSet(test.expectations) : ExpectationIsClean(e, visible)
CapturesAreNew(test, visible) ==
  ToSet(TestCaptures(test)) \cap visible = {} /\ ~ Duplicated(TestCaptures(test))

TestIsClean(test, visible) ==
  /\ test.name[1] # "" /\ Len(test.requests) = 1 /\ Len(test.expectations) = 1
  /\ RequestsAreClean(test, visible) /\ ExpectationsAreClean(test, visible)
  /\ CapturesAreNew(test, visible)

\* The members of a test.
LEMMA TestForms ==
  ASSUME NEW test \in TestTree
  PROVE  /\ test.requests \in Seq(RequestTree) /\ test.expectations \in Seq(ExpectationTree)
         /\ \A r \in ToSet(test.requests) : r \in RequestTree
         /\ \A e \in ToSet(test.expectations) : e \in ExpectationTree
  <1>1. test.requests \in Seq(RequestTree) /\ test.expectations \in Seq(ExpectationTree)
    BY DEF TestTree, RequestTree, ExpectationTree
  <1> QED
    BY <1>1 DEF ToSet

\* validate_test reports nothing exactly of clean tests.
LEMMA TestDecides ==
  ASSUME NEW test \in TestTree, NEW visible
  PROVE  TestErrors(test, visible) = {} <=> TestIsClean(test, visible)
  <1> DEFINE ofRequests == UNION {RequestErrors(r, visible) : r \in ToSet(test.requests)}
             ofExpectations == UNION {ExpectationErrors(e, visible) : e \in ToSet(test.expectations)}
             named == When(test.name[1] = "", "empty_name")
             counted == When(Len(test.requests) # 1 \/ Len(test.expectations) # 1, "count")
             captured == When(ToSet(TestCaptures(test)) \cap visible # {}
                                \/ Duplicated(TestCaptures(test)), "duplicate_variable")
  <1>1. ofRequests = {} <=> RequestsAreClean(test, visible)
    <2>1. ofRequests = {} <=> \A r \in ToSet(test.requests) : RequestErrors(r, visible) = {}
      OBVIOUS
    <2> QED
      BY <2>1, TestForms, RequestDecides DEF RequestsAreClean
  <1>2. ofExpectations = {} <=> ExpectationsAreClean(test, visible)
    <2>1. ofExpectations = {} <=> \A e \in ToSet(test.expectations) : ExpectationErrors(e, visible) = {}
      OBVIOUS
    <2> QED
      BY <2>1, TestForms, ExpectationDecides DEF ExpectationsAreClean
  <1>3. /\ named = {} <=> test.name[1] # ""
        /\ counted = {} <=> Len(test.requests) = 1 /\ Len(test.expectations) = 1
        /\ captured = {} <=> CapturesAreNew(test, visible)
    BY DEF When, CapturesAreNew
  <1>4. TestErrors(test, visible) = named \cup counted \cup ofRequests \cup ofExpectations \cup captured
    BY DEF TestErrors
  <1> HIDE DEF ofRequests, ofExpectations, named, counted, captured
  <1> QED
    BY <1>1, <1>2, <1>3, <1>4 DEF TestIsClean

\* The names that module Suites keeps of some texts.
LEMMA NamesAreRead ==
  ASSUME NEW texts, NEW visible
  PROVE  (\A n \in NamesIn(texts) : n.name \in visible) <=> Reads(texts, visible)
  <1> DEFINE fragments == {x \in UNION {ToSet(t) : t \in texts} : x.kind = "placeholder"}
             RefTo(f) == [name |-> f.name, whole |-> FALSE]
  <1>1. NamesIn(texts) = {RefTo(f) : f \in fragments}
    BY DEF NamesIn
  <1>2. \A f : f \in fragments <=> f.kind = "placeholder" /\ \E t \in texts : f \in ToSet(t)
    OBVIOUS
  <1>3. \A f : RefTo(f).name = f.name
    OBVIOUS
  <1> HIDE DEF fragments, RefTo
  <1>4. (\A n \in NamesIn(texts) : n.name \in visible) <=> \A f \in fragments : f.name \in visible
    BY <1>1, <1>3
  <1> QED
    BY <1>2, <1>4 DEF Reads

\* A test is clean in a scope if it is sound, and accepted by Suites there.
LEMMA CleanMeansAccepted ==
  ASSUME NEW test, NEW visible
  PROVE  TestIsClean(test, visible) <=>
           /\ TestIsSound(test)
           /\ \A r \in AbstractTest(test).request \cup AbstractTest(test).expect : r.name \in visible
           /\ CaptureNames(AbstractTest(test)) \cap visible = {}
           /\ CapturesAreDistinct(AbstractTest(test))
           /\ ~ AbstractTest(test).malformed
  <1> DEFINE requests == UNION {RequestTexts(r) : r \in ToSet(test.requests)}
             expectations == UNION {ExpectationTexts(e) : e \in ToSet(test.expectations)}
             captures == TestCaptures(test)
  <1>1. Reads(requests, visible) <=> \A r \in ToSet(test.requests) : Reads(RequestTexts(r), visible)
    BY DEF Reads
  <1>2. Reads(expectations, visible)
          <=> \A e \in ToSet(test.expectations) : Reads(ExpectationTexts(e), visible)
    BY DEF Reads
  <1>3. /\ AbstractTest(test).request = NamesIn(requests)
        /\ AbstractTest(test).expect = NamesIn(expectations)
        /\ AbstractTest(test).captures =
             [i \in DOMAIN captures |-> [name |-> captures[i], structured |-> FALSE]]
        /\ AbstractTest(test).malformed <=>
             \E e \in ToSet(test.expectations) : \E f \in FieldsOf(e) : f.nested # <<>> /\ f.type # "object"
    BY DEF AbstractTest
  <1>4. (\A r \in AbstractTest(test).request \cup AbstractTest(test).expect : r.name \in visible)
          <=> Reads(requests, visible) /\ Reads(expectations, visible)
    <2>1. (\A r \in AbstractTest(test).request \cup AbstractTest(test).expect : r.name \in visible)
            <=> /\ \A r \in NamesIn(requests) : r.name \in visible
                /\ \A r \in NamesIn(expectations) : r.name \in visible
      BY <1>3
    <2> HIDE DEF requests, expectations
    <2> QED
      BY <2>1, NamesAreRead
  <1>5. CaptureNames(AbstractTest(test)) = ToSet(captures)
    BY <1>3 DEF CaptureNames, ToSet
  <1>6. CapturesAreDistinct(AbstractTest(test)) <=> IsInjective(captures)
    BY <1>3 DEF CapturesAreDistinct, IsInjective
  <1> HIDE DEF requests, expectations
  <1> QED
    BY <1>1, <1>2, <1>3, <1>4, <1>5, <1>6
    DEF TestIsClean, TestIsSound, RequestsAreClean, RequestIsClean, ExpectationsAreClean,
        ExpectationIsClean, CapturesAreNew, Duplicated, IsInjective

-----------------------------------------------------------------------------
(***************************************************************************)
(* The walk: what was visited, and in which scope.                         *)
(***************************************************************************)
OneCore == \A b, c \in Cores(ast) : b = c
CapturedIn(ps) == UNION {ToSet(TestCaptures(TestAt(ast, q))) : q \in ps}
Visited == {q \in Positions(ast) : q[1] \notin todo /\ (q[1] = block => q[2] <= walked)}
Visible(p) == ScopeAt(Abstract(ast), p)

\* What is known in the walk whatever the number of cores.
WalkIsInOrder ==
  /\ todo \subseteq DOMAIN ast
  /\ walked \in Nat
  /\ block = 0 => todo = DOMAIN ast /\ walked = 0
  /\ block # 0 => block \in DOMAIN ast \ todo /\ walked <= Len(ast[block].tests)

\* A single core is walked first, and its captures are in every other scope.
ScopesAreStatic ==
  /\ block # 0 => Cores(ast) \cap todo = {}
  /\ withCore = Predefined \cup CapturedIn(Visited \cap CoreTests(ast))
  /\ block # 0 => scope = VisibleTo(block) \cup CapturedIn({q \in Visited : q[1] = block})

\* The errors are those of the blocks that were entered, and those that the
\* tests visited have in the scope of module Suites.
ErrorsAreStatic ==
  diagnostics = {} <=>
    /\ \A b \in DOMAIN ast \ todo : BlockErrors(ast[b]) = {}
    /\ \A q \in Visited : TestErrors(TestAt(ast, q), Visible(q)) = {}

Walking ==
  /\ WalkIsInOrder
  /\ OneCore => ScopesAreStatic /\ ErrorsAreStatic
  /\ ~ OneCore => diagnostics # {}

Starting ==
  /\ todo = {} /\ block = 0 /\ walked = 0
  /\ withCore = Predefined /\ diagnostics = {}

WalkInv ==
  /\ ast \in Trees
  /\ phase # "panic"
  /\ phase = "blocks" => Starting
  /\ phase = "tests" => Walking
  /\ phase = "refused" => ~ IsSoundSuite
  /\ phase \notin {"blocks", "tests", "refused"} => IsSoundSuite

\* The positions of a suite, and the tests there.
LEMMA SuiteForms ==
  ASSUME ast \in Trees
  PROVE  /\ DOMAIN ast = 1 .. Len(ast) /\ Len(ast) \in Nat
         /\ ast = <<>> <=> DOMAIN ast = {}
         /\ \A b \in DOMAIN ast : /\ ast[b].tests \in Seq(TestTree)
                                  /\ Len(ast[b].tests) \in Nat
                                  /\ DOMAIN ast[b].tests = 1 .. Len(ast[b].tests)
         /\ \A p \in Positions(ast) :
              /\ p[1] \in DOMAIN ast /\ p[2] \in 1 .. Len(ast[p[1]].tests) /\ p = <<p[1], p[2]>>
              /\ TestAt(ast, p) \in TestTree
         /\ \A b \in DOMAIN ast : \A i \in 1 .. Len(ast[b].tests) : <<b, i>> \in Positions(ast)
  <1> DEFINE B == {b \in [kind : {"core", "pipeline", "test"}, name : Spelled, tests : Seq(TestTree)] :
                     b.kind = "test" => Len(b.tests) = 1}
  <1>1. ast \in Seq(B)
    BY TreesAssumption DEF SuiteTree
  <1>2. \A b \in B : b.tests \in Seq(TestTree)
    OBVIOUS
  <1> HIDE DEF B
  <1>3. DOMAIN ast = 1 .. Len(ast) /\ Len(ast) \in Nat /\ \A b \in DOMAIN ast : ast[b] \in B
    BY <1>1
  <1>7. ast = <<>> <=> DOMAIN ast = {}
    <2>1. ast = <<>> <=> Len(ast) = 0
      BY <1>1, EmptySeq
    <2> QED
      BY <1>3, <2>1
  <1>4. \A b \in DOMAIN ast : /\ ast[b].tests \in Seq(TestTree)
                              /\ Len(ast[b].tests) \in Nat
                              /\ DOMAIN ast[b].tests = 1 .. Len(ast[b].tests)
    BY <1>2, <1>3
  <1>5. ASSUME NEW p \in Positions(ast)
        PROVE  /\ p[1] \in DOMAIN ast /\ p[2] \in 1 .. Len(ast[p[1]].tests) /\ p = <<p[1], p[2]>>
               /\ TestAt(ast, p) \in TestTree
    <2>1. PICK b \in DOMAIN ast : p \in {b} \X (1 .. Len(ast[b].tests))
      BY DEF Positions
    <2>2. p[1] = b /\ p[2] \in 1 .. Len(ast[b].tests) /\ p = <<p[1], p[2]>>
      BY <2>1
    <2>3. TestAt(ast, p) \in TestTree
      BY <1>4, <2>2 DEF TestAt
    <2> QED
      BY <2>2, <2>3
  <1>6. ASSUME NEW b \in DOMAIN ast, NEW i \in 1 .. Len(ast[b].tests)
        PROVE  <<b, i>> \in Positions(ast)
    BY DEF Positions
  <1> QED
    BY <1>3, <1>4, <1>5, <1>6, <1>7

\* What module Suites sees of a suite.
LEMMA AbstractForms ==
  ASSUME ast \in Trees
  PROVE  /\ DOMAIN Abstract(ast) = DOMAIN ast
         /\ \A b \in DOMAIN ast : /\ Abstract(ast)[b].kind = ast[b].kind
                                  /\ Abstract(ast)[b].tests = <<>> <=> ast[b].tests = <<>>
         /\ Positions(Abstract(ast)) = Positions(ast)
         /\ \A p \in Positions(ast) : TestAt(Abstract(ast), p) = AbstractTest(TestAt(ast, p))
  <1> DEFINE Tests(b) == [i \in DOMAIN ast[b].tests |-> AbstractTest(ast[b].tests[i])]
  <1>1. DOMAIN Abstract(ast) = DOMAIN ast
    BY DEF Abstract
  <1>2. \A b \in DOMAIN ast : Abstract(ast)[b].kind = ast[b].kind /\ Abstract(ast)[b].tests = Tests(b)
    BY DEF Abstract
  <1>3. ASSUME NEW b \in DOMAIN ast
        PROVE  Len(Tests(b)) = Len(ast[b].tests) /\ DOMAIN Tests(b) = 1 .. Len(ast[b].tests)
    <2>1. DOMAIN ast[b].tests = 1 .. Len(ast[b].tests) /\ Len(ast[b].tests) \in Nat
      BY SuiteForms
    <2> QED
      BY <2>1
  <1>4. ASSUME NEW b \in DOMAIN ast
        PROVE  Tests(b) = <<>> <=> ast[b].tests = <<>>
    <2>1. ast[b].tests = <<>> <=> Len(ast[b].tests) = 0
      BY SuiteForms, EmptySeq
    <2>2. Tests(b) = <<>> <=> Len(ast[b].tests) = 0
      <3>1. Len(ast[b].tests) = 0 => Tests(b) = <<>>
        BY <1>3
      <3>2. Tests(b) = <<>> => Len(Tests(b)) = 0
        BY EmptySeq
      <3> QED
        BY <1>3, <3>1, <3>2
    <2> QED
      BY <2>1, <2>2
  <1>5. ASSUME NEW p \in Positions(ast)
        PROVE  TestAt(Abstract(ast), p) = AbstractTest(TestAt(ast, p))
    <2>1. p[1] \in DOMAIN ast /\ p[2] \in DOMAIN ast[p[1]].tests
      BY SuiteForms
    <2> QED
      BY <1>2, <2>1 DEF TestAt
  <1> HIDE DEF Tests
  <1>6. Positions(Abstract(ast)) = Positions(ast)
    BY <1>1, <1>2, <1>3 DEF Positions
  <1> QED
    BY <1>1, <1>2, <1>4, <1>5, <1>6

\* The scope of a test in module Suites, in terms of the tree.
LEMMA StaticScope ==
  ASSUME ast \in Trees, NEW p \in Positions(ast)
  PROVE  Visible(p) = IF p[1] \in Cores(ast)
                      THEN Predefined \cup CapturedIn(Earlier(ast, p))
                      ELSE Predefined \cup CapturedIn(CoreTests(ast) \cup Earlier(ast, p))
  <1>1. \A q \in Positions(ast) :
           CaptureNames(TestAt(Abstract(ast), q)) = ToSet(TestCaptures(TestAt(ast, q)))
    <2>1. ASSUME NEW test
          PROVE  CaptureNames(AbstractTest(test)) = ToSet(TestCaptures(test))
      <3> DEFINE captures == TestCaptures(test)
      <3>1. AbstractTest(test).captures =
               [i \in DOMAIN captures |-> [name |-> captures[i], structured |-> FALSE]]
        BY DEF AbstractTest
      <3> HIDE DEF captures
      <3>2. CaptureNames(AbstractTest(test)) = ToSet(captures)
        BY <3>1 DEF CaptureNames, ToSet
      <3> QED
        BY <3>2 DEF captures
    <2> QED
      BY <2>1, AbstractForms
  <1>2. \A ps \in SUBSET Positions(ast) : Captured(Abstract(ast), ps) = CapturedIn(ps)
    BY <1>1 DEF Captured, CapturedIn
  <1>3. Earlier(Abstract(ast), p) = Earlier(ast, p) /\ Earlier(ast, p) \in SUBSET Positions(ast)
    BY AbstractForms DEF Earlier
  <1>4. \A q \in Positions(ast) : KindAt(Abstract(ast), q) = ast[q[1]].kind /\ q[1] \in DOMAIN ast
    BY AbstractForms, SuiteForms DEF KindAt
  <1>5. CoreTests(Abstract(ast)) = CoreTests(ast) /\ CoreTests(ast) \in SUBSET Positions(ast)
    BY <1>4, AbstractForms DEF CoreTests, KindAt
  <1>6. p[1] \in Cores(ast) <=> KindAt(Abstract(ast), p) = "core"
    BY <1>4 DEF Cores
  <1> QED
    BY <1>2, <1>3, <1>5, <1>6 DEF Visible, ScopeAt, ScopeOfCore

\* The tests of the cores.
LEMMA CoreForms ==
  ASSUME ast \in Trees
  PROVE  \A q : q \in CoreTests(ast) <=> q \in Positions(ast) /\ q[1] \in Cores(ast)
  BY SuiteForms DEF CoreTests, Cores, KindAt

\* A single core is the first one.
LEMMA OnlyCore ==
  ASSUME ast \in Trees, OneCore
  PROVE  FirstCore = Cores(ast)
  <1>1. \A b \in Cores(ast) : b \in Nat
    BY SuiteForms DEF Cores
  <1> QED
    BY <1>1 DEF FirstCore, OneCore

\* find_duplicate of core blocks.
LEMMA ManyCores ==
  ASSUME ast \in Trees
  PROVE  Cardinality(Cores(ast)) > 1 <=> ~ OneCore
  <1>1. IsFiniteSet(Cores(ast)) /\ Cardinality(Cores(ast)) \in Nat
    <2>1. Cores(ast) \subseteq 1 .. Len(ast)
      BY SuiteForms DEF Cores
    <2>2. IsFiniteSet(1 .. Len(ast))
      <3>1. 1 \in Int /\ Len(ast) \in Int
        BY SuiteForms
      <3> QED
        BY <3>1, FS_Interval
    <2> QED
      BY <2>1, <2>2, FS_Subset, FS_CardinalityType
  <1>2. CASE Cores(ast) = {}
    BY <1>2, FS_EmptySet DEF OneCore
  <1>3. CASE Cores(ast) # {}
    <2>1. PICK b : b \in Cores(ast)
      BY <1>3
    <2>2. OneCore <=> Cores(ast) = {b}
      BY <2>1 DEF OneCore
    <2>3. Cores(ast) = {b} <=> Cardinality(Cores(ast)) = 1
      <3>1. (\E x : Cores(ast) = {x}) <=> Cardinality(Cores(ast)) = 1
        BY <1>1, FS_Singleton
      <3> QED
        BY <2>1, <3>1
    <2>4. Cardinality(Cores(ast)) # 0
      BY <1>1, <1>3, FS_EmptySet
    <2> QED
      BY <1>1, <2>2, <2>3, <2>4
  <1> QED
    BY <1>2, <1>3

\* The walk starts with no test visited.
LEMMA FindCoresStarts ==
  ASSUME WalkInv, FindCores
  PROVE  WalkInv'
  <1>1. ast \in Trees /\ Starting
    BY DEF WalkInv, FindCores
  <1>2. /\ ast' = ast /\ block' = 0 /\ walked' = 0 /\ withCore' = Predefined /\ todo' = DOMAIN ast
        /\ phase' = "tests"
        /\ diagnostics' = When(Cardinality(Cores(ast)) > 1, "duplicate")
    BY <1>1 DEF FindCores, Starting
  <1>3. diagnostics' = {} <=> OneCore
    BY <1>1, <1>2, ManyCores DEF When
  <1>4. OneCore' <=> OneCore
    BY <1>2 DEF OneCore
  <1>5. Visited' = {}
    BY <1>1, <1>2, SuiteForms DEF Visited
  <1>6. WalkIsInOrder'
    BY <1>2 DEF WalkIsInOrder
  <1>7. ScopesAreStatic'
    BY <1>2, <1>5 DEF ScopesAreStatic, CapturedIn
  <1>8. OneCore => ErrorsAreStatic'
    BY <1>2, <1>3, <1>5 DEF ErrorsAreStatic
  <1>9. Walking'
    BY <1>3, <1>4, <1>6, <1>7, <1>8 DEF Walking
  <1> QED
    BY <1>1, <1>2, <1>9 DEF WalkInv

\* A walked block is visited, up to its last test.
LEMMA WalkedIsVisited ==
  ASSUME ast \in Trees, WalkIsInOrder, BlockIsWalked
  PROVE  \A q : q \in Visited <=> q \in Positions(ast) /\ q[1] \notin todo
  <1>1. ASSUME NEW q \in Positions(ast), q[1] = block
        PROVE  q[2] <= walked
    <2>1. block # 0
      BY <1>1, SuiteForms
    <2>2. walked = Len(ast[block].tests)
      BY <2>1 DEF BlockIsWalked
    <2> QED
      BY <1>1, <2>2, SuiteForms
  <1> QED
    BY <1>1 DEF Visited

\* The next block starts with the scope that module Suites gives it.
LEMMA EnterBlockKeeps ==
  ASSUME WalkInv, EnterBlock
  PROVE  WalkInv'
  <1>1. ast \in Trees /\ Walking /\ WalkIsInOrder /\ BlockIsWalked
    BY DEF WalkInv, EnterBlock, Walking
  <1>2. PICK b \in todo :
               /\ IsNext(b) /\ block' = b /\ todo' = todo \ {b} /\ scope' = VisibleTo(b)
               /\ diagnostics' = diagnostics \cup BlockErrors(ast[b])
    BY DEF EnterBlock
  <1>3. ast' = ast /\ walked' = 0 /\ withCore' = withCore /\ phase' = "tests"
    BY DEF EnterBlock
  <1>4. b \in DOMAIN ast /\ b # 0 /\ todo \subseteq DOMAIN ast
    BY <1>1, SuiteForms DEF WalkIsInOrder
  <1>5. WalkIsInOrder'
    BY <1>2, <1>3, <1>4, SuiteForms DEF WalkIsInOrder
  <1>6. Visited' = Visited
    <2>1. \A q : q \in Visited' <=>
             q \in Positions(ast) /\ q[1] \notin todo \ {b} /\ (q[1] = b => q[2] <= 0)
      BY <1>2, <1>3 DEF Visited
    <2>2. \A q \in Positions(ast) : ~ (q[2] <= 0)
      BY <1>1, SuiteForms
    <2> QED
      BY <1>1, <1>2, <2>1, <2>2, WalkedIsVisited
  <1>7. \A q \in Visited : q[1] # b
    BY <1>1, <1>2, WalkedIsVisited
  <1>8. OneCore' <=> OneCore
    BY <1>3 DEF OneCore
  <1>9. ASSUME OneCore
        PROVE  ScopesAreStatic'
    <2>1. Cores(ast) \cap (todo \ {b}) = {}
      <3>1. FirstCore = Cores(ast)
        BY <1>1, <1>9, OnlyCore
      <3>2. CASE b \in Cores(ast)
        BY <1>9, <3>2 DEF OneCore
      <3>3. CASE b \notin Cores(ast)
        BY <1>2, <3>1, <3>3 DEF IsNext
      <3> QED
        BY <3>2, <3>3
    <2>2. withCore = Predefined \cup CapturedIn(Visited \cap CoreTests(ast))
      BY <1>1, <1>9 DEF Walking, ScopesAreStatic
    <2>3. CapturedIn(Visited \cap CoreTests(ast))' = CapturedIn(Visited \cap CoreTests(ast))
      BY <1>3, <1>6 DEF CapturedIn
    <2>4. CapturedIn({q \in Visited : q[1] = block})' = {}
      BY <1>2, <1>6, <1>7 DEF CapturedIn
    <2>5. VisibleTo(block)' = VisibleTo(b)
      BY <1>2, <1>3 DEF VisibleTo
    <2> QED
      BY <1>2, <1>3, <2>1, <2>2, <2>3, <2>4, <2>5 DEF ScopesAreStatic
  <1>10. ASSUME OneCore
         PROVE  ErrorsAreStatic'
    <2>1. ErrorsAreStatic
      BY <1>1, <1>10 DEF Walking
    <2>2. DOMAIN ast' \ todo' = (DOMAIN ast \ todo) \cup {b}
      BY <1>2, <1>3, <1>4
    <2>3. \A q : Visible(q)' = Visible(q)
      BY <1>3 DEF Visible
    <2>4. \A c : BlockErrors(ast[c])' = BlockErrors(ast[c])
      BY <1>3
    <2>5. \A q : TestErrors(TestAt(ast, q), Visible(q))' = TestErrors(TestAt(ast, q), Visible(q))
      BY <1>3, <2>3
    <2> QED
      BY <1>2, <1>3, <1>6, <2>1, <2>2, <2>4, <2>5 DEF ErrorsAreStatic
  <1>11. ~ OneCore => diagnostics' # {}
    BY <1>1, <1>2 DEF Walking
  <1>12. Walking'
    BY <1>5, <1>8, <1>9, <1>10, <1>11 DEF Walking
  <1> QED
    BY <1>1, <1>3, <1>12 DEF WalkInv

\* The scope of the walk is the static one of the test that comes next.
LEMMA ScopeOfNext ==
  ASSUME ast \in Trees, WalkIsInOrder, OneCore, ScopesAreStatic, block # 0,
         NEW p \in Positions(ast), p = <<block, walked + 1>>
  PROVE  scope = Visible(p)
  <1>1. block \in DOMAIN ast /\ block \notin todo /\ walked \in Nat
    BY DEF WalkIsInOrder
  <1>2. {q \in Visited : q[1] = block} = Earlier(ast, p)
    <2>1. \A q \in Positions(ast) : q[2] <= walked <=> q[2] < walked + 1
      BY <1>1, SuiteForms
    <2> QED
      BY <1>1, <2>1 DEF Visited, Earlier
  <1>3. scope = VisibleTo(block) \cup CapturedIn(Earlier(ast, p))
    BY <1>2 DEF ScopesAreStatic
  <1>4. CASE block \in Cores(ast)
    <2>1. VisibleTo(block) = Predefined
      BY <1>4 DEF VisibleTo, Cores
    <2> QED
      BY <1>3, <1>4, <2>1, StaticScope
  <1>5. CASE block \notin Cores(ast)
    <2>1. VisibleTo(block) = withCore
      BY <1>1, <1>5 DEF VisibleTo, Cores
    <2>2. CoreTests(ast) \subseteq Visited
      <3>1. \A q \in CoreTests(ast) : q \in Positions(ast) /\ q[1] \in Cores(ast)
        BY CoreForms
      <3>2. \A q \in CoreTests(ast) : q[1] \notin todo /\ q[1] # block
        BY <1>5, <3>1 DEF ScopesAreStatic
      <3> QED
        BY <3>1, <3>2 DEF Visited
    <2>3. Visited \cap CoreTests(ast) = CoreTests(ast)
      BY <2>2
    <2>4. withCore = Predefined \cup CapturedIn(CoreTests(ast))
      BY <2>3 DEF ScopesAreStatic
    <2>5. CapturedIn(CoreTests(ast) \cup Earlier(ast, p))
            = CapturedIn(CoreTests(ast)) \cup CapturedIn(Earlier(ast, p))
      BY DEF CapturedIn
    <2> QED
      BY <1>3, <1>5, <2>1, <2>4, <2>5, StaticScope
  <1> QED
    BY <1>4, <1>5

\* A test is validated in the scope that module Suites gives it.
LEMMA ValidateTestKeeps ==
  ASSUME WalkInv, ValidateTest
  PROVE  WalkInv'
  <1> DEFINE p == <<block, walked + 1>>
             test == TestAt(ast, p)
             captured == ToSet(TestCaptures(test))
  <1>1. ast \in Trees /\ Walking /\ WalkIsInOrder /\ ~ BlockIsWalked
    BY DEF WalkInv, ValidateTest, Walking
  <1>2. /\ ast' = ast /\ todo' = todo /\ block' = block /\ phase' = "tests"
        /\ walked' = walked + 1
    BY DEF ValidateTest
  <1>3. /\ diagnostics' = diagnostics \cup TestErrors(test, scope)
        /\ scope' = scope \cup captured
        /\ withCore' = IF block \in FirstCore THEN scope' ELSE withCore
    <2>1. ast[block].tests[walked'] = test
      BY <1>2 DEF TestAt
    <2> HIDE DEF test
    <2> QED
      BY <2>1 DEF ValidateTest
  <1>4. /\ block # 0 /\ block \in DOMAIN ast /\ block \notin todo
        /\ walked \in Nat /\ walked + 1 <= Len(ast[block].tests)
    BY <1>1, SuiteForms DEF BlockIsWalked, WalkIsInOrder
  <1>5. p \in Positions(ast) /\ test \in TestTree
    <2>1. walked + 1 \in 1 .. Len(ast[block].tests)
      BY <1>1, <1>4, SuiteForms
    <2> QED
      BY <1>1, <1>4, <2>1, SuiteForms
  <1>6. WalkIsInOrder'
    BY <1>1, <1>2, <1>4 DEF WalkIsInOrder
  <1>7. Visited' = Visited \cup {p}
    <2>1. \A q : q \in Visited' <=>
             q \in Positions(ast) /\ q[1] \notin todo /\ (q[1] = block => q[2] <= walked + 1)
      BY <1>2 DEF Visited
    <2>2. \A q \in Positions(ast) :
             (q[1] = block => q[2] <= walked + 1) <=> (q[1] = block => q[2] <= walked) \/ q = p
      <3>1. \A q \in Positions(ast) : q[2] \in Nat /\ q = <<q[1], q[2]>>
        BY <1>1, SuiteForms
      <3> QED
        BY <1>4, <3>1
    <2> QED
      BY <1>4, <1>5, <2>1, <2>2 DEF Visited
  <1>8. OneCore' <=> OneCore
    BY <1>2 DEF OneCore
  <1>9. ASSUME NEW ps
        PROVE  CapturedIn(ps \cup {p}) = CapturedIn(ps) \cup captured
    BY DEF CapturedIn
  <1>10. \A ps : CapturedIn(ps)' = CapturedIn(ps)
    BY <1>2 DEF CapturedIn
  <1>11. ASSUME OneCore
         PROVE  scope = Visible(p)
    BY <1>1, <1>4, <1>5, <1>11, ScopeOfNext DEF Walking
  <1> HIDE DEF p, test, captured
  <1>12. p[1] = block
    BY DEF p
  <1>13. ASSUME OneCore
         PROVE  ScopesAreStatic'
    <2>1. ScopesAreStatic
      BY <1>1, <1>13 DEF Walking
    <2>2. FirstCore = Cores(ast)
      BY <1>1, <1>13, OnlyCore
    <2>3. {q \in Visited' : q[1] = block} = {q \in Visited : q[1] = block} \cup {p}
      BY <1>7, <1>12
    <2>4. CapturedIn({q \in Visited : q[1] = block})'
            = CapturedIn({q \in Visited : q[1] = block}) \cup captured
      <3>1. CapturedIn({q \in Visited : q[1] = block})' = CapturedIn({q \in Visited' : q[1] = block})
        BY <1>2 DEF CapturedIn
      <3> QED
        BY <1>9, <2>3, <3>1
    <2>5. CASE block \in Cores(ast)
      <3>1. VisibleTo(block)' = VisibleTo(block) /\ VisibleTo(block) = Predefined
        BY <1>2, <2>5 DEF VisibleTo, Cores
      <3>2. \A q \in Positions(ast) : q \in CoreTests(ast) <=> q[1] = block
        BY <1>1, <1>13, <2>5, CoreForms DEF OneCore
      <3>3. Visited' \cap CoreTests(ast) = {q \in Visited' : q[1] = block}
        BY <1>2, <3>2 DEF Visited
      <3>4. CapturedIn(Visited \cap CoreTests(ast))' = CapturedIn({q \in Visited : q[1] = block})'
        BY <1>2, <3>3 DEF CapturedIn
      <3>5. scope = Predefined \cup CapturedIn({q \in Visited : q[1] = block})
        BY <1>4, <2>1, <3>1 DEF ScopesAreStatic
      <3>6. withCore' = scope'
        BY <1>3, <2>2, <2>5
      <3> QED
        BY <1>2, <1>3, <2>1, <2>4, <3>1, <3>4, <3>5, <3>6 DEF ScopesAreStatic
    <2>6. CASE block \notin Cores(ast)
      <3>1. withCore' = withCore
        BY <1>3, <2>2, <2>6
      <3>2. VisibleTo(block)' = VisibleTo(block)
        BY <1>2, <3>1 DEF VisibleTo
      <3>3. p \notin CoreTests(ast)
        BY <1>1, <1>12, <2>6, CoreForms
      <3>4. Visited' \cap CoreTests(ast) = Visited \cap CoreTests(ast)
        BY <1>7, <3>3
      <3>5. CapturedIn(Visited \cap CoreTests(ast))' = CapturedIn(Visited \cap CoreTests(ast))
        BY <1>2, <3>4 DEF CapturedIn
      <3>6. scope = VisibleTo(block) \cup CapturedIn({q \in Visited : q[1] = block})
        BY <1>4, <2>1 DEF ScopesAreStatic
      <3> QED
        BY <1>2, <1>3, <2>1, <2>4, <3>1, <3>2, <3>5, <3>6 DEF ScopesAreStatic
    <2> QED
      BY <2>5, <2>6
  <1>14. ASSUME OneCore
         PROVE  ErrorsAreStatic'
    <2>1. ErrorsAreStatic
      BY <1>1, <1>14 DEF Walking
    <2>2. \A q : Visible(q)' = Visible(q)
      BY <1>2 DEF Visible
    <2>3. \A c : BlockErrors(ast[c])' = BlockErrors(ast[c])
      BY <1>2
    <2>4. \A q : TestErrors(TestAt(ast, q), Visible(q))' = TestErrors(TestAt(ast, q), Visible(q))
      BY <1>2, <2>2
    <2>5. TestErrors(test, scope) = TestErrors(TestAt(ast, p), Visible(p))
      BY <1>11, <1>14 DEF test
    <2> QED
      BY <1>2, <1>3, <1>7, <2>1, <2>3, <2>4, <2>5 DEF ErrorsAreStatic
  <1>15. ~ OneCore => diagnostics' # {}
    BY <1>1, <1>3 DEF Walking
  <1>16. Walking'
    BY <1>6, <1>8, <1>13, <1>14, <1>15 DEF Walking
  <1> QED
    BY <1>1, <1>2, <1>16 DEF WalkInv

\* What is reported of a block by itself.
LEMMA BlockDecides ==
  ASSUME NEW b
  PROVE  BlockErrors(b) = {} <=> (b.kind = "pipeline" => b.name[1] # "" /\ b.tests # <<>>)
  BY DEF BlockErrors, When

\* A suite is sound if it has one core, and no block and no test is in error.
LEMMA SoundSuites ==
  ASSUME ast \in Trees
  PROVE  IsSoundSuite <=>
           /\ OneCore
           /\ \A b \in DOMAIN ast : BlockErrors(ast[b]) = {}
           /\ \A p \in Positions(ast) : TestErrors(TestAt(ast, p), Visible(p)) = {}
  <1>1. \A p \in Positions(ast) :
           TestErrors(TestAt(ast, p), Visible(p)) = {} <=> TestIsClean(TestAt(ast, p), Visible(p))
    BY SuiteForms, TestDecides
  <1>2. ASSUME NEW p \in Positions(ast)
        PROVE  TestIsClean(TestAt(ast, p), Visible(p))
                 <=> TestIsSound(TestAt(ast, p)) /\ AcceptsTest(Abstract(ast), p)
    <2>1. TestAt(Abstract(ast), p) = AbstractTest(TestAt(ast, p))
      BY AbstractForms
    <2>2. AcceptsTest(Abstract(ast), p) <=>
            /\ \A r \in AbstractTest(TestAt(ast, p)).request \cup AbstractTest(TestAt(ast, p)).expect :
                  r.name \in Visible(p)
            /\ CaptureNames(AbstractTest(TestAt(ast, p))) \cap Visible(p) = {}
            /\ CapturesAreDistinct(AbstractTest(TestAt(ast, p)))
            /\ ~ AbstractTest(TestAt(ast, p)).malformed
      BY <2>1 DEF AcceptsTest, ReadsAreDefined, CapturesAreFresh, Visible
    <2> QED
      BY <2>2, CleanMeansAccepted
  <1>3. WellShaped(Abstract(ast)) <=>
          /\ ast # <<>> /\ OneCore
          /\ \A b \in DOMAIN ast : ast[b].kind = "pipeline" => ast[b].tests # <<>>
    <2>1. Cores(Abstract(ast)) = Cores(ast)
      BY AbstractForms DEF Cores
    <2>2. Abstract(ast) = <<>> <=> ast = <<>>
      <3>1. \A s : s = <<>> => DOMAIN s = {}
        OBVIOUS
      <3>2. DOMAIN ast = {} => Abstract(ast) = <<>>
        BY DEF Abstract
      <3> QED
        BY <3>1, <3>2, SuiteForms, AbstractForms
    <2>3. (\A b \in DOMAIN Abstract(ast) : Abstract(ast)[b].kind = "pipeline" => Abstract(ast)[b].tests # <<>>)
            <=> \A b \in DOMAIN ast : ast[b].kind = "pipeline" => ast[b].tests # <<>>
      BY AbstractForms
    <2> QED
      BY <2>1, <2>2, <2>3 DEF WellShaped, OneCore
  <1>4. Accepts(Abstract(ast)) <=>
          WellShaped(Abstract(ast)) /\ \A p \in Positions(ast) : AcceptsTest(Abstract(ast), p)
    BY AbstractForms DEF Accepts
  <1>5. (\A b \in DOMAIN ast : BlockErrors(ast[b]) = {}) <=>
          /\ \A b \in DOMAIN ast : ast[b].kind = "pipeline" => ast[b].name[1] # ""
          /\ \A b \in DOMAIN ast : ast[b].kind = "pipeline" => ast[b].tests # <<>>
    BY BlockDecides
  <1>6. ast = <<>> => DOMAIN ast = {} /\ Positions(ast) = {} /\ OneCore
    BY DEF Positions, OneCore, Cores
  <1> QED
    BY <1>1, <1>2, <1>3, <1>4, <1>5, <1>6 DEF IsSoundSuite

\* At its end, the walk has decided.
LEMMA WalkDecides ==
  ASSUME WalkInv, WalkIsOver
  PROVE  diagnostics = {} <=> IsSoundSuite
  <1>1. ast \in Trees /\ Walking /\ WalkIsInOrder /\ BlockIsWalked /\ todo = {}
    BY DEF WalkInv, WalkIsOver, Walking
  <1>2. Visited = Positions(ast)
    BY <1>1, WalkedIsVisited
  <1>3. DOMAIN ast \ todo = DOMAIN ast
    BY <1>1
  <1>4. CASE OneCore
    BY <1>1, <1>2, <1>3, <1>4, SoundSuites DEF Walking, ErrorsAreStatic
  <1>5. CASE ~ OneCore
    BY <1>1, <1>5, SoundSuites DEF Walking
  <1> QED
    BY <1>4, <1>5

\* The conversion of a sound test meets no `expect'.
LEMMA SoundTestsConvert ==
  ASSUME NEW test \in TestTree, TestIsSound(test)
  PROVE  ~ ConversionPanics(test)
  <1>1. test.requests # <<>> /\ test.expectations # <<>> /\ 1 \in DOMAIN test.expectations
    <2>1. Len(test.requests) = 1 /\ Len(test.expectations) = 1
      BY DEF TestIsSound
    <2> QED
      BY <2>1, TestForms, EmptySeq
  <1>2. ExpectationIsSound(test.expectations[1])
    BY <1>1 DEF TestIsSound, ToSet
  <1>3. \A s \in ToSet(test.expectations[1].sections) : s.of = "status" => s.status \in U16
    <2>1. \A s \in ToSet(test.expectations[1].sections) : s.of = "status" => s.status \in 100 .. 599
      BY <1>2 DEF ExpectationIsSound
    <2>2. \A n \in 100 .. 599 : n \in U16
      BY DEF U16
    <2> QED
      BY <2>1, <2>2
  <1>4. \A f \in FieldsOf(test.expectations[1]) : FieldIsSound(f)
    BY <1>2 DEF ExpectationIsSound
  <1>5. \A f \in FieldsOf(test.expectations[1]) :
           /\ ~ (f.type = "none" /\ f.expected = <<>> /\ f.nested = <<>>)
           /\ \A c \in ToSet(f.capture) : c \in Names
    <2>1. <<>> \o <<>> = <<>>
      BY EmptySeq, ConcatEmptySeq
    <2> QED
      BY <1>4, <2>1 DEF FieldIsSound
  <1>6. ~ \E s \in ToSet(test.expectations[1].sections) : s.of = "status" /\ s.status \notin U16
    BY <1>3
  <1>7. ~ \E f \in FieldsOf(test.expectations[1]) :
             \/ f.type = "none" /\ f.expected = <<>> /\ f.nested = <<>>
             \/ \E c \in ToSet(f.capture) : c \notin Names
    BY <1>5
  <1> QED
    BY <1>1, <1>6, <1>7 DEF ConversionPanics

\* Whether a suite is sound depends on its tree alone.
LEMMA SoundnessStays ==
  ASSUME UNCHANGED ast
  PROVE  IsSoundSuite' <=> IsSoundSuite
  BY DEF IsSoundSuite

\* The resolution goes from a location to a later one, or to its end.
LEMMA PhasesOfResolution ==
  ASSUME ResolutionNext
  PROVE  /\ phase \in {"path", "headers", "query", "body", "expected_headers", "expected_body"}
         /\ phase' \in {"headers", "query", "body", "expected_headers", "expected_body", "done"}
  <1>1. \A r : Settle(r) /\ (\E i \in 1 .. 6 : phase = Locations[i]) =>
           phase' \in {"headers", "query", "body", "expected_headers", "expected_body", "done"}
    <2> SUFFICES ASSUME NEW r, Settle(r), NEW i \in 1 .. 6, phase = Locations[i]
                 PROVE  phase' \in {"headers", "query", "body", "expected_headers",
                                    "expected_body", "done"}
      OBVIOUS
    <2>1. \/ phase' = "done"
          \/ i # 6 /\ phase' = Locations[i + 1]
      BY LocationsInOrder DEF Settle
    <2> QED
      BY <2>1 DEF Locations
  <1>2. phase \in {"path", "headers", "query", "body", "expected_headers", "expected_body"}
    BY DEF ResolutionNext, ResolvePath, ResolveHeaders, ResolveQuery, ResolveRequestBody,
                ResolveExpectedHeaders, ResolveBodyAssertion
  <1>3. \E r : Settle(r)
    BY DEF ResolutionNext, ResolvePath, ResolveHeaders, ResolveQuery, ResolveRequestBody,
                ResolveExpectedHeaders, ResolveBodyAssertion
  <1>4. \E i \in 1 .. 6 : phase = Locations[i]
    <2>1. /\ Locations[1] = "path" /\ Locations[2] = "headers" /\ Locations[3] = "query"
          /\ Locations[4] = "body" /\ Locations[5] = "expected_headers"
          /\ Locations[6] = "expected_body"
      BY DEF Locations
    <2> QED
      BY <1>2, <2>1
  <1> QED
    BY <1>1, <1>2, <1>3, <1>4

\* Sound suites are converted, the others refused.
LEMMA WalkSteps == WalkInv /\ [SemanticsNext]_<<semanticVars, resolutionVars>> => WalkInv'
  <1> SUFFICES ASSUME WalkInv, [SemanticsNext]_<<semanticVars, resolutionVars>>
               PROVE  WalkInv'
    OBVIOUS
  <1>1. CASE FindCores
    BY <1>1, FindCoresStarts
  <1>2. CASE EnterBlock
    BY <1>2, EnterBlockKeeps
  <1>3. CASE ValidateTest
    BY <1>3, ValidateTestKeeps
  <1>4. CASE Refuse
    <2>1. ast' = ast /\ phase' = "refused" /\ ~ IsSoundSuite
      BY <1>4, WalkDecides DEF Refuse, semanticVars
    <2> QED
      BY <2>1, SoundnessStays DEF WalkInv
  <1>5. CASE Convert
    <2>1. ast' = ast /\ ast \in Trees /\ IsSoundSuite
      BY <1>5, WalkDecides DEF Convert, semanticVars, WalkInv
    <2>2. \A p \in Positions(ast) : ~ ConversionPanics(TestAt(ast, p))
      BY <2>1, SuiteForms, SoundTestsConvert DEF IsSoundSuite
    <2>3. phase' = "converted"
      BY <1>5, <2>2 DEF Convert
    <2> QED
      BY <2>1, <2>3, SoundnessStays DEF WalkInv
  <1>6. CASE RunTest
    <2>1. ast' = ast /\ phase = "converted" /\ phase' = "path"
      BY <1>6 DEF RunTest, semanticVars
    <2> QED
      BY <2>1, SoundnessStays DEF WalkInv
  <1>7. CASE ResolutionNext /\ UNCHANGED semanticVars
    <2>1. ast' = ast
      BY <1>7 DEF semanticVars
    <2>2. /\ phase \in {"path", "headers", "query", "body", "expected_headers", "expected_body"}
          /\ phase' \in {"headers", "query", "body", "expected_headers", "expected_body", "done"}
      BY <1>7, PhasesOfResolution
    <2> QED
      BY <2>1, <2>2, SoundnessStays DEF WalkInv
  <1>8. CASE UNCHANGED <<semanticVars, resolutionVars>>
    <2>1. /\ ast' = ast /\ todo' = todo /\ block' = block /\ walked' = walked /\ scope' = scope
          /\ withCore' = withCore /\ diagnostics' = diagnostics /\ phase' = phase
      BY <1>8 DEF semanticVars, resolutionVars
    <2>2. (Starting' <=> Starting) /\ (OneCore' <=> OneCore)
      BY <2>1 DEF Starting, OneCore
    <2>3. WalkIsInOrder' <=> WalkIsInOrder
      BY <2>1 DEF WalkIsInOrder
    <2>4. ScopesAreStatic' <=> ScopesAreStatic
      BY <2>1 DEF ScopesAreStatic, CapturedIn, Visited, VisibleTo
    <2>5. ErrorsAreStatic' <=> ErrorsAreStatic
      BY <2>1 DEF ErrorsAreStatic, Visited, Visible
    <2>6. Walking' <=> Walking
      BY <2>1, <2>2, <2>3, <2>4, <2>5 DEF Walking
    <2> QED
      BY <2>1, <2>2, <2>6, SoundnessStays DEF WalkInv
  <1> QED
    BY <1>1, <1>2, <1>3, <1>4, <1>5, <1>6, <1>7, <1>8 DEF SemanticsNext

\* Before the walk.
LEMMA WalkStarts == SemanticsInit => WalkInv
  BY DEF SemanticsInit, WalkInv, Starting

\* validate_and_convert accepts exactly the sound suites: the walk, which
\* carries scopes from test to test and goes on after an error, finds none
\* exactly if Suites accepts the suite and every test is sound by itself.
THEOREM ValidatorDecides == SemanticsSpec => []AcceptedExactly
  <1>1. SemanticsInit => WalkInv
    BY WalkStarts
  <1>2. WalkInv /\ [SemanticsNext]_<<semanticVars, resolutionVars>> => WalkInv'
    BY WalkSteps
  <1>3. WalkInv => AcceptedExactly
    BY DEF WalkInv, AcceptedExactly
  <1> QED
    BY <1>1, <1>2, <1>3, PTL DEF SemanticsSpec

-----------------------------------------------------------------------------
(***************************************************************************)
(* The conversion: its recursive definitions.                              *)
(***************************************************************************)
\* The conversion of values.
ConvertStep(n, prev) ==
  [value \in ValueTreeUpTo[n] |->
     CASE value.kind = "array" -> List([i \in DOMAIN value.items |-> prev[value.items[i]]])
       [] value.kind = "object" ->
            List([i \in DOMAIN AsMap(value.entries) |-> prev[AsMap(value.entries)[i].value]])
       [] value.kind = "scalar" -> Plain("scalar")
       [] OTHER -> value]

IsConvert(f, m) == f = [n \in 0 .. m |-> ConvertStep(n, f[n - 1])]

\* At height 0 it has no recursive call.
LEMMA ConvertBase == \A p, q : ConvertStep(0, p) = ConvertStep(0, q)
  <1>1. 0 \in 0 .. MaxHeight /\ 0 - 1 \notin 0 .. MaxHeight
    BY LimitsArePositive
  <1>2. \A value \in ValueTreeUpTo[0] : value.kind \notin {"array", "object"}
    BY <1>1, TreeForms
  <1>3. \A p : ConvertStep(0, p) =
           [value \in ValueTreeUpTo[0] |-> IF value.kind = "scalar" THEN Plain("scalar") ELSE value]
    BY <1>2 DEF ConvertStep
  <1> QED
    BY <1>3

\* The recursive definition of ConvertUpTo has a solution.
LEMMA ConvertExists == \E f : IsConvert(f, MaxHeight)
  <1> DEFINE Bad == {m \in 0 .. MaxHeight : ~ \E f : IsConvert(f, m)}
  <1>1. ASSUME NEW m \in Bad, \A k \in Bad : m <= k
        PROVE  FALSE
    <2>1. m # 0
      <3>1. IsConvert([n \in 0 .. 0 |-> ConvertStep(0, 0)], 0)
        BY ConvertBase DEF IsConvert
      <3> QED
        BY <1>1, <3>1
    <2>2. PICK f : IsConvert(f, m - 1)
      <3>1. m - 1 \in 0 .. MaxHeight /\ ~ (m <= m - 1)
        BY <2>1, LimitsArePositive
      <3> QED
        BY <1>1, <3>1
    <2> DEFINE longer == [n \in 0 .. m |-> IF n = m THEN ConvertStep(m, f[m - 1]) ELSE f[n]]
    <2>3. ASSUME NEW n \in 0 .. m
          PROVE  longer[n] = ConvertStep(n, longer[n - 1])
      <3>1. CASE n = m
        BY <2>1, <3>1
      <3>2. CASE n # m
        <4>1. n \in 0 .. m - 1 /\ longer[n] = f[n]
          BY <3>2
        <4>2. f[n] = ConvertStep(n, f[n - 1])
          BY <2>2, <4>1 DEF IsConvert
        <4>3. n # 0 => longer[n - 1] = f[n - 1]
          BY <3>2
        <4> QED
          BY <4>1, <4>2, <4>3, ConvertBase
      <3> QED
        BY <3>1, <3>2
    <2>4. IsConvert(longer, m)
      BY <2>3 DEF IsConvert
    <2> QED
      BY <1>1, <2>4
  <1>2. Bad \in SUBSET Nat
    BY LimitsArePositive
  <1>3. Bad = {}
    BY <1>1, <1>2, LeastNumber
  <1> QED
    BY <1>3, LimitsArePositive

\* What ConvertUpTo is at each height.
LEMMA ConvertEquation ==
  \A n \in 0 .. MaxHeight : ConvertUpTo[n] = ConvertStep(n, ConvertUpTo[n - 1])
  <1>1. IsConvert(ConvertUpTo, MaxHeight)
    BY ConvertExists DEF IsConvert, ConvertUpTo, ConvertStep
  <1> QED
    BY <1>1 DEF IsConvert

\* The fields of an assertion that are converted are fields of it.
LEMMA NamedFieldsForms ==
  ASSUME NEW n \in 0 .. MaxHeight, NEW a \in AssertionTreeUpTo[n]
  PROVE  /\ DOMAIN NamedFields(a) = 1 .. Len(NamedFields(a)) /\ Len(NamedFields(a)) \in Nat
         /\ \A i \in DOMAIN NamedFields(a) : NamedFields(a)[i].field \in ToSet(a.fields)
  <1> DEFINE E == [key : {f.name : f \in ToSet(a.fields)}, field : ToSet(a.fields)]
             entries == [i \in DOMAIN a.fields |-> [key |-> a.fields[i].name, field |-> a.fields[i]]]
  <1>1. DOMAIN a.fields = 1 .. Len(a.fields) /\ Len(a.fields) \in Nat
    BY AssertionForms
  <1>2. \A i \in 1 .. Len(a.fields) : a.fields[i] \in ToSet(a.fields)
    BY <1>1 DEF ToSet
  <1>3. entries \in [1 .. Len(a.fields) -> E]
    BY <1>1, <1>2
  <1>4. \A e \in E : e.field \in ToSet(a.fields)
    OBVIOUS
  <1>5. NamedFields(a) = AsMap(entries)
    BY DEF NamedFields
  <1> HIDE DEF E, entries
  <1>6. entries \in Seq(E)
    BY <1>1, <1>3, SeqDef
  <1>7. AsMap(entries) \in Seq(E)
    BY <1>6, MapOfEntries
  <1> QED
    BY <1>4, <1>5, <1>7

\* The conversion of assertions.
ConvertedField(f, prev) ==
  [expected |-> [i \in DOMAIN f.expected |-> ConvertValue(f.expected[i])],
   nested |-> [i \in DOMAIN f.nested |-> prev[f.nested[i]]]]

ConvertFieldsStep(n, prev) ==
  [assertion \in AssertionTreeUpTo[n] |->
     [i \in DOMAIN NamedFields(assertion) |-> ConvertedField(NamedFields(assertion)[i].field, prev)]]

IsConvertFields(f, m) == f = [n \in 0 .. m |-> ConvertFieldsStep(n, f[n - 1])]

\* At height 0 it has no recursive call.
LEMMA ConvertFieldsBase == \A p, q : ConvertFieldsStep(0, p) = ConvertFieldsStep(0, q)
  <1> SUFFICES ASSUME NEW p, NEW q
               PROVE  ConvertFieldsStep(0, p) = ConvertFieldsStep(0, q)
    OBVIOUS
  <1>1. 0 \in 0 .. MaxHeight /\ 0 - 1 \notin 0 .. MaxHeight
    BY LimitsArePositive
  <1>2. ASSUME NEW a \in AssertionTreeUpTo[0], NEW i \in DOMAIN NamedFields(a)
        PROVE  ConvertedField(NamedFields(a)[i].field, p) = ConvertedField(NamedFields(a)[i].field, q)
    <2>1. NamedFields(a)[i].field \in ToSet(a.fields)
      BY <1>1, NamedFieldsForms
    <2>2. NamedFields(a)[i].field.nested = <<>>
      BY <1>1, <2>1, AssertionForms
    <2>3. DOMAIN NamedFields(a)[i].field.nested = {}
      BY <2>2
    <2> QED
      BY <2>3 DEF ConvertedField
  <1>3. ASSUME NEW a \in AssertionTreeUpTo[0]
        PROVE  [i \in DOMAIN NamedFields(a) |-> ConvertedField(NamedFields(a)[i].field, p)]
                 = [i \in DOMAIN NamedFields(a) |-> ConvertedField(NamedFields(a)[i].field, q)]
    BY <1>2
  <1> QED
    BY <1>3 DEF ConvertFieldsStep

\* The recursive definition of ConvertAssertionUpTo has a solution.
LEMMA ConvertFieldsExists == \E f : IsConvertFields(f, MaxHeight)
  <1> DEFINE Bad == {m \in 0 .. MaxHeight : ~ \E f : IsConvertFields(f, m)}
  <1>1. ASSUME NEW m \in Bad, \A k \in Bad : m <= k
        PROVE  FALSE
    <2>1. m # 0
      <3>1. IsConvertFields([n \in 0 .. 0 |-> ConvertFieldsStep(0, 0)], 0)
        BY ConvertFieldsBase DEF IsConvertFields
      <3> QED
        BY <1>1, <3>1
    <2>2. PICK f : IsConvertFields(f, m - 1)
      <3>1. m - 1 \in 0 .. MaxHeight /\ ~ (m <= m - 1)
        BY <2>1, LimitsArePositive
      <3> QED
        BY <1>1, <3>1
    <2> DEFINE longer == [n \in 0 .. m |-> IF n = m THEN ConvertFieldsStep(m, f[m - 1]) ELSE f[n]]
    <2>3. ASSUME NEW n \in 0 .. m
          PROVE  longer[n] = ConvertFieldsStep(n, longer[n - 1])
      <3>1. CASE n = m
        BY <2>1, <3>1
      <3>2. CASE n # m
        <4>1. n \in 0 .. m - 1 /\ longer[n] = f[n]
          BY <3>2
        <4>2. f[n] = ConvertFieldsStep(n, f[n - 1])
          BY <2>2, <4>1 DEF IsConvertFields
        <4>3. n # 0 => longer[n - 1] = f[n - 1]
          BY <3>2
        <4> QED
          BY <4>1, <4>2, <4>3, ConvertFieldsBase
      <3> QED
        BY <3>1, <3>2
    <2>4. IsConvertFields(longer, m)
      BY <2>3 DEF IsConvertFields
    <2> QED
      BY <1>1, <2>4
  <1>2. Bad \in SUBSET Nat
    BY LimitsArePositive
  <1>3. Bad = {}
    BY <1>1, <1>2, LeastNumber
  <1> QED
    BY <1>3, LimitsArePositive

\* What ConvertAssertionUpTo is at each height.
LEMMA ConvertFieldsEquation ==
  \A n \in 0 .. MaxHeight : ConvertAssertionUpTo[n] = ConvertFieldsStep(n, ConvertAssertionUpTo[n - 1])
  <1>1. IsConvertFields(ConvertAssertionUpTo, MaxHeight)
    BY ConvertFieldsExists DEF IsConvertFields, ConvertAssertionUpTo, ConvertFieldsStep, ConvertedField
  <1> QED
    BY <1>1 DEF IsConvertFields

-----------------------------------------------------------------------------
(***************************************************************************)
(* The conversion: the nodes it makes of clean sites.                      *)
(***************************************************************************)
Tame(node) == SourceNesting(node) \in 0 .. MaxSemanticDepth /\ ~ Ill(node)

AreClean(sites) == \A s \in sites : Clean(s, DOMAIN store)
AreTame(nodes) == \A x \in nodes : Tame(x)

\* A readable text is a tame node.
LEMMA TextIsTame ==
  ASSUME NEW n \in 0 .. MaxHeight, NEW v \in TextValue, NEW whole \in BOOLEAN,
         NEW depth \in 0 .. MaxSemanticDepth, Readable(v.text, DOMAIN store)
  PROVE  v \in ValueUpTo[n] /\ AreTame(NodesUpTo[n][NodeAt(v, whole, depth)])
  <1> DEFINE node == NodeAt(v, whole, depth)
  <1>1. v \in ValueUpTo[n]
    BY ValuesEquation DEF ValuesStep
  <1>2. depth \in Nat /\ depth <= MaxSemanticDepth
    BY SemanticDepthAssumption
  <1>3. v.kind = "text"
    BY DEF TextValue
  <1>4. node \in Node(n) /\ node.value = v /\ node.depth = depth
    BY <1>1, <1>2 DEF NodeAt, Node
  <1>5. NodesUpTo[n][node] = {node}
    BY <1>3, <1>4, NodesUnfold
  <1>6. SourceNesting(node) \in 0 .. MaxSemanticDepth
    BY <1>2, <1>3, <1>4, SemanticDepthAssumption DEF SourceNesting
  <1>7. \A i \in DOMAIN v.text : ~ NotBound(v.text[i])
    BY DEF Readable, WellFormed, IsMalformed, NotBound, ToSet
  <1>8. Tame(node)
    BY <1>3, <1>4, <1>6, <1>7 DEF Tame, Ill
  <1> QED
    BY <1>1, <1>5, <1>8 DEF AreTame

\* A scalar is a tame node.
LEMMA ScalarIsTame ==
  ASSUME NEW n \in 0 .. MaxHeight, NEW whole \in BOOLEAN, NEW depth \in 0 .. MaxSemanticDepth
  PROVE  /\ Plain("scalar") \in ValueUpTo[n] /\ Tame(NodeAt(Plain("scalar"), whole, depth))
         /\ AreTame(NodesUpTo[n][NodeAt(Plain("scalar"), whole, depth)])
  <1> DEFINE node == NodeAt(Plain("scalar"), whole, depth)
  <1>1. Plain("scalar") \in [kind : {"scalar", "infinite"}] /\ Plain("scalar").kind = "scalar"
    BY DEF Plain
  <1>2. Plain("scalar") \in ValueUpTo[n]
    BY <1>1, ValuesEquation DEF ValuesStep
  <1>3. depth \in Nat /\ depth <= MaxSemanticDepth
    BY SemanticDepthAssumption
  <1>4. node \in Node(n) /\ node.value.kind = "scalar" /\ node.depth = depth
    BY <1>1, <1>2, <1>3 DEF NodeAt, Node
  <1>5. NodesUpTo[n][node] = {node}
    BY <1>4, NodesUnfold
  <1>6. Tame(node)
    BY <1>3, <1>4, SemanticDepthAssumption DEF Tame, Ill, SourceNesting
  <1> QED
    BY <1>2, <1>5, <1>6 DEF AreTame

ConvertsTamely(n) ==
  \A v \in ValueTreeUpTo[n] :
     /\ ConvertUpTo[n][v] \in ValueUpTo[n]
     /\ \A whole \in BOOLEAN : \A depth \in 0 .. MaxSemanticDepth :
          AreClean(ValueSitesUpTo[n][At(v, depth)])
            => AreTame(NodesUpTo[n][NodeAt(ConvertUpTo[n][v], whole, depth)])

\* A list is tame if it is made of the children of a clean site.
LEMMA ListIsTame ==
  ASSUME NEW n \in 0 .. MaxHeight, NEW v \in ValueTreeUpTo[n], v.kind \in {"array", "object"},
         n - 1 \in 0 .. MaxHeight, ConvertsTamely(n - 1),
         NEW k \in Nat, NEW items, DOMAIN items = 1 .. k,
         NEW c, \A i \in 1 .. k : c[i] \in Children(v) /\ items[i] = ConvertUpTo[n - 1][c[i]],
         items \in Seq({items[i] : i \in 1 .. k})
  PROVE  /\ List(items) \in ValueUpTo[n]
         /\ \A whole \in BOOLEAN : \A depth \in 0 .. MaxSemanticDepth :
              AreClean(ValueSitesUpTo[n][At(v, depth)])
                => AreTame(NodesUpTo[n][NodeAt(List(items), whole, depth)])
  <1>1. \A i \in 1 .. k : c[i] \in ValueTreeUpTo[n - 1] /\ items[i] \in ValueUpTo[n - 1]
    BY ChildrenAreLower DEF ConvertsTamely
  <1>2. items \in Seq(ValueUpTo[n - 1])
    BY <1>1, SeqMonotonic
  <1>3. List(items) \in ValueUpTo[n] /\ List(items).kind = "list" /\ List(items).items = items
    <2> DEFINE S == Seq(ValueUpTo[n - 1])
    <2>0. n # 0
      BY LimitsArePositive
    <2>1. ValueUpTo[n] = TextValue \cup [kind : {"scalar", "infinite"}] \cup [kind : {"list"}, items : S]
      BY <2>0, ValuesEquation DEF ValuesStep
    <2>2. items \in S
      BY <1>2
    <2> HIDE DEF S
    <2>3. List(items) \in [kind : {"list"}, items : S]
      BY <2>2 DEF List
    <2> QED
      BY <2>1, <2>3 DEF List
  <1>4. ASSUME NEW whole \in BOOLEAN, NEW depth \in 0 .. MaxSemanticDepth,
               AreClean(ValueSitesUpTo[n][At(v, depth)])
        PROVE  AreTame(NodesUpTo[n][NodeAt(List(items), whole, depth)])
    <2> DEFINE node == NodeAt(List(items), whole, depth)
    <2>1. depth \in Nat /\ At(v, depth) \in ValueSite(n)
          /\ At(v, depth).tree = v /\ At(v, depth).depth = depth
      BY SemanticDepthAssumption DEF At, ValueSite
    <2>2. At(v, depth) \in ValueSitesUpTo[n][At(v, depth)]
      BY <2>1, SitesUnfold
    <2>3. depth < MaxSemanticDepth
      BY <1>4, <2>1, <2>2 DEF AreClean, Clean, SiteIsSound
    <2>4. node \in Node(n) /\ node.value = List(items) /\ node.depth = depth /\ node.whole = whole
      BY <1>3, <2>1 DEF NodeAt, Node
    <2>5. Tame(node)
      BY <1>3, <2>1, <2>3, <2>4, SemanticDepthAssumption DEF Tame, Ill, SourceNesting
    <2>6. \A i \in 1 .. k : Item(node, i) = NodeAt(items[i], whole, depth + 1)
      BY <1>3, <2>4 DEF Item
    <2>7. ASSUME NEW i \in 1 .. k
          PROVE  AreTame(NodesUpTo[n - 1][Item(node, i)])
      <3>1. \A s \in ValueSitesUpTo[n - 1][At(c[i], depth + 1)] : s \in ValueSitesUpTo[n][At(v, depth)]
        BY <2>1, SitesUnfold
      <3>2. AreClean(ValueSitesUpTo[n - 1][At(c[i], depth + 1)])
        BY <1>4, <3>1 DEF AreClean
      <3>3. depth + 1 \in 0 .. MaxSemanticDepth
        BY <2>1, <2>3, SemanticDepthAssumption
      <3>4. AreTame(NodesUpTo[n - 1][NodeAt(items[i], whole, depth + 1)])
        BY <1>1, <3>2, <3>3 DEF ConvertsTamely
      <3> QED
        BY <2>6, <3>4
    <2>8. \A x \in NodesUpTo[n][node] : x = node \/ \E i \in 1 .. k : x \in NodesUpTo[n - 1][Item(node, i)]
      BY <1>3, <2>4, NodesUnfold
    <2> HIDE DEF node
    <2>9. AreTame(NodesUpTo[n][node])
      BY <2>5, <2>7, <2>8 DEF AreTame
    <2> QED
      BY <2>9 DEF node
  <1> QED
    BY <1>3, <1>4

\* convert_value, one level.
LEMMA ConvertStepIsTame ==
  ASSUME NEW n \in 0 .. MaxHeight, n # 0 => ConvertsTamely(n - 1)
  PROVE  ConvertsTamely(n)
  <1> SUFFICES ASSUME NEW v \in ValueTreeUpTo[n]
               PROVE  /\ ConvertUpTo[n][v] \in ValueUpTo[n]
                      /\ \A whole \in BOOLEAN : \A depth \in 0 .. MaxSemanticDepth :
                           AreClean(ValueSitesUpTo[n][At(v, depth)])
                             => AreTame(NodesUpTo[n][NodeAt(ConvertUpTo[n][v], whole, depth)])
    BY DEF ConvertsTamely
  <1>1. ConvertUpTo[n][v] = ConvertStep(n, ConvertUpTo[n - 1])[v]
    BY ConvertEquation
  <1>2. CASE v.kind = "text"
    <2>1. ConvertUpTo[n][v] = v
      BY <1>1, <1>2 DEF ConvertStep
    <2>2. v \in TextValue
      BY <1>2, TreeForms
    <2>3. v \in ValueUpTo[n]
      BY <2>2, ValuesEquation DEF ValuesStep
    <2>4. ASSUME NEW whole \in BOOLEAN, NEW depth \in 0 .. MaxSemanticDepth,
                 AreClean(ValueSitesUpTo[n][At(v, depth)])
          PROVE  AreTame(NodesUpTo[n][NodeAt(v, whole, depth)])
      <3>1. At(v, depth) \in ValueSite(n) /\ At(v, depth).tree = v
        BY SemanticDepthAssumption DEF At, ValueSite
      <3>2. At(v, depth) \in ValueSitesUpTo[n][At(v, depth)]
        BY <3>1, SitesUnfold
      <3>3. Readable(v.text, DOMAIN store)
        BY <1>2, <2>4, <3>1, <3>2 DEF AreClean, Clean
      <3> QED
        BY <2>2, <3>3, TextIsTame
    <2> QED
      BY <2>1, <2>3, <2>4
  <1>3. CASE v.kind = "scalar"
    <2>1. ConvertUpTo[n][v] = Plain("scalar")
      BY <1>1, <1>3 DEF ConvertStep
    <2>2. /\ Plain("scalar") \in ValueUpTo[n]
          /\ \A whole \in BOOLEAN : \A depth \in 0 .. MaxSemanticDepth :
               AreTame(NodesUpTo[n][NodeAt(Plain("scalar"), whole, depth)])
      <3>1. ASSUME NEW whole \in BOOLEAN, NEW depth \in 0 .. MaxSemanticDepth
            PROVE  AreTame(NodesUpTo[n][NodeAt(Plain("scalar"), whole, depth)])
        BY ScalarIsTame
      <3>2. 0 \in 0 .. MaxSemanticDepth
        BY SemanticDepthAssumption
      <3>3. Plain("scalar") \in ValueUpTo[n]
        BY <3>2, ScalarIsTame
      <3> QED
        BY <3>1, <3>3
    <2> QED
      BY <2>1, <2>2
  <1>4. CASE v.kind = "array"
    <2> DEFINE items == [i \in DOMAIN v.items |-> ConvertUpTo[n - 1][v.items[i]]]
               k == Len(v.items)
    <2>1. ConvertUpTo[n][v] = List(items)
      BY <1>1, <1>4 DEF ConvertStep
    <2>2. n - 1 \in 0 .. MaxHeight /\ v.items \in Seq(ValueTreeUpTo[n - 1])
      BY <1>4, TreeForms
    <2>8. ConvertsTamely(n - 1)
      <3>1. n # 0
        BY <2>2, LimitsArePositive
      <3> QED
        BY <3>1
    <2>3. k \in Nat /\ DOMAIN v.items = 1 .. k
      BY <2>2
    <2>4. \A i \in 1 .. k : v.items[i] \in Children(v) /\ items[i] = ConvertUpTo[n - 1][v.items[i]]
      BY <1>4, <2>3 DEF Children, ToSet
    <2>5. items \in [1 .. k -> {items[i] : i \in 1 .. k}] /\ DOMAIN items = 1 .. k
      BY <2>3
    <2> HIDE DEF items, k
    <2>6. items \in Seq({items[i] : i \in 1 .. k})
      BY <2>3, <2>5, SeqDef
    <2>9. /\ List(items) \in ValueUpTo[n]
          /\ \A whole \in BOOLEAN : \A depth \in 0 .. MaxSemanticDepth :
               AreClean(ValueSitesUpTo[n][At(v, depth)])
                 => AreTame(NodesUpTo[n][NodeAt(List(items), whole, depth)])
      <3> DEFINE c == v.items
      <3>1. \A i \in 1 .. k : c[i] \in Children(v) /\ items[i] = ConvertUpTo[n - 1][c[i]]
        BY <2>4
      <3>2. v.kind \in {"array", "object"} /\ DOMAIN items = 1 .. k
        BY <1>4, <2>5
      <3> HIDE DEF c
      <3> QED
        BY <2>2, <2>3, <2>6, <2>8, <3>1, <3>2, ListIsTame
    <2> QED
      BY <2>1, <2>9
  <1>5. CASE v.kind = "object"
    <2> DEFINE map == AsMap(v.entries)
               items == [i \in DOMAIN map |-> ConvertUpTo[n - 1][map[i].value]]
               c == [i \in DOMAIN map |-> map[i].value]
               k == Len(map)
               E == [key : Spelled, value : ValueTreeUpTo[n - 1]]
    <2>1. ConvertUpTo[n][v] = List(items)
      BY <1>1, <1>5 DEF ConvertStep
    <2>2. n - 1 \in 0 .. MaxHeight /\ v.entries \in Seq(E)
      BY <1>5, TreeForms
    <2>8. ConvertsTamely(n - 1)
      <3>1. n # 0
        BY <2>2, LimitsArePositive
      <3> QED
        BY <3>1
    <2> HIDE DEF E
    <2>3. map \in Seq(E) /\ \A i \in DOMAIN map : map[i] \in ToSet(v.entries)
      BY <2>2, MapOfEntries
    <2>4. k \in Nat /\ DOMAIN map = 1 .. k
      <3> HIDE DEF map
      <3> QED
        BY <2>3
    <2>5. \A i \in 1 .. k : c[i] \in Children(v) /\ items[i] = ConvertUpTo[n - 1][c[i]]
      BY <1>5, <2>3, <2>4 DEF Children
    <2>6. items \in [1 .. k -> {items[i] : i \in 1 .. k}] /\ DOMAIN items = 1 .. k
      BY <2>4
    <2> HIDE DEF items, k, c, map
    <2>7. items \in Seq({items[i] : i \in 1 .. k})
      BY <2>4, <2>6, SeqDef
    <2>9. /\ List(items) \in ValueUpTo[n]
          /\ \A whole \in BOOLEAN : \A depth \in 0 .. MaxSemanticDepth :
               AreClean(ValueSitesUpTo[n][At(v, depth)])
                 => AreTame(NodesUpTo[n][NodeAt(List(items), whole, depth)])
      <3>1. v.kind \in {"array", "object"} /\ DOMAIN items = 1 .. k
        BY <1>5, <2>6
      <3>2. n - 1 \in 0 .. MaxHeight /\ k \in Nat
        BY <2>2, <2>4
      <3> QED
        BY <2>5, <2>7, <2>8, <3>1, <3>2, ListIsTame
    <2> QED
      BY <2>1, <2>9
  <1> QED
    BY <1>2, <1>3, <1>4, <1>5, TreeForms

\* convert_value, for values of every height.
LEMMA ConversionIsTame == \A n \in 0 .. MaxHeight : ConvertsTamely(n)
  <1> DEFINE Bad == {n \in 0 .. MaxHeight : ~ ConvertsTamely(n)}
  <1>1. ASSUME NEW n \in Bad, \A k \in Bad : n <= k
        PROVE  FALSE
    <2>1. n # 0 => n - 1 \in 0 .. MaxHeight /\ ~ (n <= n - 1)
      BY LimitsArePositive
    <2>2. n # 0 => ConvertsTamely(n - 1)
      BY <1>1, <2>1
    <2> QED
      BY <2>2, ConvertStepIsTame
  <1>2. Bad \in SUBSET Nat
    BY LimitsArePositive
  <1> QED
    BY <1>1, <1>2, LeastNumber

\* A value of a clean site is one that can be resolved.
LEMMA ValueIsTame ==
  ASSUME NEW v \in ValueTree
  PROVE  /\ ConvertValue(v) \in Value
         /\ \A whole \in BOOLEAN : \A depth \in 0 .. MaxSemanticDepth :
              AreClean(SitesOf(v, depth)) => AreTame(NodesOf(ConvertValue(v), whole, depth))
  <1>1. MaxHeight \in 0 .. MaxHeight /\ v \in ValueTreeUpTo[MaxHeight]
    BY LimitsArePositive DEF ValueTree
  <1>2. ConvertsTamely(MaxHeight)
    BY <1>1, ConversionIsTame
  <1> QED
    BY <1>1, <1>2 DEF ConvertsTamely, ConvertValue, Value, SitesOf, NodesOf

\* A sequence mapped into a set.
LEMMA MappedSeq ==
  ASSUME NEW S, NEW s \in Seq(S), NEW T, NEW g, g = [i \in DOMAIN s |-> g[i]],
         \A i \in DOMAIN s : g[i] \in T
  PROVE  g \in Seq(T) /\ DOMAIN g = DOMAIN s /\ Len(g) = Len(s)
  <1>1. Len(s) \in Nat /\ DOMAIN s = 1 .. Len(s)
    OBVIOUS
  <1>2. g \in [1 .. Len(s) -> T]
    BY <1>1
  <1>3. g \in Seq(T)
    BY <1>1, <1>2, SeqDef
  <1> QED
    BY <1>1, <1>2, <1>3

AllClean(sites) == \A s \in sites : CleanAssertion(s, DOMAIN store)

FieldsAreTame(n) ==
  \A a \in AssertionTreeUpTo[n] :
     /\ ConvertAssertionUpTo[n][a] \in FieldsUpTo[n]
     /\ \A depth \in Nat :
          AllClean(AssertionSitesUpTo[n][At(a, depth)])
            => AreTame(FieldNodesUpTo[n][AssertionAt(ConvertAssertionUpTo[n][a], depth)])

\* convert_field makes a field of the domain.
LEMMA ConvertedFieldForms ==
  ASSUME NEW n \in 0 .. MaxHeight, n # 0 => FieldsAreTame(n - 1),
         NEW a \in AssertionTreeUpTo[n], NEW f \in ToSet(a.fields)
  PROVE  ConvertedField(f, ConvertAssertionUpTo[n - 1])
           \in [expected : Seq(ValueUpTo[MaxHeight]),
                nested : IF n = 0 THEN {<<>>} ELSE Seq(FieldsUpTo[n - 1])]
  <1> DEFINE expected == [i \in DOMAIN f.expected |-> ConvertValue(f.expected[i])]
             nested == [i \in DOMAIN f.nested |-> ConvertAssertionUpTo[n - 1][f.nested[i]]]
  <1>1. expected \in Seq(ValueUpTo[MaxHeight])
    <2>1. f.expected \in Seq(ValueTree)
      BY AssertionForms
    <2>2. \A i \in DOMAIN f.expected : f.expected[i] \in ValueTree
      BY <2>1
    <2>3. \A i \in DOMAIN f.expected : expected[i] \in Value
      BY <2>2, ValueIsTame
    <2>4. expected = [i \in DOMAIN f.expected |-> expected[i]]
      OBVIOUS
    <2> HIDE DEF expected
    <2> QED
      BY <2>1, <2>3, <2>4, MappedSeq DEF Value
  <1>2. nested \in IF n = 0 THEN {<<>>} ELSE Seq(FieldsUpTo[n - 1])
    <2>1. CASE f.nested = <<>>
      <3>1. nested = <<>>
        BY <2>1
      <3> QED
        BY <3>1
    <2>2. CASE f.nested # <<>>
      <3>1. n - 1 \in 0 .. MaxHeight /\ f.nested \in Seq(AssertionTreeUpTo[n - 1])
        BY <2>2, AssertionForms
      <3>2. n # 0
        BY <3>1, LimitsArePositive
      <3>3. \A i \in DOMAIN f.nested : f.nested[i] \in AssertionTreeUpTo[n - 1]
        BY <3>1
      <3>4. \A i \in DOMAIN f.nested : nested[i] \in FieldsUpTo[n - 1]
        BY <3>2, <3>3 DEF FieldsAreTame
      <3>5. nested = [i \in DOMAIN f.nested |-> nested[i]]
        OBVIOUS
      <3> DEFINE S == AssertionTreeUpTo[n - 1]
                 T == FieldsUpTo[n - 1]
                 s == f.nested
      <3>6. s \in Seq(S) /\ nested = [i \in DOMAIN s |-> nested[i]]
        BY <3>1, <3>5
      <3>7. \A i \in DOMAIN s : nested[i] \in T
        BY <3>4
      <3> HIDE DEF nested, s, S, T
      <3>8. nested \in Seq(T)
        BY <3>6, <3>7, MappedSeq
      <3> QED
        BY <3>2, <3>8 DEF T
    <2> QED
      BY <2>1, <2>2
  <1>3. ConvertedField(f, ConvertAssertionUpTo[n - 1]) = [expected |-> expected, nested |-> nested]
    BY DEF ConvertedField
  <1> HIDE DEF expected, nested
  <1> DEFINE N == IF n = 0 THEN {<<>>} ELSE Seq(FieldsUpTo[n - 1])
  <1>4. nested \in N
    BY <1>2
  <1> HIDE DEF N
  <1>5. [expected |-> expected, nested |-> nested] \in [expected : Seq(ValueUpTo[MaxHeight]), nested : N]
    BY <1>1, <1>4
  <1> QED
    BY <1>3, <1>5 DEF N

\* The nodes of a field of a clean assertion.
LEMMA ConvertedFieldIsTame ==
  ASSUME NEW n \in 0 .. MaxHeight, n # 0 => FieldsAreTame(n - 1),
         NEW site \in AssertionSite(n), AllClean(AssertionSitesUpTo[n][site]),
         NEW f \in ToSet(site.tree.fields)
  PROVE  AreTame(NodesOfField(ConvertedField(f, ConvertAssertionUpTo[n - 1]), site.depth + 1,
                              FieldNodesUpTo[n - 1]))
  <1> DEFINE made == ConvertedField(f, ConvertAssertionUpTo[n - 1])
             depth == site.depth + 1
  <1>1. site.tree \in AssertionTreeUpTo[n] /\ site.depth \in Nat
    BY DEF AssertionSite
  <1>2. CleanAssertion(site, DOMAIN store)
    BY AssertionSitesUnfold DEF AllClean
  <1>3. depth \in 0 .. MaxSemanticDepth /\ depth \in Nat
    BY <1>1, <1>2, SemanticDepthAssumption DEF CleanAssertion
  <1>4. f.expected \in Seq(ValueTree)
    BY <1>1, AssertionForms
  <1>5. Tame(NodeAt(Plain("scalar"), TRUE, depth))
    <2>1. MaxHeight \in 0 .. MaxHeight
      BY LimitsArePositive
    <2> QED
      BY <1>3, <2>1, ScalarIsTame
  <1>6. DOMAIN made.expected = DOMAIN f.expected
        /\ \A i \in DOMAIN f.expected : made.expected[i] = ConvertValue(f.expected[i])
    BY DEF ConvertedField
  <1>7. DOMAIN made.nested = DOMAIN f.nested
        /\ \A i \in DOMAIN f.nested : made.nested[i] = ConvertAssertionUpTo[n - 1][f.nested[i]]
    BY DEF ConvertedField
  <1>8. ASSUME NEW i \in DOMAIN f.expected
        PROVE  AreTame(NodesOf(made.expected[i], TRUE, depth))
    <2>1. f.expected[i] \in ToSet(f.expected) /\ f.expected[i] \in ValueTree
      BY <1>4 DEF ToSet
    <2>2. AreClean(SitesOf(f.expected[i], depth))
      BY <1>2, <2>1 DEF CleanAssertion, CleanField, AreClean
    <2>3. AreTame(NodesOf(ConvertValue(f.expected[i]), TRUE, depth))
      BY <1>3, <2>1, <2>2, ValueIsTame
    <2> QED
      BY <1>6, <2>3
  <1>9. ASSUME NEW i \in DOMAIN f.nested
        PROVE  AreTame(FieldNodesUpTo[n - 1][AssertionAt(made.nested[i], depth)])
    <2>1. f.nested[i] \in ToSet(f.nested)
      BY DEF ToSet
    <2>2. n - 1 \in 0 .. MaxHeight /\ At(f.nested[i], depth) \in AssertionSite(n - 1)
      BY <2>1, NestedAreLower
    <2>3. n # 0
      BY <2>2, LimitsArePositive
    <2>4. f.nested[i] \in AssertionTreeUpTo[n - 1]
      BY <2>2 DEF At, AssertionSite
    <2>5. \A s \in AssertionSitesUpTo[n - 1][At(f.nested[i], depth)] : s \in AssertionSitesUpTo[n][site]
      BY <2>1, AssertionSitesUnfold
    <2>6. AllClean(AssertionSitesUpTo[n - 1][At(f.nested[i], depth)])
      BY <2>5 DEF AllClean
    <2>7. AreTame(FieldNodesUpTo[n - 1][AssertionAt(ConvertAssertionUpTo[n - 1][f.nested[i]], depth)])
      BY <1>3, <2>3, <2>4, <2>6 DEF FieldsAreTame
    <2> QED
      BY <1>7, <2>7
  <1>10. NodesOfField(made, depth, FieldNodesUpTo[n - 1]) =
           {NodeAt(Plain("scalar"), TRUE, depth)}
             \cup (UNION {NodesOf(made.expected[i], TRUE, depth) : i \in DOMAIN f.expected})
             \cup (UNION {FieldNodesUpTo[n - 1][AssertionAt(made.nested[i], depth)] : i \in DOMAIN f.nested})
    BY <1>6, <1>7 DEF NodesOfField
  <1> HIDE DEF made, depth
  <1>11. AreTame(NodesOfField(made, depth, FieldNodesUpTo[n - 1]))
    BY <1>5, <1>8, <1>9, <1>10 DEF AreTame
  <1> QED
    BY <1>11 DEF made, depth

\* convert_assertion, one level.
LEMMA ConvertFieldsStepIsTame ==
  ASSUME NEW n \in 0 .. MaxHeight, n # 0 => FieldsAreTame(n - 1)
  PROVE  FieldsAreTame(n)
  <1> SUFFICES ASSUME NEW a \in AssertionTreeUpTo[n]
               PROVE  /\ ConvertAssertionUpTo[n][a] \in FieldsUpTo[n]
                      /\ \A depth \in Nat :
                           AllClean(AssertionSitesUpTo[n][At(a, depth)])
                             => AreTame(FieldNodesUpTo[n][AssertionAt(ConvertAssertionUpTo[n][a], depth)])
    BY DEF FieldsAreTame
  <1> DEFINE fields == [i \in DOMAIN NamedFields(a) |->
                          ConvertedField(NamedFields(a)[i].field, ConvertAssertionUpTo[n - 1])]
             F == [expected : Seq(ValueUpTo[MaxHeight]),
                   nested : IF n = 0 THEN {<<>>} ELSE Seq(FieldsUpTo[n - 1])]
             k == Len(NamedFields(a))
  <1>1. ConvertAssertionUpTo[n][a] = fields
    BY ConvertFieldsEquation DEF ConvertFieldsStep
  <1>2. /\ DOMAIN NamedFields(a) = 1 .. k /\ k \in Nat
        /\ \A i \in 1 .. k : NamedFields(a)[i].field \in ToSet(a.fields)
    BY NamedFieldsForms
  <1>3. \A i \in 1 .. k :
           fields[i] = ConvertedField(NamedFields(a)[i].field, ConvertAssertionUpTo[n - 1])
    BY <1>2
  <1>4. \A i \in 1 .. k : fields[i] \in F
    BY <1>2, <1>3, ConvertedFieldForms
  <1>5. FieldsUpTo[n] = Seq(F)
    BY FieldsEquation DEF FieldsStep
  <1>6. DOMAIN fields = 1 .. k /\ fields = [i \in 1 .. k |-> fields[i]]
    BY <1>2
  <1> HIDE DEF fields, F, k
  <1>7. fields \in [1 .. k -> F]
    BY <1>4, <1>6
  <1>8. fields \in Seq(F)
    BY <1>2, <1>7, SeqDef
  <1>9. ASSUME NEW depth \in Nat, AllClean(AssertionSitesUpTo[n][At(a, depth)])
        PROVE  AreTame(FieldNodesUpTo[n][AssertionAt(fields, depth)])
    <2> DEFINE object == AssertionAt(fields, depth)
               site == At(a, depth)
    <2>1. object \in ObjectAssertion(n) /\ object.fields = fields /\ object.depth = depth
      BY <1>5, <1>8 DEF AssertionAt, ObjectAssertion
    <2>2. site \in AssertionSite(n) /\ site.tree = a /\ site.depth = depth
      BY DEF At, AssertionSite
    <2> HIDE DEF object
    <2>3. FieldNodesUpTo[n][object] =
            UNION {NodesOfField(f, depth + 1, FieldNodesUpTo[n - 1]) : f \in ToSet(fields)}
      <3>1. FieldNodesUpTo[n] = FieldNodesStep(n, FieldNodesUpTo[n - 1])
        BY FieldNodesEquation
      <3>2. FieldNodesStep(n, FieldNodesUpTo[n - 1])[object] =
              UNION {NodesOfField(f, object.depth + 1, FieldNodesUpTo[n - 1]) : f \in ToSet(object.fields)}
        BY <2>1 DEF FieldNodesStep
      <3> QED
        BY <2>1, <3>1, <3>2
    <2>4. ASSUME NEW f \in ToSet(fields)
          PROVE  AreTame(NodesOfField(f, depth + 1, FieldNodesUpTo[n - 1]))
      <3>1. PICK i \in 1 .. k : f = fields[i]
        BY <1>6 DEF ToSet
      <3>2. f = ConvertedField(NamedFields(a)[i].field, ConvertAssertionUpTo[n - 1])
        BY <1>3, <3>1
      <3>3. NamedFields(a)[i].field \in ToSet(site.tree.fields)
        BY <1>2, <2>2
      <3> HIDE DEF site
      <3>4. AreTame(NodesOfField(ConvertedField(NamedFields(a)[i].field, ConvertAssertionUpTo[n - 1]),
                                 site.depth + 1, FieldNodesUpTo[n - 1]))
        <4>1. AllClean(AssertionSitesUpTo[n][site])
          BY <1>9 DEF site
        <4> QED
          BY <2>2, <3>3, <4>1, ConvertedFieldIsTame
      <3> QED
        BY <2>2, <3>2, <3>4
    <2> HIDE DEF object
    <2>5. AreTame(FieldNodesUpTo[n][object])
      BY <2>3, <2>4 DEF AreTame
    <2> QED
      BY <2>5 DEF object
  <1> QED
    BY <1>1, <1>5, <1>8, <1>9

\* An object assertion that is clean is one that can be resolved.
LEMMA AssertionIsTame ==
  ASSUME NEW a \in AssertionTreeUpTo[MaxHeight]
  PROVE  /\ ConvertAssertion(a) \in FieldsUpTo[MaxHeight]
         /\ AllClean(AssertionSitesUpTo[MaxHeight][At(a, 0)])
              => AreTame(NodesOfObject(ConvertAssertion(a), 0))
  <1> DEFINE Bad == {n \in 0 .. MaxHeight : ~ FieldsAreTame(n)}
  <1>1. ASSUME NEW n \in Bad, \A k \in Bad : n <= k
        PROVE  FALSE
    <2>1. n # 0 => n - 1 \in 0 .. MaxHeight /\ ~ (n <= n - 1)
      BY LimitsArePositive
    <2>2. n # 0 => FieldsAreTame(n - 1)
      BY <1>1, <2>1
    <2> QED
      BY <2>2, ConvertFieldsStepIsTame
  <1>2. Bad \in SUBSET Nat
    BY LimitsArePositive
  <1>3. FieldsAreTame(MaxHeight)
    <2>1. MaxHeight \in 0 .. MaxHeight
      BY LimitsArePositive
    <2>2. Bad = {}
      BY <1>1, <1>2, LeastNumber
    <2> QED
      BY <2>1, <2>2
  <1>4. 0 \in Nat
    OBVIOUS
  <1> QED
    BY <1>3, <1>4 DEF FieldsAreTame, ConvertAssertion, NodesOfObject

-----------------------------------------------------------------------------
(***************************************************************************)
(* The conversion of a test.                                               *)
(***************************************************************************)
\* Headers and query parameters are converted value by value.
LEMMA ConvertedValues ==
  ASSUME NEW entries \in Seq(EntryTree)
  PROVE  /\ ConvertValues(entries) \in Seq(Value)
         /\ \A v \in ToSet(ConvertValues(entries)) :
              \E e \in ToSet(entries) : e.value \in ValueTree /\ v = ConvertValue(e.value)
  <1> DEFINE map == AsMap(entries)
             values == [i \in DOMAIN map |-> ConvertValue(map[i].value)]
  <1>1. map \in Seq(EntryTree) /\ \A i \in DOMAIN map : map[i] \in ToSet(entries)
    BY MapOfEntries
  <1>2. \A i \in DOMAIN map : map[i] \in EntryTree
    <2> HIDE DEF map
    <2> QED
      BY <1>1
  <1>3. \A e \in EntryTree : e.value \in ValueTree
    BY DEF EntryTree
  <1>4. ConvertValues(entries) = values
    BY DEF ConvertValues
  <1>5. \A i \in DOMAIN map : values[i] = ConvertValue(map[i].value) /\ map[i].value \in ValueTree
    BY <1>2, <1>3
  <1>6. \A i \in DOMAIN map : values[i] \in Value
    BY <1>5, ValueIsTame
  <1>7. values = [i \in DOMAIN map |-> values[i]]
    OBVIOUS
  <1> HIDE DEF map, values
  <1>8. values \in Seq(Value) /\ DOMAIN values = DOMAIN map
    BY <1>1, <1>6, <1>7, MappedSeq
  <1>9. \A v \in ToSet(values) : \E i \in DOMAIN map : v = values[i]
    BY <1>8 DEF ToSet
  <1> QED
    BY <1>1, <1>4, <1>5, <1>8, <1>9

\* The last body is one of the bodies.
LEMMA LastOfBodies ==
  ASSUME NEW S, NEW sections \in Seq(S)
  PROVE  \A b \in LastBody(sections) : b \in ToSet(sections) /\ b \in S /\ b.of = "body"
  BY DEF LastBody, ToSet

\* The body of a request is an object of one of its sections.
LEMMA ConvertedBody ==
  ASSUME NEW sections \in Seq(RequestSection)
  PROVE  \/ ConvertRequestBody(sections) = [kind |-> "none", value |-> Plain("scalar")]
         \/ \E s \in ToSet(sections) :
              /\ s.of = "body" /\ ObjectValueAst(s.entries) \in ValueTree
              /\ ConvertRequestBody(sections) =
                   [kind |-> "json", value |-> ConvertValue(ObjectValueAst(s.entries))]
  <1>1. CASE LastBody(sections) = {}
    BY <1>1 DEF ConvertRequestBody
  <1>2. CASE LastBody(sections) # {}
    <2> DEFINE b == CHOOSE x \in LastBody(sections) : TRUE
    <2>1. b \in LastBody(sections)
      BY <1>2
    <2>2. b \in ToSet(sections) /\ b \in RequestSection /\ b.of = "body"
      BY <2>1, LastOfBodies
    <2>3. ConvertRequestBody(sections) =
            [kind |-> "json", value |-> ConvertValue(ObjectValueAst(b.entries))]
      BY <1>2 DEF ConvertRequestBody
    <2> HIDE DEF b
    <2>4. ObjectValueAst(b.entries) \in ValueTree
      BY <2>2, RequestSectionForms
    <2> QED
      BY <2>2, <2>3, <2>4
  <1> QED
    BY <1>1, <1>2

\* The expected headers are texts of the headers sections.
LEMMA ConvertedHeaders ==
  ASSUME NEW entries \in Seq(HeaderTree),
         NEW texts, texts = [i \in DOMAIN AsMap(entries) |-> AsMap(entries)[i].text]
  PROVE  /\ texts \in Seq(Seq(Fragment))
         /\ \A t \in ToSet(texts) : \E e \in ToSet(entries) : t = e.text
  <1> DEFINE map == AsMap(entries)
             T == Seq(Fragment)
  <1>1. map \in Seq(HeaderTree) /\ \A i \in DOMAIN map : map[i] \in ToSet(entries)
    BY MapOfEntries
  <1>2. \A i \in DOMAIN map : map[i] \in HeaderTree
    <2> HIDE DEF map
    <2> QED
      BY <1>1
  <1>3. \A e \in HeaderTree : e.text \in T
    BY DEF HeaderTree
  <1>4. \A i \in DOMAIN map : texts[i] = map[i].text /\ texts[i] \in T
    BY <1>2, <1>3
  <1>5. texts = [i \in DOMAIN map |-> texts[i]]
    OBVIOUS
  <1> HIDE DEF map, T
  <1>6. texts \in Seq(T) /\ DOMAIN texts = DOMAIN map
    BY <1>1, <1>4, <1>5, MappedSeq
  <1>7. \A t \in ToSet(texts) : \E i \in DOMAIN map : t = map[i].text
    BY <1>4, <1>6 DEF ToSet
  <1> QED
    BY <1>1, <1>6, <1>7 DEF T

NothingExpected == [kind |-> "empty", text |-> <<>>, fields |-> <<>>]
TextExpected(s) == [kind |-> "text", text |-> s.text, fields |-> <<>>]
FieldsExpected(s) == [kind |-> "json", text |-> <<>>, fields |-> ConvertAssertion(s.assertion)]

\* The expected body is one of the body sections.
LEMMA ConvertedExpectation ==
  ASSUME NEW sections \in Seq(ExpectationSection)
  PROVE  \/ ConvertBodyAssertion(sections) = NothingExpected
         \/ \E s \in ToSet(sections) :
              /\ s.of = "body" /\ s.form = "text" /\ s.text \in Seq(Fragment)
              /\ ConvertBodyAssertion(sections) = TextExpected(s)
         \/ \E s \in ToSet(sections) :
              /\ IsObjectBody(s) /\ s.assertion \in AssertionTreeUpTo[MaxHeight]
              /\ ConvertBodyAssertion(sections) = FieldsExpected(s)
  <1> DEFINE b == CHOOSE x \in LastBody(sections) : TRUE
  <1>1. ConvertBodyAssertion(sections) =
          CASE LastBody(sections) = {} \/ b.form = "empty" -> NothingExpected
            [] LastBody(sections) # {} /\ b.form = "text" -> TextExpected(b)
            [] OTHER -> FieldsExpected(b)
    BY DEF ConvertBodyAssertion, NothingExpected, TextExpected, FieldsExpected
  <1>2. LastBody(sections) # {} => b \in LastBody(sections)
    OBVIOUS
  <1> HIDE DEF b
  <1>3. CASE LastBody(sections) = {}
    BY <1>1, <1>3
  <1>4. CASE LastBody(sections) # {}
    <2>1. b \in ToSet(sections) /\ b \in ExpectationSection /\ b.of = "body"
      BY <1>2, <1>4, LastOfBodies
    <2>2. /\ b.form \in {"empty", "text", "object"} /\ b.text \in Seq(Fragment)
          /\ b.assertion \in AssertionTreeUpTo[MaxHeight]
      BY <2>1, ExpectationSectionForms
    <2>3. CASE b.form = "empty"
      BY <1>1, <2>3
    <2>4. CASE b.form = "text"
      BY <1>1, <1>4, <2>1, <2>2, <2>4
    <2>5. CASE b.form = "object"
      <3>1. ConvertBodyAssertion(sections) = FieldsExpected(b) /\ IsObjectBody(b)
        BY <1>1, <1>4, <2>1, <2>5 DEF IsObjectBody
      <3> QED
        BY <2>1, <2>2, <3>1
    <2> QED
      BY <2>2, <2>3, <2>4, <2>5
  <1> QED
    BY <1>3, <1>4

\* The parts of a test that are converted.
LEMMA PartsOfTest ==
  ASSUME NEW test \in TestTree, Len(test.requests) = 1, Len(test.expectations) = 1
  PROVE  LET r == test.requests[1]
             e == test.expectations[1]
         IN /\ r \in ToSet(test.requests) /\ e \in ToSet(test.expectations)
            /\ r \in RequestTree /\ r.path \in Seq(Fragment) /\ r.sections \in Seq(RequestSection)
            /\ e \in ExpectationTree /\ e.sections \in Seq(ExpectationSection)
            /\ EntriesOf(r.sections, "headers") \in Seq(EntryTree)
            /\ EntriesOf(r.sections, "query") \in Seq(EntryTree)
            /\ EntriesOf(e.sections, "headers") \in Seq(HeaderTree)
  <1> DEFINE r == test.requests[1]
             e == test.expectations[1]
  <1>1. r \in ToSet(test.requests) /\ e \in ToSet(test.expectations)
    <2>1. DOMAIN test.requests = 1 .. 1 /\ DOMAIN test.expectations = 1 .. 1
      BY TestForms
    <2> QED
      BY <2>1 DEF ToSet
  <1>2. r \in RequestTree /\ e \in ExpectationTree
    BY <1>1, TestForms
  <1> HIDE DEF r, e
  <1>3. /\ r.path \in Seq(Fragment) /\ r.sections \in Seq(RequestSection)
        /\ e.sections \in Seq(ExpectationSection)
    BY <1>2 DEF RequestTree, ExpectationTree
  <1>4. \A s \in ToSet(r.sections) : s.entries \in Seq(EntryTree)
    <2>1. \A s \in ToSet(r.sections) : s \in RequestSection
      BY <1>3 DEF ToSet
    <2> QED
      BY <2>1, RequestSectionForms
  <1>5. \A s \in ToSet(e.sections) : s.of = "headers" => s.entries \in Seq(HeaderTree)
    <2>1. \A s \in ToSet(e.sections) : s \in ExpectationSection
      BY <1>3 DEF ToSet
    <2> QED
      BY <2>1, ExpectationSectionForms
  <1>6. /\ EntriesOf(r.sections, "headers") \in Seq(EntryTree)
        /\ EntriesOf(r.sections, "query") \in Seq(EntryTree)
    BY <1>3, <1>4, EntriesAreThose
  <1>7. EntriesOf(e.sections, "headers") \in Seq(HeaderTree)
    BY <1>3, <1>5, EntriesAreThose
  <1> QED
    BY <1>1, <1>2, <1>3, <1>6, <1>7 DEF r, e

\* A test is converted to something that can be resolved.
LEMMA TestConverts ==
  ASSUME NEW test \in TestTree, Len(test.requests) = 1, Len(test.expectations) = 1
  PROVE  ConvertTest(test) \in Spec
  <1> DEFINE r == test.requests[1]
             sections == test.expectations[1].sections
             map == AsMap(EntriesOf(sections, "headers"))
             headers == ConvertValues(EntriesOf(r.sections, "headers"))
             query == ConvertValues(EntriesOf(r.sections, "query"))
             body == ConvertRequestBody(r.sections)
             texts == [i \in DOMAIN map |-> map[i].text]
             expected == ConvertBodyAssertion(sections)
             Body == [kind : {"none", "json"}, value : Value]
             Expected == [kind : {"empty", "text", "json"}, text : Seq(Fragment),
                          fields : FieldsUpTo[MaxHeight]]
  <1>1. ConvertTest(test) = [path |-> r.path, headers |-> headers, query |-> query, body |-> body,
                             expectedHeaders |-> texts, expectedBody |-> expected]
    BY DEF ConvertTest
  <1>2. r.path \in Seq(Fragment) /\ headers \in Seq(Value) /\ query \in Seq(Value)
    BY PartsOfTest, ConvertedValues
  <1>3. body \in Body
    <2>1. MaxHeight \in 0 .. MaxHeight /\ 0 \in 0 .. MaxSemanticDepth
      BY LimitsArePositive, SemanticDepthAssumption
    <2>2. Plain("scalar") \in Value
      BY <2>1, ScalarIsTame DEF Value
    <2>3. r.sections \in Seq(RequestSection)
      BY PartsOfTest
    <2>4. \E kind \in {"none", "json"} : \E v \in Value : body = [kind |-> kind, value |-> v]
      BY <2>2, <2>3, ConvertedBody, ValueIsTame
    <2> QED
      BY <2>4
  <1>4. texts \in Seq(Seq(Fragment))
    BY PartsOfTest, ConvertedHeaders
  <1>5. expected \in Expected
    <2>1. sections \in Seq(ExpectationSection)
      BY PartsOfTest
    <2>2. <<>> \in Seq(Fragment)
      OBVIOUS
    <2>3. <<>> \in FieldsUpTo[MaxHeight]
      <3>1. MaxHeight \in 0 .. MaxHeight
        BY LimitsArePositive
      <3> DEFINE F == [expected : Seq(ValueUpTo[MaxHeight]),
                       nested : IF MaxHeight = 0 THEN {<<>>} ELSE Seq(FieldsUpTo[MaxHeight - 1])]
      <3>2. FieldsUpTo[MaxHeight] = Seq(F)
        BY <3>1, FieldsEquation DEF FieldsStep
      <3> HIDE DEF F
      <3> QED
        BY <3>2
    <2>4. \E kind \in {"empty", "text", "json"} : \E t \in Seq(Fragment) : \E f \in FieldsUpTo[MaxHeight] :
            expected = [kind |-> kind, text |-> t, fields |-> f]
      <3>1. CASE expected = NothingExpected
        BY <2>2, <2>3, <3>1 DEF NothingExpected
      <3>2. ASSUME NEW s, s.text \in Seq(Fragment), expected = TextExpected(s)
            PROVE  \E kind \in {"empty", "text", "json"} : \E t \in Seq(Fragment) :
                     \E f \in FieldsUpTo[MaxHeight] :
                        expected = [kind |-> kind, text |-> t, fields |-> f]
        BY <2>3, <3>2 DEF TextExpected
      <3>3. ASSUME NEW s, s.assertion \in AssertionTreeUpTo[MaxHeight], expected = FieldsExpected(s)
            PROVE  \E kind \in {"empty", "text", "json"} : \E t \in Seq(Fragment) :
                     \E f \in FieldsUpTo[MaxHeight] :
                        expected = [kind |-> kind, text |-> t, fields |-> f]
        <4>1. ConvertAssertion(s.assertion) \in FieldsUpTo[MaxHeight]
          BY <3>3, AssertionIsTame
        <4> QED
          BY <2>2, <3>3, <4>1 DEF FieldsExpected
      <3> HIDE DEF expected
      <3>4. \/ expected = NothingExpected
            \/ \E s : s.text \in Seq(Fragment) /\ expected = TextExpected(s)
            \/ \E s : s.assertion \in AssertionTreeUpTo[MaxHeight] /\ expected = FieldsExpected(s)
        BY <2>1, ConvertedExpectation DEF expected
      <3> QED
        BY <3>1, <3>2, <3>3, <3>4
    <2> QED
      BY <2>4
  <1> HIDE DEF r, sections, map, headers, query, body, texts, expected, Body, Expected
  <1>6. Spec = [path : Seq(Fragment), headers : Seq(Value), query : Seq(Value),
                body : Body \cup [kind : {"text"}, value : TextValue]
                         \cup [kind : {"form"}, value : [kind : {"list"}, items : Seq(Value)]],
                expectedHeaders : Seq(Seq(Fragment)), expectedBody : Expected]
    BY DEF Spec, Body, Expected
  <1>7. body \in Body \cup [kind : {"text"}, value : TextValue]
                   \cup [kind : {"form"}, value : [kind : {"list"}, items : Seq(Value)]]
    BY <1>3
  <1> DEFINE Bodies == Body \cup [kind : {"text"}, value : TextValue]
                         \cup [kind : {"form"}, value : [kind : {"list"}, items : Seq(Value)]]
             Path == Seq(Fragment)
             Values == Seq(Value)
             TextSeqs == Seq(Path)
  <1>8. /\ r.path \in Path /\ headers \in Values /\ query \in Values /\ body \in Bodies
        /\ texts \in TextSeqs
    BY <1>2, <1>4, <1>7
  <1>9. Spec = [path : Path, headers : Values, query : Values, body : Bodies,
                expectedHeaders : TextSeqs, expectedBody : Expected]
    BY <1>6
  <1> HIDE DEF Bodies, Path, Values, TextSeqs
  <1> QED
    BY <1>1, <1>5, <1>8, <1>9

\* A readable text, where no structured value may take its place.
LEMMA PlainTextIsTame ==
  ASSUME NEW text \in Seq(Fragment), Readable(text, DOMAIN store)
  PROVE  AreTame(NodesOf(Text(text), FALSE, 0))
  <1>1. Text(text) \in TextValue /\ Text(text).text = text
    BY DEF Text, TextValue
  <1>2. MaxHeight \in 0 .. MaxHeight /\ 0 \in 0 .. MaxSemanticDepth
    BY LimitsArePositive, SemanticDepthAssumption
  <1> HIDE DEF Text
  <1> QED
    BY <1>1, <1>2, TextIsTame DEF NodesOf

\* What is read where a request is clean.
LEMMA CleanRequests ==
  ASSUME NEW r \in RequestTree, NEW visible, RequestIsClean(r, visible)
  PROVE  /\ Readable(r.path, visible)
         /\ \A s \in RequestSites(r) : Clean(s, visible)
  <1>1. \A t \in RequestTexts(r) : Readable(t, visible)
    BY TextsAreReadable DEF RequestIsClean, RequestIsSound
  <1>2. r.path \in RequestTexts(r) /\ TextsAt(RequestSites(r)) \subseteq RequestTexts(r)
    BY DEF RequestTexts
  <1>3. \A s \in RequestSites(r) : SiteIsSound(s)
    BY DEF RequestIsClean, RequestIsSound
  <1> QED
    BY <1>1, <1>2, <1>3, SitesAreClean

\* What is read where an expectation is clean.
LEMMA CleanExpectations ==
  ASSUME NEW e \in ExpectationTree, NEW visible, ExpectationIsClean(e, visible)
  PROVE  /\ \A h \in ToSet(EntriesOf(e.sections, "headers")) : Readable(h.text, visible)
         /\ \A s \in ToSet(e.sections) : s.of = "body" /\ s.form = "text" => Readable(s.text, visible)
         /\ \A a \in AssertionsIn(e) : CleanAssertion(a, visible)
  <1>1. \A t \in ExpectationTexts(e) : Readable(t, visible)
    BY TextsAreReadable DEF ExpectationIsClean, ExpectationIsSound
  <1>2. /\ \A h \in ToSet(EntriesOf(e.sections, "headers")) : h.text \in ExpectationTexts(e)
        /\ \A s \in ToSet(e.sections) : s.of = "body" /\ s.form = "text" => s.text \in ExpectationTexts(e)
        /\ TextsAt(ExpectedSites(e)) \subseteq ExpectationTexts(e)
    BY DEF ExpectationTexts
  <1>3. \A x \in ExpectedSites(e) : Clean(x, visible)
    <2>1. \A x \in ExpectedSites(e) : SiteIsSound(x)
      BY DEF ExpectationIsClean, ExpectationIsSound
    <2> QED
      BY <1>1, <1>2, <2>1, SitesAreClean
  <1>4. /\ \A a \in AssertionsIn(e) : a.depth < MaxSemanticDepth /\ AreNames(FieldNames(a.tree))
        /\ \A f \in FieldsOf(e) : FieldIsSound(f)
        /\ \A f \in FieldsOf(e) : f.nested # <<>> => f.type = "object"
    BY DEF ExpectationIsClean, ExpectationIsSound
  <1>5. \A a \in AssertionsIn(e) : CleanAssertion(a, visible)
    BY <1>3, <1>4, AssertionsDecide
  <1> QED
    BY <1>1, <1>2, <1>5

\* Values of a clean section, where no structured value may take their place.
LEMMA ConvertedSectionIsTame ==
  ASSUME NEW sections \in Seq(RequestSection), NEW kind, kind # "body",
         EntriesOf(sections, kind) \in Seq(EntryTree),
         \A s \in ToSet(sections) : s.of = kind => \A e \in ToSet(s.entries) : AreClean(SitesOf(e.value, 0))
  PROVE  AreTame(ScalarNodes(ToSet(ConvertValues(EntriesOf(sections, kind)))))
  <1> DEFINE entries == EntriesOf(sections, kind)
  <1>1. \A s \in ToSet(sections) : s.entries \in Seq(EntryTree)
    <2>1. \A s \in ToSet(sections) : s \in RequestSection
      BY DEF ToSet
    <2> QED
      BY <2>1, RequestSectionForms
  <1>2. \A e \in ToSet(entries) : AreClean(SitesOf(e.value, 0))
    <2>1. \A e : e \in ToSet(EntriesOf(sections, kind))
                   <=> \E s \in ToSet(sections) : s.of = kind /\ e \in ToSet(s.entries)
      BY <1>1, EntriesAreThose
    <2> QED
      BY <2>1
  <1>3. 0 \in 0 .. MaxSemanticDepth
    BY SemanticDepthAssumption
  <1> HIDE DEF entries
  <1>4. ASSUME NEW v \in ToSet(ConvertValues(entries))
        PROVE  AreTame(NodesOf(v, FALSE, 0))
    <2>1. entries \in Seq(EntryTree)
      BY DEF entries
    <2>2. PICK e \in ToSet(entries) : e.value \in ValueTree /\ v = ConvertValue(e.value)
      BY <2>1, ConvertedValues
    <2>3. AreTame(NodesOf(ConvertValue(e.value), FALSE, 0))
      BY <1>2, <1>3, <2>2, ValueIsTame
    <2> QED
      BY <2>2, <2>3
  <1>5. AreTame(ScalarNodes(ToSet(ConvertValues(entries))))
    BY <1>4 DEF AreTame, ScalarNodes
  <1> QED
    BY <1>5 DEF entries

\* A clean test, converted, has only tame nodes.
LEMMA ConvertedIsTame ==
  ASSUME NEW test \in TestTree, spec = ConvertTest(test),
         TestIsClean(test, DOMAIN store)
  PROVE  \A i \in 1 .. 6 : AreTame(NodesIn(i))
  <1> DEFINE r == test.requests[1]
             e == test.expectations[1]
             visible == DOMAIN store
  <1>0. Len(test.requests) = 1 /\ Len(test.expectations) = 1
    BY DEF TestIsClean
  <1>1. /\ r \in RequestTree /\ r.path \in Seq(Fragment) /\ r.sections \in Seq(RequestSection)
        /\ e \in ExpectationTree /\ e.sections \in Seq(ExpectationSection)
        /\ EntriesOf(r.sections, "headers") \in Seq(EntryTree)
        /\ EntriesOf(r.sections, "query") \in Seq(EntryTree)
        /\ EntriesOf(e.sections, "headers") \in Seq(HeaderTree)
    BY <1>0, PartsOfTest
  <1>2. RequestIsClean(r, visible) /\ ExpectationIsClean(e, visible)
    <2>1. r \in ToSet(test.requests) /\ e \in ToSet(test.expectations)
      BY <1>0, PartsOfTest
    <2> QED
      BY <2>1 DEF TestIsClean, RequestsAreClean, ExpectationsAreClean
  <1>3. /\ spec.path = r.path
        /\ spec.headers = ConvertValues(EntriesOf(r.sections, "headers"))
        /\ spec.query = ConvertValues(EntriesOf(r.sections, "query"))
        /\ spec.body = ConvertRequestBody(r.sections)
        /\ spec.expectedHeaders = [i \in DOMAIN AsMap(EntriesOf(e.sections, "headers")) |->
                                     AsMap(EntriesOf(e.sections, "headers"))[i].text]
        /\ spec.expectedBody = ConvertBodyAssertion(e.sections)
    BY DEF ConvertTest
  <1> HIDE DEF r, e, visible
  <1>4. Readable(r.path, visible) /\ \A s \in RequestSites(r) : Clean(s, visible)
    BY <1>1, <1>2, CleanRequests
  <1>5. /\ \A h \in ToSet(EntriesOf(e.sections, "headers")) : Readable(h.text, visible)
        /\ \A s \in ToSet(e.sections) : s.of = "body" /\ s.form = "text" => Readable(s.text, visible)
        /\ \A a \in AssertionsIn(e) : CleanAssertion(a, visible)
    BY <1>1, <1>2, CleanExpectations
  <1>6. \A s \in ToSet(r.sections) :
          /\ s.of = "body" => AreClean(SitesOf(ObjectValueAst(s.entries), 0))
          /\ s.of # "body" => \A x \in ToSet(s.entries) : AreClean(SitesOf(x.value, 0))
    BY <1>4, SitesOfRequest DEF AreClean, visible
  <1>7. 0 \in 0 .. MaxSemanticDepth
    BY SemanticDepthAssumption
  <1>8. AreTame(NodesIn(1))
    <2>1. AreTame(NodesOf(Text(r.path), FALSE, 0))
      BY <1>1, <1>4, PlainTextIsTame DEF visible
    <2>2. NodesIn(1) = ScalarNodes({Text(r.path)})
      BY <1>3 DEF NodesIn
    <2> QED
      BY <2>1, <2>2, SingleText
  <1>9. AreTame(NodesIn(2))
    <2>1. NodesIn(2) = ScalarNodes(ToSet(ConvertValues(EntriesOf(r.sections, "headers"))))
      BY <1>3 DEF NodesIn
    <2> QED
      BY <1>1, <1>6, <2>1, ConvertedSectionIsTame
  <1>10. AreTame(NodesIn(3))
    <2>1. NodesIn(3) = ScalarNodes(ToSet(ConvertValues(EntriesOf(r.sections, "query"))))
      BY <1>3 DEF NodesIn
    <2> QED
      BY <1>1, <1>6, <2>1, ConvertedSectionIsTame
  <1>11. AreTame(NodesIn(4))
    <2>1. NodesIn(4) = CASE spec.body.kind = "json" -> NodesOf(spec.body.value, TRUE, 0)
                         [] spec.body.kind = "text" -> NodesOf(spec.body.value, FALSE, 0)
                         [] spec.body.kind = "form" -> ScalarNodes(ToSet(spec.body.value.items))
                         [] OTHER -> {}
      BY DEF NodesIn
    <2>2. CASE spec.body = [kind |-> "none", value |-> Plain("scalar")]
      <3>1. NodesIn(4) = {}
        BY <2>1, <2>2
      <3> QED
        BY <3>1 DEF AreTame
    <2>3. ASSUME NEW s \in ToSet(r.sections), s.of = "body", ObjectValueAst(s.entries) \in ValueTree,
                 spec.body = [kind |-> "json", value |-> ConvertValue(ObjectValueAst(s.entries))]
          PROVE  AreTame(NodesIn(4))
      <3>1. NodesIn(4) = NodesOf(ConvertValue(ObjectValueAst(s.entries)), TRUE, 0)
        <4> DEFINE v == ConvertValue(ObjectValueAst(s.entries))
        <4>1. spec.body = [kind |-> "json", value |-> v]
          BY <2>3
        <4> HIDE DEF v
        <4>2. spec.body.kind = "json" /\ spec.body.value = v
          BY <4>1
        <4>3. NodesIn(4) = NodesOf(v, TRUE, 0)
          BY <2>1, <4>2
        <4> QED
          BY <4>3 DEF v
      <3>2. AreClean(SitesOf(ObjectValueAst(s.entries), 0))
        BY <1>6, <2>3
      <3> QED
        BY <1>7, <2>3, <3>1, <3>2, ValueIsTame
    <2> QED
      BY <1>1, <1>3, <2>2, <2>3, ConvertedBody
  <1>12. AreTame(NodesIn(5))
    <2>1. NodesIn(5) = ScalarNodes({Text(t) : t \in ToSet(spec.expectedHeaders)})
      BY DEF NodesIn
    <2>2. /\ spec.expectedHeaders \in Seq(Seq(Fragment))
          /\ \A t \in ToSet(spec.expectedHeaders) :
               \E h \in ToSet(EntriesOf(e.sections, "headers")) : t = h.text
      BY <1>1, <1>3, ConvertedHeaders
    <2>3. ASSUME NEW t \in ToSet(spec.expectedHeaders)
          PROVE  AreTame(NodesOf(Text(t), FALSE, 0))
      <3>1. t \in Seq(Fragment)
        BY <2>2 DEF ToSet
      <3>2. Readable(t, DOMAIN store)
        BY <1>5, <2>2 DEF visible
      <3> QED
        BY <3>1, <3>2, PlainTextIsTame
    <2> QED
      BY <2>1, <2>3 DEF AreTame, ScalarNodes
  <1>13. AreTame(NodesIn(6))
    <2>1. NodesIn(6) = CASE spec.expectedBody.kind = "json" -> NodesOfObject(spec.expectedBody.fields, 0)
                         [] spec.expectedBody.kind = "text" ->
                              ScalarNodes({Text(spec.expectedBody.text)})
                         [] OTHER -> {}
      BY DEF NodesIn
    <2>2. CASE spec.expectedBody = NothingExpected
      <3>1. NodesIn(6) = {}
        BY <2>1, <2>2 DEF NothingExpected
      <3> QED
        BY <3>1 DEF AreTame
    <2>3. ASSUME NEW s \in ToSet(e.sections), s.of = "body", s.form = "text", s.text \in Seq(Fragment),
                 spec.expectedBody = TextExpected(s)
          PROVE  AreTame(NodesIn(6))
      <3>1. NodesIn(6) = ScalarNodes({Text(s.text)})
        BY <2>1, <2>3 DEF TextExpected
      <3>2. AreTame(NodesOf(Text(s.text), FALSE, 0))
        BY <1>5, <2>3, PlainTextIsTame DEF visible
      <3> QED
        BY <3>1, <3>2, SingleText
    <2>4. ASSUME NEW s \in ToSet(e.sections), IsObjectBody(s),
                 s.assertion \in AssertionTreeUpTo[MaxHeight], spec.expectedBody = FieldsExpected(s)
          PROVE  AreTame(NodesIn(6))
      <3>1. NodesIn(6) = NodesOfObject(ConvertAssertion(s.assertion), 0)
        BY <2>1, <2>4 DEF FieldsExpected
      <3>2. AllClean(AssertionSitesUpTo[MaxHeight][At(s.assertion, 0)])
        BY <1>5, <2>4, PartsOfExpectation DEF AllClean, visible
      <3> QED
        BY <2>4, <3>1, <3>2, AssertionIsTame
    <2> QED
      BY <1>1, <1>3, <2>2, <2>3, <2>4, ConvertedExpectation
  <1>14. 1 .. 6 = {1, 2, 3, 4, 5, 6}
    OBVIOUS
  <1> QED
    BY <1>8, <1>9, <1>10, <1>11, <1>12, <1>13, <1>14

-----------------------------------------------------------------------------
(***************************************************************************)
(* The run of a test of the suite: what is resolved is what was converted, *)
(* in the scope in which it was validated.                                 *)
(***************************************************************************)
Running ==
  \E p \in Positions(ast) : spec = ConvertTest(TestAt(ast, p)) /\ DOMAIN store = Visible(p)

Validating == phase \in {"blocks", "tests", "refused", "converted"}

RunInv ==
  /\ Validating => error = "none"
  /\ ~ Validating => Running /\ ResolutionInv

\* What runs depends on the tree, the test and its variables alone.
LEMMA RunningStays ==
  ASSUME UNCHANGED <<ast, spec, store>>
  PROVE  Running' <=> Running
  BY DEF Running, Visible

\* A test of a sound suite is sound in the scope of module Suites.
LEMMA SoundTests ==
  ASSUME ast \in Trees, IsSoundSuite, NEW p \in Positions(ast)
  PROVE  TestAt(ast, p) \in TestTree /\ TestIsClean(TestAt(ast, p), Visible(p))
  <1>1. TestAt(ast, p) \in TestTree
    BY SuiteForms
  <1>2. TestErrors(TestAt(ast, p), Visible(p)) = {}
    BY SoundSuites
  <1> QED
    BY <1>1, <1>2, TestDecides

\* A run starts with the path.
LEMMA RunTestStarts ==
  ASSUME WalkInv, RunInv, RunTest
  PROVE  RunInv'
  <1>1. /\ ast' = ast /\ phase = "converted" /\ phase' = "path" /\ error' = error
        /\ ast \in Trees /\ IsSoundSuite
    BY DEF RunTest, semanticVars, WalkInv
  <1>2. error' = "none"
    BY <1>1 DEF RunInv, Validating
  <1>3. PICK p \in Positions(ast) : /\ spec' = ConvertTest(TestAt(ast, p))
                                    /\ store' \in {s \in Stores : DOMAIN s = ScopeAt(Abstract(ast), p)}
    BY DEF RunTest
  <1>4. store' \in Stores /\ DOMAIN store' = Visible(p)
    BY <1>3 DEF Visible
  <1>5. spec' \in Spec
    <2>1. TestAt(ast, p) \in TestTree /\ TestIsClean(TestAt(ast, p), Visible(p))
      BY <1>1, SoundTests
    <2> QED
      BY <1>3, <2>1, TestConverts DEF TestIsClean
  <1>6. StoreIsTyped'
    BY <1>4, StoresAssumption DEF StoreIsTyped
  <1>7. Running'
    BY <1>1, <1>3, <1>4 DEF Running, Visible
  <1>8. Resolving(1)'
    <2>1. FitBefore(1)'
      BY DEF FitBefore
    <2> QED
      BY <1>1, <1>2, <2>1 DEF Resolving, Locations
  <1>9. ResolutionInv'
    BY <1>5, <1>6, <1>8 DEF ResolutionInv
  <1> QED
    BY <1>1, <1>7, <1>9 DEF RunInv, Validating

\* The resolution goes on in the scope in which it started.
LEMMA ResolutionKeepsRun ==
  ASSUME RunInv, ResolutionNext, UNCHANGED semanticVars
  PROVE  RunInv'
  <1>1. /\ phase \in {"path", "headers", "query", "body", "expected_headers", "expected_body"}
        /\ phase' \in {"headers", "query", "body", "expected_headers", "expected_body", "done"}
    BY PhasesOfResolution
  <1>2. ~ Validating /\ ~ Validating'
    BY <1>1 DEF Validating
  <1>3. ResolutionInv'
    BY <1>2, ResolutionSteps DEF RunInv
  <1>4. UNCHANGED <<ast, spec, store>>
    <2>1. \E r : Settle(r)
      BY DEF ResolutionNext, ResolvePath, ResolveHeaders, ResolveQuery, ResolveRequestBody,
             ResolveExpectedHeaders, ResolveBodyAssertion
    <2> QED
      BY <2>1 DEF Settle, semanticVars
  <1> QED
    BY <1>2, <1>3, <1>4, RunningStays DEF RunInv

\* Every step preserves the invariant.
LEMMA RunSteps ==
  WalkInv /\ RunInv /\ [SemanticsNext]_<<semanticVars, resolutionVars>> => RunInv'
  <1> SUFFICES ASSUME WalkInv, RunInv, [SemanticsNext]_<<semanticVars, resolutionVars>>
               PROVE  RunInv'
    OBVIOUS
  <1>1. CASE FindCores
    BY <1>1 DEF FindCores, RunInv, Validating
  <1>2. CASE EnterBlock
    BY <1>2 DEF EnterBlock, RunInv, Validating
  <1>3. CASE ValidateTest
    BY <1>3 DEF ValidateTest, RunInv, Validating
  <1>4. CASE Refuse
    BY <1>4 DEF Refuse, WalkIsOver, RunInv, Validating
  <1>5. CASE Convert
    <2>1. phase = "tests" /\ error' = error /\ phase' \in {"panic", "converted"}
      BY <1>5 DEF Convert, WalkIsOver
    <2>2. phase' # "panic"
      BY WalkSteps DEF WalkInv
    <2> QED
      BY <2>1, <2>2 DEF RunInv, Validating
  <1>6. CASE RunTest
    BY <1>6, RunTestStarts
  <1>7. CASE ResolutionNext /\ UNCHANGED semanticVars
    BY <1>7, ResolutionKeepsRun
  <1>8. CASE UNCHANGED <<semanticVars, resolutionVars>>
    <2>1. UNCHANGED <<ast, spec, store>> /\ phase' = phase /\ error' = error
      BY <1>8 DEF semanticVars, resolutionVars
    <2>2. ResolutionInv => ResolutionInv'
      BY <1>8, ResolutionSteps
    <2> QED
      BY <2>1, <2>2, RunningStays DEF RunInv, Validating
  <1> QED
    BY <1>1, <1>2, <1>3, <1>4, <1>5, <1>6, <1>7, <1>8 DEF SemanticsNext

\* An error at the end of a run has a reason that validation leaves to it.
LEMMA RunIsExecutable == WalkInv /\ RunInv => AcceptedMeansExecutable
  <1> SUFFICES ASSUME WalkInv, RunInv, phase = "done"
               PROVE  \/ error \in {"none", "bytes", "unsupported"}
                      \/ error = "nesting" /\ \E node \in SpecNodes : Takes(node)
    BY DEF AcceptedMeansExecutable, WalkInv
  <1>1. Running /\ ResolutionInv /\ ast \in Trees /\ IsSoundSuite
    BY DEF RunInv, Validating, WalkInv
  <1>2. PICK p \in Positions(ast) : spec = ConvertTest(TestAt(ast, p)) /\ DOMAIN store = Visible(p)
    BY <1>1 DEF Running
  <1>3. \A i \in 1 .. 6 : AreTame(NodesIn(i))
    <2>1. TestAt(ast, p) \in TestTree /\ TestIsClean(TestAt(ast, p), Visible(p))
      BY <1>1, SoundTests
    <2> QED
      BY <1>2, <2>1, ConvertedIsTame
  <1>4. CASE error = "none"
    BY <1>4
  <1>5. ASSUME NEW i \in 1 .. 6, Explains(NodesIn(i), error), error # "none"
        PROVE  \/ error \in {"bytes", "unsupported"}
               \/ error = "nesting" /\ \E node \in SpecNodes : Takes(node)
    <2>1. \A x \in NodesIn(i) : Tame(x) /\ x \in SpecNodes
      BY <1>3, AllNodes DEF AreTame
    <2>2. CASE error \in {"bytes", "unsupported"}
      BY <2>2
    <2>3. CASE error \notin {"bytes", "unsupported", "nesting"}
      BY <1>5, <2>1, <2>3 DEF Explains, Tame
    <2>4. CASE error = "nesting"
      <3>1. PICK x \in NodesIn(i) : SourceNesting(x) > MaxDepth \/ Takes(x)
        BY <1>5, <2>4 DEF Explains, TooDeep
      <3>2. SourceNesting(x) \in 0 .. MaxSemanticDepth /\ x \in SpecNodes
        BY <2>1 DEF Tame
      <3>3. ~ (SourceNesting(x) > MaxDepth)
        BY <3>2, SemanticDepthAssumption, LimitsArePositive
      <3> QED
        BY <2>4, <3>1, <3>2, <3>3
    <2> QED
      BY <2>2, <2>3, <2>4
  <1> QED
    BY <1>1, <1>4, <1>5, AtTheEnd DEF Faulted

\* What was accepted can be executed: the converter meets no `expect', and the
\* resolver neither a malformed nor an undefined placeholder, nor a depth that
\* it refuses, unless a structured variable brings it in.
THEOREM AcceptedRuns == SemanticsSpec => []AcceptedMeansExecutable
  <1>1. SemanticsInit => WalkInv
    BY WalkStarts
  <1>2. SemanticsInit => RunInv
    BY DEF SemanticsInit, RunInv, Validating
  <1>3. WalkInv /\ [SemanticsNext]_<<semanticVars, resolutionVars>> => WalkInv'
    BY WalkSteps
  <1>4. WalkInv /\ RunInv /\ [SemanticsNext]_<<semanticVars, resolutionVars>> => RunInv'
    BY RunSteps
  <1>5. WalkInv /\ RunInv => AcceptedMeansExecutable
    BY RunIsExecutable
  <1> QED
    BY <1>1, <1>2, <1>3, <1>4, <1>5, PTL DEF SemanticsSpec
=============================================================================
