-------------------------- MODULE ResolutionProofs --------------------------
(***************************************************************************)
(* Theorems about Resolution, for requests, expectations and variables of  *)
(* any size and height: resolution succeeds exactly if every node fits     *)
(* (ResolvesExactly), its first error is one that Suites foresees          *)
(* (AbstractionAgrees), and what the parser accepts is too deep only       *)
(* through a structured variable (AcceptedNestingResolves).                *)
(*                                                                         *)
(* The proof has three layers: the recursive definitions have solutions;   *)
(* for each of them, the result `Decides' the nodes below the value, by    *)
(* induction on the height; and a location after the other settles what    *)
(* its result decides (ResolutionInv).                                     *)
(***************************************************************************)
EXTENDS Resolution, TLAPS, WellFoundedInduction

(***************************************************************************)
(* Induction, from the least number for which a statement would be false.  *)
(***************************************************************************)
Less == {pair \in Nat \X Nat : pair[1] < pair[2]}

\* A set of natural numbers has a least element.
LEMMA LeastNumber ==
  ASSUME NEW S \in SUBSET Nat, S # {}
  PROVE  \E m \in S : \A k \in S : m <= k
  <1>1. IsWellFoundedOn(Less, Nat)
    BY NatLessThanWellFounded DEF Less, OpToRel
  <1>2. PICK m \in S : \A k \in S : <<k, m>> \notin Less
    BY <1>1, WFMin
  <1>3. \A k, n \in Nat : <<k, n>> \in Less <=> k < n
    BY DEF Less
  <1>4. \A k \in S : ~ (k < m)
    BY <1>2, <1>3
  <1> QED
    BY <1>4

-----------------------------------------------------------------------------
(***************************************************************************)
(* The recursive definitions.  Each is a function on heights, whose value  *)
(* at n is made of the one at n - 1 by a step; it is solved on 0 .. m for  *)
(* every m, since the least m without a solution would have one.           *)
(***************************************************************************)
\* Values.
ValuesStep(n, prev) ==
  TextValue \cup [kind : {"scalar", "infinite"}]
    \cup IF n = 0 THEN {} ELSE [kind : {"list"}, items : Seq(prev)]

IsValues(f, m) == f = [n \in 0 .. m |-> ValuesStep(n, f[n - 1])]

\* There are no lists at height 0.
LEMMA ValuesBase == \A p, q : ValuesStep(0, p) = ValuesStep(0, q)
  BY DEF ValuesStep

\* The recursive definition of ValueUpTo has a solution.
LEMMA ValuesExists == \E f : IsValues(f, MaxHeight)
  <1> DEFINE Bad == {m \in 0 .. MaxHeight : ~ \E f : IsValues(f, m)}
  <1>1. ASSUME NEW m \in Bad, \A k \in Bad : m <= k
        PROVE  FALSE
    <2>1. m # 0
      <3>1. IsValues([n \in 0 .. 0 |-> ValuesStep(0, 0)], 0)
        BY ValuesBase DEF IsValues
      <3> QED
        BY <1>1, <3>1
    <2>2. PICK f : IsValues(f, m - 1)
      <3>1. m - 1 \in 0 .. MaxHeight /\ ~ (m <= m - 1)
        BY <2>1, LimitsArePositive
      <3> QED
        BY <1>1, <3>1
    <2> DEFINE longer == [n \in 0 .. m |-> IF n = m THEN ValuesStep(m, f[m - 1]) ELSE f[n]]
    <2>3. ASSUME NEW n \in 0 .. m
          PROVE  longer[n] = ValuesStep(n, longer[n - 1])
      <3>1. CASE n = m
        BY <2>1, <3>1
      <3>2. CASE n # m
        <4>1. n \in 0 .. m - 1 /\ longer[n] = f[n]
          BY <3>2
        <4>2. f[n] = ValuesStep(n, f[n - 1])
          BY <2>2, <4>1 DEF IsValues
        <4>3. n # 0 => longer[n - 1] = f[n - 1]
          BY <3>2
        <4> QED
          BY <4>1, <4>2, <4>3, ValuesBase
      <3> QED
        BY <3>1, <3>2
    <2>4. IsValues(longer, m)
      BY <2>3 DEF IsValues
    <2> QED
      BY <1>1, <2>4
  <1>2. Bad \in SUBSET Nat
    BY LimitsArePositive
  <1>3. Bad = {}
    BY <1>1, <1>2, LeastNumber
  <1> QED
    BY <1>3, LimitsArePositive

\* What ValueUpTo is at each height.
LEMMA ValuesEquation == \A n \in 0 .. MaxHeight : ValueUpTo[n] = ValuesStep(n, ValueUpTo[n - 1])
  <1>1. IsValues(ValueUpTo, MaxHeight)
    BY ValuesExists DEF IsValues, ValueUpTo, ValuesStep
  <1> QED
    BY <1>1 DEF IsValues

\* Fields of object assertions.
FieldsStep(n, prev) ==
  Seq([expected : Seq(ValueUpTo[MaxHeight]), nested : IF n = 0 THEN {<<>>} ELSE Seq(prev)])

IsFields(f, m) == f = [n \in 0 .. m |-> FieldsStep(n, f[n - 1])]

\* No assertions are nested at height 0.
LEMMA FieldsBase == \A p, q : FieldsStep(0, p) = FieldsStep(0, q)
  BY DEF FieldsStep

\* The recursive definition of FieldsUpTo has a solution.
LEMMA FieldsExists == \E f : IsFields(f, MaxHeight)
  <1> DEFINE Bad == {m \in 0 .. MaxHeight : ~ \E f : IsFields(f, m)}
  <1>1. ASSUME NEW m \in Bad, \A k \in Bad : m <= k
        PROVE  FALSE
    <2>1. m # 0
      <3>1. IsFields([n \in 0 .. 0 |-> FieldsStep(0, 0)], 0)
        BY FieldsBase DEF IsFields
      <3> QED
        BY <1>1, <3>1
    <2>2. PICK f : IsFields(f, m - 1)
      <3>1. m - 1 \in 0 .. MaxHeight /\ ~ (m <= m - 1)
        BY <2>1, LimitsArePositive
      <3> QED
        BY <1>1, <3>1
    <2> DEFINE longer == [n \in 0 .. m |-> IF n = m THEN FieldsStep(m, f[m - 1]) ELSE f[n]]
    <2>3. ASSUME NEW n \in 0 .. m
          PROVE  longer[n] = FieldsStep(n, longer[n - 1])
      <3>1. CASE n = m
        BY <2>1, <3>1
      <3>2. CASE n # m
        <4>1. n \in 0 .. m - 1 /\ longer[n] = f[n]
          BY <3>2
        <4>2. f[n] = FieldsStep(n, f[n - 1])
          BY <2>2, <4>1 DEF IsFields
        <4>3. n # 0 => longer[n - 1] = f[n - 1]
          BY <3>2
        <4> QED
          BY <4>1, <4>2, <4>3, FieldsBase
      <3> QED
        BY <3>1, <3>2
    <2>4. IsFields(longer, m)
      BY <2>3 DEF IsFields
    <2> QED
      BY <1>1, <2>4
  <1>2. Bad \in SUBSET Nat
    BY LimitsArePositive
  <1>3. Bad = {}
    BY <1>1, <1>2, LeastNumber
  <1> QED
    BY <1>3, LimitsArePositive

\* What FieldsUpTo is at each height.
LEMMA FieldsEquation == \A n \in 0 .. MaxHeight : FieldsUpTo[n] = FieldsStep(n, FieldsUpTo[n - 1])
  <1>1. IsFields(FieldsUpTo, MaxHeight)
    BY FieldsExists DEF IsFields, FieldsUpTo, FieldsStep
  <1> QED
    BY <1>1 DEF IsFields

\* What a value of each height looks like.
LEMMA ValueForms ==
  ASSUME NEW n \in 0 .. MaxHeight, NEW v \in ValueUpTo[n]
  PROVE  \/ v.kind = "text" /\ v.text \in Seq(Fragment)
         \/ v.kind = "scalar"
         \/ v.kind = "infinite"
         \/ v.kind = "list" /\ n - 1 \in 0 .. MaxHeight /\ v.items \in Seq(ValueUpTo[n - 1])
  <1>1. v \in ValuesStep(n, ValueUpTo[n - 1])
    BY ValuesEquation
  <1>2. \/ v \in TextValue
        \/ v \in [kind : {"scalar", "infinite"}]
        \/ n # 0 /\ v \in [kind : {"list"}, items : Seq(ValueUpTo[n - 1])]
    BY <1>1 DEF ValuesStep
  <1>3. n # 0 => n - 1 \in 0 .. MaxHeight
    BY LimitsArePositive
  <1> QED
    BY <1>2, <1>3 DEF TextValue

\* At height 0 there are no lists, and the items of a list are nodes below.
LEMMA ItemIsNode ==
  ASSUME NEW n \in 0 .. MaxHeight, NEW node \in Node(n), node.value.kind = "list"
  PROVE  /\ n - 1 \in 0 .. MaxHeight
         /\ node.value.items \in Seq(ValueUpTo[n - 1])
         /\ \A i \in DOMAIN node.value.items : Item(node, i) \in Node(n - 1)
  <1>1. node.value \in ValueUpTo[n] /\ node.whole \in BOOLEAN /\ node.depth \in Nat
    BY DEF Node
  <1>2. n - 1 \in 0 .. MaxHeight /\ node.value.items \in Seq(ValueUpTo[n - 1])
    BY <1>1, ValueForms
  <1>3. ASSUME NEW i \in DOMAIN node.value.items
        PROVE  Item(node, i) \in Node(n - 1)
    <2>1. node.value.items[i] \in ValueUpTo[n - 1]
      BY <1>2
    <2>2. node.depth + 1 \in Nat
      BY <1>1
    <2> QED
      BY <1>1, <2>1, <2>2 DEF Item, NodeAt, Node
  <1> QED
    BY <1>2, <1>3

\* Nothing is below the nodes of height 0.
LEMMA FlatNodes == \A node \in Node(0) : node.value.kind # "list"
  <1>1. 0 \in 0 .. MaxHeight /\ 0 - 1 \notin 0 .. MaxHeight
    BY LimitsArePositive
  <1> QED
    BY <1>1, ItemIsNode

\* The nodes of a value.
NodesStep(n, prev) ==
  [node \in Node(n) |->
     {node} \cup IF node.value.kind = "list"
                 THEN UNION {prev[Item(node, i)] : i \in DOMAIN node.value.items}
                 ELSE {}]

IsNodes(f, m) == f = [n \in 0 .. m |-> NodesStep(n, f[n - 1])]

\* A node of height 0 is its only one.
LEMMA NodesBase == \A p, q : NodesStep(0, p) = NodesStep(0, q)
  BY FlatNodes DEF NodesStep

\* The recursive definition of NodesUpTo has a solution.
LEMMA NodesExists == \E f : IsNodes(f, MaxHeight)
  <1> DEFINE Bad == {m \in 0 .. MaxHeight : ~ \E f : IsNodes(f, m)}
  <1>1. ASSUME NEW m \in Bad, \A k \in Bad : m <= k
        PROVE  FALSE
    <2>1. m # 0
      <3>1. IsNodes([n \in 0 .. 0 |-> NodesStep(0, 0)], 0)
        BY NodesBase DEF IsNodes
      <3> QED
        BY <1>1, <3>1
    <2>2. PICK f : IsNodes(f, m - 1)
      <3>1. m - 1 \in 0 .. MaxHeight /\ ~ (m <= m - 1)
        BY <2>1, LimitsArePositive
      <3> QED
        BY <1>1, <3>1
    <2> DEFINE longer == [n \in 0 .. m |-> IF n = m THEN NodesStep(m, f[m - 1]) ELSE f[n]]
    <2>3. ASSUME NEW n \in 0 .. m
          PROVE  longer[n] = NodesStep(n, longer[n - 1])
      <3>1. CASE n = m
        BY <2>1, <3>1
      <3>2. CASE n # m
        <4>1. n \in 0 .. m - 1 /\ longer[n] = f[n]
          BY <3>2
        <4>2. f[n] = NodesStep(n, f[n - 1])
          BY <2>2, <4>1 DEF IsNodes
        <4>3. n # 0 => longer[n - 1] = f[n - 1]
          BY <3>2
        <4> QED
          BY <4>1, <4>2, <4>3, NodesBase
      <3> QED
        BY <3>1, <3>2
    <2>4. IsNodes(longer, m)
      BY <2>3 DEF IsNodes
    <2> QED
      BY <1>1, <2>4
  <1>2. Bad \in SUBSET Nat
    BY LimitsArePositive
  <1>3. Bad = {}
    BY <1>1, <1>2, LeastNumber
  <1> QED
    BY <1>3, LimitsArePositive

\* What NodesUpTo is at each height.
LEMMA NodesEquation == \A n \in 0 .. MaxHeight : NodesUpTo[n] = NodesStep(n, NodesUpTo[n - 1])
  <1>1. IsNodes(NodesUpTo, MaxHeight)
    BY NodesExists DEF IsNodes, NodesUpTo, NodesStep
  <1> QED
    BY <1>1 DEF IsNodes

\* The bounded clone.
ClonesStep(n, prev) ==
  [node \in Node(n) |->
     IF ~ EnterDepth(node.depth) THEN Err("nesting")
     ELSE IF node.value.kind # "list" THEN Ok(node.value)
     ELSE Collect([i \in DOMAIN node.value.items |-> prev[Item(node, i)]])]

IsClones(f, m) == f = [n \in 0 .. m |-> ClonesStep(n, f[n - 1])]

\* At height 0 it has no recursive call.
LEMMA ClonesBase == \A p, q : ClonesStep(0, p) = ClonesStep(0, q)
  BY FlatNodes DEF ClonesStep

\* The recursive definition of CloneUpTo has a solution.
LEMMA ClonesExists == \E f : IsClones(f, MaxHeight)
  <1> DEFINE Bad == {m \in 0 .. MaxHeight : ~ \E f : IsClones(f, m)}
  <1>1. ASSUME NEW m \in Bad, \A k \in Bad : m <= k
        PROVE  FALSE
    <2>1. m # 0
      <3>1. IsClones([n \in 0 .. 0 |-> ClonesStep(0, 0)], 0)
        BY ClonesBase DEF IsClones
      <3> QED
        BY <1>1, <3>1
    <2>2. PICK f : IsClones(f, m - 1)
      <3>1. m - 1 \in 0 .. MaxHeight /\ ~ (m <= m - 1)
        BY <2>1, LimitsArePositive
      <3> QED
        BY <1>1, <3>1
    <2> DEFINE longer == [n \in 0 .. m |-> IF n = m THEN ClonesStep(m, f[m - 1]) ELSE f[n]]
    <2>3. ASSUME NEW n \in 0 .. m
          PROVE  longer[n] = ClonesStep(n, longer[n - 1])
      <3>1. CASE n = m
        BY <2>1, <3>1
      <3>2. CASE n # m
        <4>1. n \in 0 .. m - 1 /\ longer[n] = f[n]
          BY <3>2
        <4>2. f[n] = ClonesStep(n, f[n - 1])
          BY <2>2, <4>1 DEF IsClones
        <4>3. n # 0 => longer[n - 1] = f[n - 1]
          BY <3>2
        <4> QED
          BY <4>1, <4>2, <4>3, ClonesBase
      <3> QED
        BY <3>1, <3>2
    <2>4. IsClones(longer, m)
      BY <2>3 DEF IsClones
    <2> QED
      BY <1>1, <2>4
  <1>2. Bad \in SUBSET Nat
    BY LimitsArePositive
  <1>3. Bad = {}
    BY <1>1, <1>2, LeastNumber
  <1> QED
    BY <1>3, LimitsArePositive

\* What CloneUpTo is at each height.
LEMMA ClonesEquation == \A n \in 0 .. MaxHeight : CloneUpTo[n] = ClonesStep(n, CloneUpTo[n - 1])
  <1>1. IsClones(CloneUpTo, MaxHeight)
    BY ClonesExists DEF IsClones, CloneUpTo, ClonesStep
  <1> QED
    BY <1>1 DEF IsClones

\* The resolution of a value.
ResolvesStep(n, prev) ==
  [node \in Node(n) |->
     IF ~ EnterDepth(node.depth) THEN Err("nesting")
     ELSE CASE node.value.kind = "text" -> ResolveText(node.value.text, node.whole, node.depth)
            [] node.value.kind = "scalar" -> Ok(node.value)
            [] node.value.kind = "infinite" -> Err("infinite")
            [] node.value.kind = "list" ->
                 Collect([i \in DOMAIN node.value.items |-> prev[Item(node, i)]])]

IsResolves(f, m) == f = [n \in 0 .. m |-> ResolvesStep(n, f[n - 1])]

\* At height 0 it has no recursive call.
LEMMA ResolvesBase == \A p, q : ResolvesStep(0, p) = ResolvesStep(0, q)
  BY FlatNodes DEF ResolvesStep

\* The recursive definition of ResolveUpTo has a solution.
LEMMA ResolvesExists == \E f : IsResolves(f, MaxHeight)
  <1> DEFINE Bad == {m \in 0 .. MaxHeight : ~ \E f : IsResolves(f, m)}
  <1>1. ASSUME NEW m \in Bad, \A k \in Bad : m <= k
        PROVE  FALSE
    <2>1. m # 0
      <3>1. IsResolves([n \in 0 .. 0 |-> ResolvesStep(0, 0)], 0)
        BY ResolvesBase DEF IsResolves
      <3> QED
        BY <1>1, <3>1
    <2>2. PICK f : IsResolves(f, m - 1)
      <3>1. m - 1 \in 0 .. MaxHeight /\ ~ (m <= m - 1)
        BY <2>1, LimitsArePositive
      <3> QED
        BY <1>1, <3>1
    <2> DEFINE longer == [n \in 0 .. m |-> IF n = m THEN ResolvesStep(m, f[m - 1]) ELSE f[n]]
    <2>3. ASSUME NEW n \in 0 .. m
          PROVE  longer[n] = ResolvesStep(n, longer[n - 1])
      <3>1. CASE n = m
        BY <2>1, <3>1
      <3>2. CASE n # m
        <4>1. n \in 0 .. m - 1 /\ longer[n] = f[n]
          BY <3>2
        <4>2. f[n] = ResolvesStep(n, f[n - 1])
          BY <2>2, <4>1 DEF IsResolves
        <4>3. n # 0 => longer[n - 1] = f[n - 1]
          BY <3>2
        <4> QED
          BY <4>1, <4>2, <4>3, ResolvesBase
      <3> QED
        BY <3>1, <3>2
    <2>4. IsResolves(longer, m)
      BY <2>3 DEF IsResolves
    <2> QED
      BY <1>1, <2>4
  <1>2. Bad \in SUBSET Nat
    BY LimitsArePositive
  <1>3. Bad = {}
    BY <1>1, <1>2, LeastNumber
  <1> QED
    BY <1>3, LimitsArePositive

\* What ResolveUpTo is at each height.
LEMMA ResolvesEquation == \A n \in 0 .. MaxHeight : ResolveUpTo[n] = ResolvesStep(n, ResolveUpTo[n - 1])
  <1>1. IsResolves(ResolveUpTo, MaxHeight)
    BY ResolvesExists DEF IsResolves, ResolveUpTo, ResolvesStep
  <1> QED
    BY <1>1 DEF IsResolves

-----------------------------------------------------------------------------
(***************************************************************************)
(* Object assertions.                                                      *)
(***************************************************************************)

\* What a field of each height looks like.
LEMMA FieldForms ==
  ASSUME NEW n \in 0 .. MaxHeight, NEW object \in ObjectAssertion(n)
  PROVE  /\ object.depth \in Nat
         /\ DOMAIN object.fields = 1 .. Len(object.fields) /\ Len(object.fields) \in Nat
         /\ \A i \in DOMAIN object.fields :
              /\ object.fields[i].expected \in Seq(Value)
              /\ \/ object.fields[i].nested = <<>>
                 \/ /\ n - 1 \in 0 .. MaxHeight
                    /\ object.fields[i].nested \in Seq(FieldsUpTo[n - 1])
  <1>1. object.fields \in FieldsStep(n, FieldsUpTo[n - 1]) /\ object.depth \in Nat
    BY FieldsEquation DEF ObjectAssertion
  <1>2. n # 0 => n - 1 \in 0 .. MaxHeight
    BY LimitsArePositive
  <1> DEFINE F == [expected : Seq(ValueUpTo[MaxHeight]),
                   nested : IF n = 0 THEN {<<>>} ELSE Seq(FieldsUpTo[n - 1])]
  <1>3. object.fields \in Seq(F)
    BY <1>1 DEF FieldsStep
  <1>4. \A i \in DOMAIN object.fields : object.fields[i] \in F
    <2> HIDE DEF F
    <2> QED
      BY <1>3
  <1>5. \A f \in F : /\ f.expected \in Seq(Value)
                     /\ f.nested = <<>> \/ (n # 0 /\ f.nested \in Seq(FieldsUpTo[n - 1]))
    BY DEF Value
  <1> HIDE DEF F
  <1> QED
    BY <1>1, <1>2, <1>3, <1>4, <1>5

\* The assertions below a field are object assertions of the height below.
LEMMA NestedIsAssertion ==
  ASSUME NEW n \in 0 .. MaxHeight, NEW object \in ObjectAssertion(n),
         NEW i \in DOMAIN object.fields, NEW j \in DOMAIN object.fields[i].nested,
         NEW depth \in Nat
  PROVE  /\ n - 1 \in 0 .. MaxHeight
         /\ AssertionAt(object.fields[i].nested[j], depth) \in ObjectAssertion(n - 1)
  <1>1. object.fields[i].nested # <<>>
    OBVIOUS
  <1>2. n - 1 \in 0 .. MaxHeight /\ object.fields[i].nested \in Seq(FieldsUpTo[n - 1])
    BY <1>1, FieldForms
  <1> QED
    BY <1>2 DEF AssertionAt, ObjectAssertion

\* No assertions are nested at height 0.
LEMMA FlatFields ==
  \A object \in ObjectAssertion(0) : \A i \in DOMAIN object.fields : object.fields[i].nested = <<>>
  <1>1. 0 \in 0 .. MaxHeight /\ 0 - 1 \notin 0 .. MaxHeight
    BY LimitsArePositive
  <1> QED
    BY <1>1, FieldForms

\* The nodes of an object assertion.
NodesOfField(f, depth, prev) ==
  {NodeAt(Plain("scalar"), TRUE, depth)}
    \cup (UNION {NodesOf(f.expected[i], TRUE, depth) : i \in DOMAIN f.expected})
    \cup (UNION {prev[AssertionAt(f.nested[i], depth)] : i \in DOMAIN f.nested})

FieldNodesStep(n, prev) ==
  [object \in ObjectAssertion(n) |->
     UNION {NodesOfField(f, object.depth + 1, prev) : f \in ToSet(object.fields)}]

IsFieldNodes(f, m) == f = [n \in 0 .. m |-> FieldNodesStep(n, f[n - 1])]

\* At height 0 it has no recursive call.
LEMMA FieldNodesBase == \A p, q : FieldNodesStep(0, p) = FieldNodesStep(0, q)
  <1> SUFFICES ASSUME NEW p, NEW q
               PROVE  FieldNodesStep(0, p) = FieldNodesStep(0, q)
    OBVIOUS
  <1>1. ASSUME NEW object \in ObjectAssertion(0), NEW f \in ToSet(object.fields)
        PROVE  NodesOfField(f, object.depth + 1, p) = NodesOfField(f, object.depth + 1, q)
    <2>1. f.nested = <<>>
      BY FlatFields DEF ToSet
    <2>2. DOMAIN f.nested = {}
      BY <2>1
    <2> QED
      BY <2>2 DEF NodesOfField
  <1>2. ASSUME NEW object \in ObjectAssertion(0)
        PROVE  UNION {NodesOfField(f, object.depth + 1, p) : f \in ToSet(object.fields)}
                 = UNION {NodesOfField(f, object.depth + 1, q) : f \in ToSet(object.fields)}
    BY <1>1
  <1> QED
    BY <1>2 DEF FieldNodesStep

\* The recursive definition of FieldNodesUpTo has a solution.
LEMMA FieldNodesExists == \E f : IsFieldNodes(f, MaxHeight)
  <1> DEFINE Bad == {m \in 0 .. MaxHeight : ~ \E f : IsFieldNodes(f, m)}
  <1>1. ASSUME NEW m \in Bad, \A k \in Bad : m <= k
        PROVE  FALSE
    <2>1. m # 0
      <3>1. IsFieldNodes([n \in 0 .. 0 |-> FieldNodesStep(0, 0)], 0)
        BY FieldNodesBase DEF IsFieldNodes
      <3> QED
        BY <1>1, <3>1
    <2>2. PICK f : IsFieldNodes(f, m - 1)
      <3>1. m - 1 \in 0 .. MaxHeight /\ ~ (m <= m - 1)
        BY <2>1, LimitsArePositive
      <3> QED
        BY <1>1, <3>1
    <2> DEFINE longer == [n \in 0 .. m |-> IF n = m THEN FieldNodesStep(m, f[m - 1]) ELSE f[n]]
    <2>3. ASSUME NEW n \in 0 .. m
          PROVE  longer[n] = FieldNodesStep(n, longer[n - 1])
      <3>1. CASE n = m
        BY <2>1, <3>1
      <3>2. CASE n # m
        <4>1. n \in 0 .. m - 1 /\ longer[n] = f[n]
          BY <3>2
        <4>2. f[n] = FieldNodesStep(n, f[n - 1])
          BY <2>2, <4>1 DEF IsFieldNodes
        <4>3. n # 0 => longer[n - 1] = f[n - 1]
          BY <3>2
        <4> QED
          BY <4>1, <4>2, <4>3, FieldNodesBase
      <3> QED
        BY <3>1, <3>2
    <2>4. IsFieldNodes(longer, m)
      BY <2>3 DEF IsFieldNodes
    <2> QED
      BY <1>1, <2>4
  <1>2. Bad \in SUBSET Nat
    BY LimitsArePositive
  <1>3. Bad = {}
    BY <1>1, <1>2, LeastNumber
  <1> QED
    BY <1>3, LimitsArePositive

\* What FieldNodesUpTo is at each height.
LEMMA FieldNodesEquation == \A n \in 0 .. MaxHeight : FieldNodesUpTo[n] = FieldNodesStep(n, FieldNodesUpTo[n - 1])
  <1>1. IsFieldNodes(FieldNodesUpTo, MaxHeight)
    BY FieldNodesExists DEF IsFieldNodes, FieldNodesUpTo, FieldNodesStep, NodesOfField
  <1> QED
    BY <1>1 DEF IsFieldNodes

\* The resolution of an object assertion.
ResolvedField(f, depth, prev) ==
  IF ~ EnterDepth(depth) THEN Err("nesting")
  ELSE Collect([i \in DOMAIN f.expected |-> ResolveValue(f.expected[i], TRUE, depth)]
               \o [i \in DOMAIN f.nested |-> prev[AssertionAt(f.nested[i], NestedDepth(depth))]])

ObjectsStep(n, prev) ==
  [object \in ObjectAssertion(n) |->
     IF ~ EnterDepth(object.depth) THEN Err("nesting")
     ELSE Collect([i \in DOMAIN object.fields |->
                     ResolvedField(object.fields[i], object.depth + 1, prev)])]

IsObjects(f, m) == f = [n \in 0 .. m |-> ObjectsStep(n, f[n - 1])]

\* At height 0 it has no recursive call.
LEMMA ObjectsBase == \A p, q : ObjectsStep(0, p) = ObjectsStep(0, q)
  <1> SUFFICES ASSUME NEW p, NEW q
               PROVE  ObjectsStep(0, p) = ObjectsStep(0, q)
    OBVIOUS
  <1>1. ASSUME NEW object \in ObjectAssertion(0), NEW i \in DOMAIN object.fields
        PROVE  ResolvedField(object.fields[i], object.depth + 1, p)
                 = ResolvedField(object.fields[i], object.depth + 1, q)
    <2>1. DOMAIN object.fields[i].nested = {}
      BY FlatFields
    <2> QED
      BY <2>1 DEF ResolvedField
  <1>2. ASSUME NEW object \in ObjectAssertion(0)
        PROVE  [i \in DOMAIN object.fields |-> ResolvedField(object.fields[i], object.depth + 1, p)]
                 = [i \in DOMAIN object.fields |-> ResolvedField(object.fields[i], object.depth + 1, q)]
    BY <1>1
  <1> QED
    BY <1>2 DEF ObjectsStep

\* The recursive definition of ResolveObjectUpTo has a solution.
LEMMA ObjectsExists == \E f : IsObjects(f, MaxHeight)
  <1> DEFINE Bad == {m \in 0 .. MaxHeight : ~ \E f : IsObjects(f, m)}
  <1>1. ASSUME NEW m \in Bad, \A k \in Bad : m <= k
        PROVE  FALSE
    <2>1. m # 0
      <3>1. IsObjects([n \in 0 .. 0 |-> ObjectsStep(0, 0)], 0)
        BY ObjectsBase DEF IsObjects
      <3> QED
        BY <1>1, <3>1
    <2>2. PICK f : IsObjects(f, m - 1)
      <3>1. m - 1 \in 0 .. MaxHeight /\ ~ (m <= m - 1)
        BY <2>1, LimitsArePositive
      <3> QED
        BY <1>1, <3>1
    <2> DEFINE longer == [n \in 0 .. m |-> IF n = m THEN ObjectsStep(m, f[m - 1]) ELSE f[n]]
    <2>3. ASSUME NEW n \in 0 .. m
          PROVE  longer[n] = ObjectsStep(n, longer[n - 1])
      <3>1. CASE n = m
        BY <2>1, <3>1
      <3>2. CASE n # m
        <4>1. n \in 0 .. m - 1 /\ longer[n] = f[n]
          BY <3>2
        <4>2. f[n] = ObjectsStep(n, f[n - 1])
          BY <2>2, <4>1 DEF IsObjects
        <4>3. n # 0 => longer[n - 1] = f[n - 1]
          BY <3>2
        <4> QED
          BY <4>1, <4>2, <4>3, ObjectsBase
      <3> QED
        BY <3>1, <3>2
    <2>4. IsObjects(longer, m)
      BY <2>3 DEF IsObjects
    <2> QED
      BY <1>1, <2>4
  <1>2. Bad \in SUBSET Nat
    BY LimitsArePositive
  <1>3. Bad = {}
    BY <1>1, <1>2, LeastNumber
  <1> QED
    BY <1>3, LimitsArePositive

\* What ResolveObjectUpTo is at each height.
LEMMA ObjectsEquation == \A n \in 0 .. MaxHeight : ResolveObjectUpTo[n] = ObjectsStep(n, ResolveObjectUpTo[n - 1])
  <1>1. IsObjects(ResolveObjectUpTo, MaxHeight)
    BY ObjectsExists DEF IsObjects, ResolveObjectUpTo, ObjectsStep, ResolvedField
  <1> QED
    BY <1>1 DEF IsObjects

-----------------------------------------------------------------------------
(***************************************************************************)
(* Texts.                                                                  *)
(***************************************************************************)
StoreIsTyped ==
  DOMAIN store \subseteq Names /\ \A n \in DOMAIN store : store[n] \in VariableValue

\* A fragment that no store with these names can resolve.
NotBound(f) ==
  f.kind = "unterminated" \/ (f.kind = "placeholder" /\ f.name \notin DOMAIN store)

\* What lookup returns.
LEMMA LookupDecides ==
  ASSUME StoreIsTyped, NEW f \in Fragment
  PROVE  /\ Lookup(f) = "none" <=> (f.name \in DOMAIN store /\ f.size <= MaxBytes)
         /\ Lookup(f) \notin {"none", "bytes"} => f.name \notin DOMAIN store
         /\ Lookup(f) = "undefined" => f.name \notin DOMAIN store
         /\ Lookup(f) \notin {"unsupported", "nesting"}
  <1> DEFINE fits == f.size <= MaxBytes
             known == f.name \in Names
             visible == f.name \in DOMAIN store
             empty == f.name = ""
  <1>1. f.size > MaxBytes <=> ~ fits
    BY LimitsArePositive DEF Fragment
  <1>2. visible => known /\ ~ empty
    BY NamesAreNotEmpty DEF StoreIsTyped
  <1>3. Lookup(f) = CASE empty -> "empty"
                      [] ~ empty /\ ~ fits -> "bytes"
                      [] ~ empty /\ fits /\ ~ known -> "invalid"
                      [] known /\ ~ visible /\ fits -> "undefined"
                      [] OTHER -> "none"
    BY <1>1 DEF Lookup
  <1>4. empty => ~ known
    BY NamesAreNotEmpty
  <1> HIDE DEF fits, known, visible, empty
  <1>5. /\ empty => Lookup(f) = "empty"
        /\ ~ empty /\ ~ fits => Lookup(f) = "bytes"
        /\ ~ empty /\ fits /\ ~ known => Lookup(f) = "invalid"
        /\ known /\ ~ visible /\ fits => Lookup(f) = "undefined"
        /\ known /\ visible /\ fits => Lookup(f) = "none"
    BY <1>2, <1>3, <1>4
  <1>6. /\ Lookup(f) = "none" <=> (visible /\ fits)
        /\ Lookup(f) \notin {"none", "bytes"} => ~ visible
        /\ Lookup(f) = "undefined" => ~ visible
        /\ Lookup(f) \notin {"unsupported", "nesting"}
    BY <1>2, <1>4, <1>5
  <1> QED
    BY <1>6 DEF fits, visible

\* One fragment is appended, or refused for a reason of its own.
LEMMA FragmentDecides ==
  ASSUME StoreIsTyped, NEW f \in Fragment,
         NEW sofar, sofar.error = "none", sofar.value \in Nat
  PROVE  LET r == InterpolateFragment(sofar, f)
         IN /\ r.error = "none" <=> /\ Usable(f) /\ ~ IsStructured(f)
                                    /\ sofar.value + FragmentSize(f) <= MaxBytes
            /\ r.error = "none" => r.value = sofar.value + FragmentSize(f)
            /\ Usable(f) => FragmentSize(f) \in Nat
            /\ r.error = "undefined" => f.kind = "placeholder" /\ f.name \notin DOMAIN store
            /\ r.error = "unsupported" => IsStructured(f)
            /\ r.error # "nesting"
            /\ r.error \notin {"none", "bytes", "unsupported"} => NotBound(f)
  <1> DEFINE r == InterpolateFragment(sofar, f)
  <1>0. /\ f.size \in Nat /\ MaxBytes \in Nat
        /\ f.kind \in {"literal", "placeholder", "unterminated"}
    BY LimitsArePositive DEF Fragment
  <1>1. \A length, size \in Nat :
          /\ PushBounded(length, size).error \in {"none", "bytes"}
          /\ PushBounded(length, size).error = "none" <=> length + size <= MaxBytes
          /\ PushBounded(length, size).error = "none" => PushBounded(length, size).value = length + size
    BY <1>0 DEF PushBounded, Ok, Err
  <1>2. CASE f.kind = "literal"
    <2>1. r = PushBounded(sofar.value, f.size)
      BY <1>2 DEF InterpolateFragment
    <2> QED
      BY <1>0, <1>1, <1>2, <2>1 DEF Usable, IsStructured, FragmentSize
  <1>3. CASE f.kind = "unterminated"
    <2>1. r = Err("unterminated")
      BY <1>3 DEF InterpolateFragment
    <2> QED
      BY <1>3, <2>1 DEF Usable, Err, NotBound
  <1>4. CASE f.kind = "placeholder"
    <2>1. r = IF Lookup(f) # "none" THEN Err(Lookup(f))
              ELSE IF store[f.name].structured THEN Err("unsupported")
              ELSE PushBounded(sofar.value, store[f.name].size)
      BY <1>4 DEF InterpolateFragment
    <2>2. Usable(f) <=> f.name \in DOMAIN store /\ f.size <= MaxBytes
      BY <1>4 DEF Usable
    <2>3. IsStructured(f) <=> f.name \in DOMAIN store /\ store[f.name].structured
      BY <1>4 DEF IsStructured
    <2>4. FragmentSize(f) = store[f.name].size
      BY <1>4 DEF FragmentSize
    <2>5. f.name \in DOMAIN store => store[f.name].size \in Nat
      BY DEF StoreIsTyped, VariableValue
    <2>6. CASE Lookup(f) # "none"
      <3>1. r.error = Lookup(f)
        BY <2>1, <2>6 DEF Err
      <3> QED
        BY <1>4, <2>2, <2>4, <2>5, <2>6, <3>1, LookupDecides DEF NotBound
    <2>7. CASE Lookup(f) = "none" /\ store[f.name].structured
      <3>1. r.error = "unsupported"
        BY <2>1, <2>7 DEF Err
      <3> QED
        BY <2>2, <2>3, <2>4, <2>5, <2>7, <3>1, LookupDecides
    <2>8. CASE Lookup(f) = "none" /\ ~ store[f.name].structured
      <3>1. r = PushBounded(sofar.value, store[f.name].size)
        BY <2>1, <2>8
      <3>2. f.name \in DOMAIN store /\ f.size <= MaxBytes
        BY <2>8, LookupDecides
      <3> QED
        BY <1>1, <2>2, <2>3, <2>4, <2>5, <2>8, <3>1, <3>2
    <2> QED
      BY <2>6, <2>7, <2>8
  <1> QED
    BY <1>0, <1>2, <1>3, <1>4

IsInterpolation(f, text, m) == f = [n \in 0 .. m |-> IF n = 0 THEN Ok(0) ELSE InterpolateFragment(f[n - 1], text[n])]

\* The loop of interpolate, after each fragment.
LEMMA InterpolationExists ==
  ASSUME NEW text, NEW length \in Nat
  PROVE  \E f : IsInterpolation(f, text, length)
  <1> DEFINE Bad == {m \in 0 .. length : ~ \E f : IsInterpolation(f, text, m)}
  <1>1. ASSUME NEW m \in Bad, \A k \in Bad : m <= k
        PROVE  FALSE
    <2>1. m # 0
      <3>1. IsInterpolation([n \in 0 .. 0 |-> Ok(0)], text, 0)
        BY DEF IsInterpolation
      <3> QED
        BY <1>1, <3>1
    <2>2. PICK f : IsInterpolation(f, text, m - 1)
      <3>1. m - 1 \in 0 .. length /\ ~ (m <= m - 1)
        BY <2>1
      <3> QED
        BY <1>1, <3>1
    <2> DEFINE last == InterpolateFragment(f[m - 1], text[m])
               longer == [n \in 0 .. m |-> IF n = m THEN last ELSE f[n]]
    <2>3. ASSUME NEW n \in 0 .. m
          PROVE  longer[n] = IF n = 0 THEN Ok(0) ELSE InterpolateFragment(longer[n - 1], text[n])
      <3>1. CASE n = m
        BY <2>1, <3>1
      <3>2. CASE n # m
        <4>1. n \in 0 .. m - 1 /\ longer[n] = f[n]
          BY <3>2
        <4>2. f[n] = IF n = 0 THEN Ok(0) ELSE InterpolateFragment(f[n - 1], text[n])
          BY <2>2, <4>1 DEF IsInterpolation
        <4>3. n # 0 => longer[n - 1] = f[n - 1]
          BY <3>2
        <4> QED
          BY <4>1, <4>2, <4>3
      <3> QED
        BY <3>1, <3>2
    <2> HIDE DEF last
    <2>4. IsInterpolation(longer, text, m)
      BY <2>3 DEF IsInterpolation
    <2> QED
      BY <1>1, <2>4
  <1>2. Bad \in SUBSET Nat
    OBVIOUS
  <1>3. Bad = {}
    BY <1>1, <1>2, LeastNumber
  <1> QED
    BY <1>3

IsTotal(f, text, m) == f = [n \in 0 .. m |-> IF n = 0 THEN 0 ELSE f[n - 1] + FragmentSize(text[n])]

\* The running size of a text.
LEMMA TotalExists ==
  ASSUME NEW text, NEW length \in Nat
  PROVE  \E f : IsTotal(f, text, length)
  <1> DEFINE Bad == {m \in 0 .. length : ~ \E f : IsTotal(f, text, m)}
  <1>1. ASSUME NEW m \in Bad, \A k \in Bad : m <= k
        PROVE  FALSE
    <2>1. m # 0
      <3>1. IsTotal([n \in 0 .. 0 |-> 0], text, 0)
        BY DEF IsTotal
      <3> QED
        BY <1>1, <3>1
    <2>2. PICK f : IsTotal(f, text, m - 1)
      <3>1. m - 1 \in 0 .. length /\ ~ (m <= m - 1)
        BY <2>1
      <3> QED
        BY <1>1, <3>1
    <2> DEFINE last == f[m - 1] + FragmentSize(text[m])
               longer == [n \in 0 .. m |-> IF n = m THEN last ELSE f[n]]
    <2>3. ASSUME NEW n \in 0 .. m
          PROVE  longer[n] = IF n = 0 THEN 0 ELSE longer[n - 1] + FragmentSize(text[n])
      <3>1. CASE n = m
        BY <2>1, <3>1
      <3>2. CASE n # m
        <4>1. n \in 0 .. m - 1 /\ longer[n] = f[n]
          BY <3>2
        <4>2. f[n] = IF n = 0 THEN 0 ELSE f[n - 1] + FragmentSize(text[n])
          BY <2>2, <4>1 DEF IsTotal
        <4>3. n # 0 => longer[n - 1] = f[n - 1]
          BY <3>2
        <4> QED
          BY <4>1, <4>2, <4>3
      <3> QED
        BY <3>1, <3>2
    <2> HIDE DEF last
    <2>4. IsTotal(longer, text, m)
      BY <2>3 DEF IsTotal
    <2> QED
      BY <1>1, <2>4
  <1>2. Bad \in SUBSET Nat
    OBVIOUS
  <1>3. Bad = {}
    BY <1>1, <1>2, LeastNumber
  <1> QED
    BY <1>3

\* The two loops of a text: what interpolate has after each fragment, and the
\* size up to there.
LEMMA TextLoops ==
  ASSUME NEW text \in Seq(Fragment)
  PROVE  \E after, total :
            /\ IsInterpolation(after, text, Len(text)) /\ Interpolate(text) = after[Len(text)]
            /\ IsTotal(total, text, Len(text)) /\ Size(text) = total[Len(text)]
  <1>0. Len(text) \in Nat
    OBVIOUS
  <1> DEFINE after == CHOOSE f : IsInterpolation(f, text, Len(text))
             total == CHOOSE f : IsTotal(f, text, Len(text))
  <1>1. IsInterpolation(after, text, Len(text)) /\ IsTotal(total, text, Len(text))
    BY <1>0, InterpolationExists, TotalExists
  <1>2. Interpolate(text) = after[Len(text)]
    BY DEF Interpolate, IsInterpolation
  <1>3. Size(text) = total[Len(text)]
    BY DEF Size, IsTotal
  <1> QED
    BY <1>1, <1>2, <1>3

\* What is known after n fragments.
Progress(after, total, text, n) ==
  /\ after[n].error = "none" <=> /\ \A i \in 1 .. n : Usable(text[i]) /\ ~ IsStructured(text[i])
                                 /\ total[n] <= MaxBytes
  /\ after[n].error = "none" => after[n].value = total[n]
  /\ (\A i \in 1 .. n : Usable(text[i])) => total[n] \in Nat
  /\ after[n].error = "undefined" =>
       \E i \in 1 .. n : text[i].kind = "placeholder" /\ text[i].name \notin DOMAIN store
  /\ after[n].error = "unsupported" => \E i \in 1 .. n : IsStructured(text[i])
  /\ after[n].error # "nesting"
  /\ after[n].error \notin {"none", "bytes", "unsupported"} => \E i \in 1 .. n : NotBound(text[i])

\* One more fragment.
LEMMA ProgressStep ==
  ASSUME StoreIsTyped, NEW text \in Seq(Fragment), NEW after, NEW total,
         IsInterpolation(after, text, Len(text)), IsTotal(total, text, Len(text)),
         NEW n \in Nat, n < Len(text), Progress(after, total, text, n)
  PROVE  Progress(after, total, text, n + 1)
  <1> DEFINE f == text[n + 1]
  <1>1. f \in Fragment
    <2>1. n + 1 \in 1 .. Len(text)
      OBVIOUS
    <2> QED
      BY <2>1
  <1>2. /\ after[n + 1] = InterpolateFragment(after[n], f)
        /\ total[n + 1] = total[n] + FragmentSize(f)
    <2>1. n + 1 \in 0 .. Len(text) /\ n + 1 # 0 /\ (n + 1) - 1 = n
      OBVIOUS
    <2> QED
      BY <2>1 DEF IsInterpolation, IsTotal
  <1>3. 1 .. n + 1 = 1 .. n \cup {n + 1}
    OBVIOUS
  <1>4. (\A i \in 1 .. n + 1 : Usable(text[i])) <=> (\A i \in 1 .. n : Usable(text[i])) /\ Usable(f)
    BY <1>3
  <1>5. (\A i \in 1 .. n + 1 : Usable(text[i]) /\ ~ IsStructured(text[i]))
          <=> /\ \A i \in 1 .. n : Usable(text[i]) /\ ~ IsStructured(text[i])
              /\ Usable(f) /\ ~ IsStructured(f)
    BY <1>3
  <1>6. Usable(f) => FragmentSize(f) \in Nat
    <2>1. Ok(0).error = "none" /\ Ok(0).value \in Nat
      BY DEF Ok
    <2> QED
      BY <1>1, <2>1, FragmentDecides
  <1>7. (\A i \in 1 .. n + 1 : Usable(text[i])) => total[n] \in Nat /\ total[n + 1] \in Nat
    BY <1>2, <1>4, <1>6 DEF Progress
  <1>8. MaxBytes \in Nat
    BY LimitsArePositive
  <1>9. CASE after[n].error # "none"
    <2>1. after[n + 1] = after[n]
      BY <1>2, <1>9 DEF InterpolateFragment
    <2>2. ~ ((\A i \in 1 .. n + 1 : Usable(text[i]) /\ ~ IsStructured(text[i])) /\ total[n + 1] <= MaxBytes)
      <3> SUFFICES ASSUME \A i \in 1 .. n + 1 : Usable(text[i]) /\ ~ IsStructured(text[i]),
                          total[n + 1] <= MaxBytes
                   PROVE  FALSE
        OBVIOUS
      <3>1. total[n] \in Nat /\ FragmentSize(f) \in Nat
        BY <1>6, <1>7, <1>3
      <3>2. total[n] <= MaxBytes
        BY <1>2, <1>8, <3>1
      <3> QED
        BY <1>5, <1>9, <3>2 DEF Progress
    <2> QED
      BY <1>3, <1>7, <1>9, <2>1, <2>2 DEF Progress
  <1>10. CASE after[n].error = "none"
    <2>1. /\ \A i \in 1 .. n : Usable(text[i]) /\ ~ IsStructured(text[i])
          /\ after[n].value = total[n] /\ total[n] \in Nat
      BY <1>10 DEF Progress
    <2> DEFINE r == InterpolateFragment(after[n], f)
    <2>2. /\ r.error = "none" <=> (Usable(f) /\ ~ IsStructured(f) /\ total[n + 1] <= MaxBytes)
          /\ r.error = "none" => r.value = total[n + 1]
          /\ r.error = "undefined" => f.kind = "placeholder" /\ f.name \notin DOMAIN store
          /\ r.error = "unsupported" => IsStructured(f)
          /\ r.error # "nesting"
          /\ r.error \notin {"none", "bytes", "unsupported"} => NotBound(f)
      BY <1>1, <1>2, <1>10, <2>1, FragmentDecides
    <2> HIDE DEF r
    <2>3. after[n + 1] = r
      BY <1>2 DEF r
    <2>4. n + 1 \in 1 .. n + 1
      OBVIOUS
    <2> QED
      BY <1>5, <1>7, <2>1, <2>2, <2>3, <2>4 DEF Progress
  <1> QED
    BY <1>9, <1>10

\* interpolate succeeds exactly if its fragments are usable scalars and their
\* sizes add up to no more than the limit; an error has its fragment.
LEMMA InterpolateDecides ==
  ASSUME StoreIsTyped, NEW text \in Seq(Fragment)
  PROVE  LET r == Interpolate(text)
         IN /\ r.error = "none" <=> /\ \A i \in DOMAIN text : Usable(text[i]) /\ ~ IsStructured(text[i])
                                    /\ Size(text) <= MaxBytes
            /\ r.error = "undefined" =>
                 \E i \in DOMAIN text : text[i].kind = "placeholder" /\ text[i].name \notin DOMAIN store
            /\ r.error = "unsupported" => \E i \in DOMAIN text : IsStructured(text[i])
            /\ r.error # "nesting"
            /\ r.error \notin {"none", "bytes", "unsupported"} => \E i \in DOMAIN text : NotBound(text[i])
  <1>1. PICK after, total :
           /\ IsInterpolation(after, text, Len(text)) /\ Interpolate(text) = after[Len(text)]
           /\ IsTotal(total, text, Len(text)) /\ Size(text) = total[Len(text)]
    BY TextLoops
  <1> DEFINE Bad == {n \in 0 .. Len(text) : ~ Progress(after, total, text, n)}
  <1>2. Progress(after, total, text, 0)
    <2>1. after[0] = Ok(0) /\ total[0] = 0
      BY <1>1 DEF IsInterpolation, IsTotal
    <2>2. 1 .. 0 = {}
      OBVIOUS
    <2> QED
      BY <2>1, <2>2, LimitsArePositive DEF Progress, Ok
  <1>3. ASSUME NEW n \in Bad, \A k \in Bad : n <= k
        PROVE  FALSE
    <2>1. n # 0
      BY <1>2
    <2>2. n - 1 \in 0 .. Len(text) /\ ~ (n <= n - 1) /\ n - 1 \in Nat /\ n - 1 < Len(text)
      BY <2>1
    <2>3. Progress(after, total, text, n - 1)
      BY <1>3, <2>2
    <2>4. Progress(after, total, text, (n - 1) + 1)
      BY <1>1, <2>2, <2>3, ProgressStep
    <2>5. (n - 1) + 1 = n
      OBVIOUS
    <2> QED
      BY <2>4, <2>5
  <1>4. Bad \in SUBSET Nat
    OBVIOUS
  <1>5. Bad = {}
    BY <1>3, <1>4, LeastNumber
  <1>6. Progress(after, total, text, Len(text))
    BY <1>5
  <1>7. DOMAIN text = 1 .. Len(text)
    OBVIOUS
  <1> QED
    BY <1>1, <1>6, <1>7 DEF Progress

-----------------------------------------------------------------------------
(***************************************************************************)
(* Values.  A result decides a set of nodes if it is an error exactly when *)
(* a node does not fit, and if the error has a reason among them.          *)
(***************************************************************************)
Sound(nodes) == \A x \in nodes : Fits(x)

Unbound(nodes) == \E r \in RefsOf(nodes) : r.name \notin DOMAIN store
Misplaced(nodes) ==
  \E r \in RefsOf(nodes) : r.name \in DOMAIN store /\ store[r.name].structured /\ ~ r.whole
TooDeep(nodes) == \E x \in nodes : SourceNesting(x) > MaxDepth \/ Takes(x)

\* What static validation would have refused.
Ill(node) ==
  \/ node.value.kind = "infinite"
  \/ node.value.kind = "text" /\ \E i \in DOMAIN node.value.text : NotBound(node.value.text[i])

Explains(nodes, e) ==
  /\ e = "undefined" => Unbound(nodes)
  /\ e = "unsupported" => Misplaced(nodes)
  /\ e = "nesting" => TooDeep(nodes)
  /\ e \notin {"none", "bytes", "unsupported", "nesting"} => \E x \in nodes : Ill(x)

Decides(result, nodes) ==
  /\ result.error = "none" <=> Sound(nodes)
  /\ Explains(nodes, result.error)

\* What explains an error explains it in a larger test.
LEMMA MoreNodesExplain ==
  ASSUME NEW few, NEW many, few \subseteq many, NEW e, Explains(few, e)
  PROVE  Explains(many, e)
  <1>1. RefsOf(few) \subseteq RefsOf(many)
    BY DEF RefsOf
  <1> QED
    BY <1>1 DEF Explains, Unbound, Misplaced, TooDeep

\* collect returns the first error, if there is one.
LEMMA CollectIsFirst ==
  ASSUME NEW results, NEW k \in Nat, DOMAIN results = 1 .. k
  PROVE  \/ /\ \A i \in 1 .. k : results[i].error = "none"
            /\ Collect(results).error = "none"
         \/ \E i \in 1 .. k : results[i].error # "none" /\ Collect(results) = results[i]
  <1> DEFINE failed == {i \in DOMAIN results : results[i].error # "none"}
  <1>1. CASE failed = {}
    BY <1>1 DEF Collect, Ok
  <1>2. CASE failed # {}
    <2>1. failed \in SUBSET Nat
      OBVIOUS
    <2>2. PICK m \in failed : \A j \in failed : m <= j
      BY <1>2, <2>1, LeastNumber
    <2> DEFINE least == CHOOSE i \in failed : \A j \in failed : i <= j
    <2>3. least \in failed
      BY <2>2
    <2>4. Collect(results) = results[least]
      BY <1>2 DEF Collect
    <2> QED
      BY <2>3, <2>4
  <1> QED
    BY <1>1, <1>2

\* If each result decides its nodes, the collection decides all of them.
LEMMA CollectDecides ==
  ASSUME NEW results, NEW k \in Nat, DOMAIN results = 1 .. k, NEW nodes,
         \A i \in 1 .. k : Decides(results[i], nodes[i])
  PROVE  Decides(Collect(results), UNION {nodes[i] : i \in 1 .. k})
  <1> DEFINE all == UNION {nodes[i] : i \in 1 .. k}
  <1>1. \A i \in 1 .. k : nodes[i] \subseteq all
    OBVIOUS
  <1>2. Sound(all) <=> \A i \in 1 .. k : Sound(nodes[i])
    BY DEF Sound
  <1> HIDE DEF all
  <1>3. CASE (\A i \in 1 .. k : results[i].error = "none") /\ Collect(results).error = "none"
    <2>1. Sound(all)
      BY <1>2, <1>3 DEF Decides
    <2> QED
      BY <1>3, <2>1 DEF Decides, Explains, all
  <1>4. CASE \E i \in 1 .. k : results[i].error # "none" /\ Collect(results) = results[i]
    <2>1. PICK i \in 1 .. k : results[i].error # "none" /\ Collect(results) = results[i]
      BY <1>4
    <2>2. ~ Sound(nodes[i]) /\ Explains(nodes[i], results[i].error)
      BY <2>1 DEF Decides
    <2>3. ~ Sound(all) /\ Explains(all, results[i].error)
      BY <1>1, <1>2, <2>2, MoreNodesExplain
    <2> QED
      BY <2>1, <2>3 DEF Decides, all
  <1> QED
    BY <1>3, <1>4, CollectIsFirst

\* The nodes of a value, one level unfolded.
LEMMA NodesUnfold ==
  ASSUME NEW n \in 0 .. MaxHeight, NEW node \in Node(n)
  PROVE  /\ node.value.kind # "list" => NodesUpTo[n][node] = {node}
         /\ node.value.kind = "list" =>
              NodesUpTo[n][node] =
                {node} \cup UNION {NodesUpTo[n - 1][Item(node, i)] : i \in DOMAIN node.value.items}
  <1> DEFINE below == UNION {NodesUpTo[n - 1][Item(node, i)] : i \in DOMAIN node.value.items}
  <1>1. NodesUpTo[n][node] = {node} \cup IF node.value.kind = "list" THEN below ELSE {}
    BY NodesEquation DEF NodesStep
  <1> HIDE DEF below
  <1>2. /\ node.value.kind # "list" => NodesUpTo[n][node] = {node}
        /\ node.value.kind = "list" => NodesUpTo[n][node] = {node} \cup below
    BY <1>1
  <1> QED
    BY <1>2 DEF below

\* A captured tree is copied exactly if none of it is too deep.
CloneIsBounded(n) ==
  \A node \in Node(n) :
     /\ CloneUpTo[n][node].error \in {"none", "nesting"}
     /\ CloneUpTo[n][node].error = "none" <=> \A x \in NodesUpTo[n][node] : x.depth <= MaxDepth

\* One level of a clone.
LEMMA CloneStep ==
  ASSUME NEW n \in 0 .. MaxHeight, n # 0 => CloneIsBounded(n - 1)
  PROVE  CloneIsBounded(n)
  <1> SUFFICES ASSUME NEW node \in Node(n)
               PROVE  /\ CloneUpTo[n][node].error \in {"none", "nesting"}
                      /\ CloneUpTo[n][node].error = "none"
                           <=> \A x \in NodesUpTo[n][node] : x.depth <= MaxDepth
    BY DEF CloneIsBounded
  <1> DEFINE items == node.value.items
             results == [i \in DOMAIN items |-> CloneUpTo[n - 1][Item(node, i)]]
             clone == CloneUpTo[n][node]
  <1>1. clone = IF ~ EnterDepth(node.depth) THEN Err("nesting")
                ELSE IF node.value.kind # "list" THEN Ok(node.value)
                ELSE Collect(results)
    BY ClonesEquation DEF ClonesStep
  <1>2. node \in NodesUpTo[n][node]
    BY NodesUnfold
  <1>3. CASE ~ EnterDepth(node.depth)
    <2>1. ~ (node.depth <= MaxDepth)
      BY <1>3 DEF EnterDepth
    <2> QED
      BY <1>1, <1>2, <1>3, <2>1 DEF Err
  <1>4. CASE EnterDepth(node.depth) /\ node.value.kind # "list"
    <2>1. NodesUpTo[n][node] = {node} /\ node.depth <= MaxDepth
      BY <1>4, NodesUnfold DEF EnterDepth
    <2> QED
      BY <1>1, <1>4, <2>1 DEF Ok
  <1>5. CASE EnterDepth(node.depth) /\ node.value.kind = "list"
    <2>1. /\ n - 1 \in 0 .. MaxHeight /\ items \in Seq(ValueUpTo[n - 1])
          /\ \A i \in DOMAIN items : Item(node, i) \in Node(n - 1)
      BY <1>5, ItemIsNode
    <2>2. DOMAIN items = 1 .. Len(items) /\ Len(items) \in Nat
      BY <2>1
    <2>3. \A i \in DOMAIN items :
             /\ results[i].error \in {"none", "nesting"}
             /\ results[i].error = "none" <=> \A x \in NodesUpTo[n - 1][Item(node, i)] : x.depth <= MaxDepth
      <3>1. n # 0
        BY <2>1
      <3> QED
        BY <2>1, <3>1 DEF CloneIsBounded
    <2>4. clone = Collect(results) /\ DOMAIN results = 1 .. Len(items)
      BY <1>1, <1>5, <2>2
    <2>5. NodesUpTo[n][node] =
             {node} \cup UNION {NodesUpTo[n - 1][Item(node, i)] : i \in DOMAIN items}
      BY <1>5, NodesUnfold
    <2>6. node.depth <= MaxDepth
      BY <1>5 DEF EnterDepth
    <2>7. (\A x \in NodesUpTo[n][node] : x.depth <= MaxDepth)
            <=> \A i \in DOMAIN items : results[i].error = "none"
      BY <2>3, <2>5, <2>6
    <2> HIDE DEF results, clone
    <2>8. \/ (\A i \in 1 .. Len(items) : results[i].error = "none") /\ Collect(results).error = "none"
          \/ \E i \in 1 .. Len(items) : results[i].error # "none" /\ Collect(results) = results[i]
      BY <2>2, <2>4, CollectIsFirst
    <2>9. /\ clone.error \in {"none", "nesting"}
          /\ clone.error = "none" <=> \A x \in NodesUpTo[n][node] : x.depth <= MaxDepth
      BY <2>2, <2>3, <2>4, <2>7, <2>8
    <2> QED
      BY <2>9 DEF clone
  <1> QED
    BY <1>3, <1>4, <1>5

\* clone_json_bounded and json_to_resolved, for trees of every height.
LEMMA CloneDecides == \A n \in 0 .. MaxHeight : CloneIsBounded(n)
  <1> DEFINE Bad == {n \in 0 .. MaxHeight : ~ CloneIsBounded(n)}
  <1>1. ASSUME NEW n \in Bad, \A k \in Bad : n <= k
        PROVE  FALSE
    <2>1. n # 0 => n - 1 \in 0 .. MaxHeight /\ ~ (n <= n - 1)
      BY LimitsArePositive
    <2>2. n # 0 => CloneIsBounded(n - 1)
      BY <1>1, <2>1
    <2> QED
      BY <2>2, CloneStep
  <1>2. Bad \in SUBSET Nat
    BY LimitsArePositive
  <1> QED
    BY <1>1, <1>2, LeastNumber

\* The placeholders of a text are the references of its node.
LEMMA RefOfText ==
  ASSUME NEW node, node.value.kind = "text", NEW i \in DOMAIN node.value.text,
         node.value.text[i].kind = "placeholder"
  PROVE  [name |-> node.value.text[i].name, whole |-> IsWhole(node)] \in RefsOf({node})
  BY DEF RefsOf

\* A text that no structured value replaces.
LEMMA PlainTextDecides ==
  ASSUME StoreIsTyped, NEW node, node.value.kind = "text", node.value.text \in Seq(Fragment),
         node.depth <= MaxDepth, ~ Takes(node),
         NEW r, r = IF Interpolate(node.value.text).error = "none"
                    THEN Ok(Resolved(Interpolate(node.value.text).value))
                    ELSE Interpolate(node.value.text)
  PROVE  Decides(r, {node})
  <1> DEFINE text == node.value.text
  <1>1. r.error = Interpolate(text).error
    BY DEF Ok
  <1>2. /\ r.error = "none" <=> ((\A i \in DOMAIN text : Usable(text[i]) /\ ~ IsStructured(text[i]))
                                   /\ Size(text) <= MaxBytes)
        /\ r.error = "undefined" =>
             \E i \in DOMAIN text : text[i].kind = "placeholder" /\ text[i].name \notin DOMAIN store
        /\ r.error = "unsupported" => \E i \in DOMAIN text : IsStructured(text[i])
        /\ r.error # "nesting"
        /\ r.error \notin {"none", "bytes", "unsupported"} => \E i \in DOMAIN text : NotBound(text[i])
    BY <1>1, InterpolateDecides
  <1>3. Fits(node) <=> ((\A i \in DOMAIN text : Usable(text[i]) /\ ~ IsStructured(text[i]))
                          /\ Size(text) <= MaxBytes)
    BY DEF Fits
  <1>4. r.error = "none" <=> Sound({node})
    BY <1>2, <1>3 DEF Sound
  <1>5. ASSUME r.error = "undefined"
        PROVE  Unbound({node})
    <2>1. PICK i \in DOMAIN text : text[i].kind = "placeholder" /\ text[i].name \notin DOMAIN store
      BY <1>2, <1>5
    <2> QED
      BY <2>1, RefOfText DEF Unbound
  <1>6. ASSUME r.error = "unsupported"
        PROVE  Misplaced({node})
    <2>1. PICK i \in DOMAIN text : IsStructured(text[i])
      BY <1>2, <1>6
    <2>2. /\ text[i].kind = "placeholder"
          /\ text[i].name \in DOMAIN store /\ store[text[i].name].structured
      BY <2>1 DEF IsStructured
    <2>3. ~ IsWhole(node)
      <3> SUFFICES ASSUME IsWhole(node)
                   PROVE  FALSE
        OBVIOUS
      <3>1. i = 1
        BY DEF IsWhole
      <3> QED
        BY <2>1, <3>1 DEF Takes
    <2>4. [name |-> text[i].name, whole |-> IsWhole(node)] \in RefsOf({node})
      BY <2>2, RefOfText
    <2> QED
      BY <2>2, <2>3, <2>4 DEF Misplaced
  <1>7. r.error \notin {"none", "bytes", "unsupported", "nesting"} => Ill(node)
    BY <1>2 DEF Ill
  <1> QED
    BY <1>2, <1>4, <1>5, <1>6, <1>7 DEF Decides, Explains

\* resolve_value of a string.
LEMMA TextDecides ==
  ASSUME StoreIsTyped, NEW node, node.value.kind = "text", node.value.text \in Seq(Fragment),
         node.whole \in BOOLEAN, node.depth \in Nat, node.depth <= MaxDepth
  PROVE  Decides(ResolveText(node.value.text, node.whole, node.depth), {node})
  <1> DEFINE text == node.value.text
             f == text[1]
             r == ResolveText(text, node.whole, node.depth)
             length == Interpolate(text)
             plain == IF length.error = "none" THEN Ok(Resolved(length.value)) ELSE length
  <1>1. IsWhole(node) /\ f.kind = "placeholder" <=> node.whole /\ IsExact(text)
    BY DEF IsWhole, IsExact
  <1>2. CASE ~ (node.whole /\ IsExact(text))
    <2>1. ~ Takes(node)
      BY <1>1, <1>2 DEF Takes, IsStructured
    <2>2. r = plain
      BY <1>2 DEF ResolveText
    <2> QED
      BY <2>1, <2>2, PlainTextDecides
  <1>3. CASE node.whole /\ IsExact(text)
    <2>1. IsWhole(node) /\ f.kind = "placeholder" /\ 1 \in DOMAIN text /\ Len(text) = 1
      BY <1>3 DEF IsExact, IsWhole
    <2>2. f \in Fragment
      BY <2>1
    <2>3. Usable(f) <=> (f.name \in DOMAIN store /\ f.size <= MaxBytes)
      BY <2>1 DEF Usable
    <2>4. /\ Lookup(f) = "none" <=> (f.name \in DOMAIN store /\ f.size <= MaxBytes)
          /\ Lookup(f) \notin {"none", "bytes"} => f.name \notin DOMAIN store
          /\ Lookup(f) = "undefined" => f.name \notin DOMAIN store
          /\ Lookup(f) \notin {"unsupported", "nesting"}
      BY <2>2, LookupDecides
    <2>5. [name |-> f.name, whole |-> IsWhole(node)] \in RefsOf({node})
      BY <2>1, RefOfText
    <2>6. CASE Lookup(f) # "none"
      <3>1. r.error = Lookup(f)
        BY <1>3, <2>6 DEF ResolveText, Err
      <3>2. ~ Usable(f)
        BY <2>3, <2>4, <2>6
      <3>3. ~ Fits(node)
        BY <2>1, <3>2 DEF Fits
      <3>4. r.error = "undefined" => Unbound({node})
        BY <2>4, <2>5, <3>1 DEF Unbound
      <3>5. r.error \notin {"none", "bytes", "unsupported", "nesting"} => Ill(node)
        BY <2>1, <2>4, <3>1 DEF Ill, NotBound
      <3> HIDE DEF r
      <3> QED
        BY <2>4, <2>6, <3>1, <3>3, <3>4, <3>5 DEF Decides, Explains, Sound, r
    <2>7. CASE Lookup(f) = "none" /\ store[f.name].structured
      <3>1. Takes(node) /\ Usable(f)
        BY <2>1, <2>3, <2>4, <2>7 DEF Takes, IsStructured
      <3> DEFINE tree == store[f.name].tree
                 copied == NodeAt(tree, TRUE, node.depth)
      <3>2. r = CloneUpTo[MaxHeight][copied]
        BY <1>3, <2>7 DEF ResolveText, Substitute, CloneBounded
      <3>3. copied \in Node(MaxHeight) /\ MaxHeight \in 0 .. MaxHeight
        <4>1. tree \in Value
          BY <2>4, <2>7 DEF StoreIsTyped, VariableValue
        <4> QED
          BY <4>1, LimitsArePositive DEF Node, NodeAt, Value
      <3>4. /\ r.error \in {"none", "nesting"}
            /\ r.error = "none" <=> \A x \in NodesUpTo[MaxHeight][copied] : x.depth <= MaxDepth
        BY <3>2, <3>3, CloneDecides DEF CloneIsBounded
      <3>5. Fits(node) <=> \A x \in NodesUpTo[MaxHeight][copied] : x.depth <= MaxDepth
        <4>1. \A i \in DOMAIN text : i = 1
          BY <2>1
        <4> QED
          BY <3>1, <4>1 DEF Fits, NodesOf
      <3>6. TooDeep({node})
        BY <3>1 DEF TooDeep
      <3> HIDE DEF r, copied
      <3> QED
        BY <3>4, <3>5, <3>6 DEF Decides, Explains, Sound, r
    <2>8. CASE Lookup(f) = "none" /\ ~ store[f.name].structured
      <3>1. ~ Takes(node)
        BY <2>8 DEF Takes, IsStructured
      <3>2. r = plain
        BY <1>3, <2>8 DEF ResolveText
      <3> QED
        BY <3>1, <3>2, PlainTextDecides
    <2> QED
      BY <2>6, <2>7, <2>8
  <1> QED
    BY <1>2, <1>3

\* Every value of a height is resolved exactly if its nodes fit.
ValuesDecide(n) == \A node \in Node(n) : Decides(ResolveUpTo[n][node], NodesUpTo[n][node])

\* What is too deep is refused, and explains it.
LEMMA DeepIsRefused ==
  ASSUME NEW nodes, NEW node \in nodes, node.depth \in Nat, ~ EnterDepth(node.depth)
  PROVE  Decides(Err("nesting"), nodes)
  <1>1. ~ (node.depth <= MaxDepth) /\ MaxDepth \in Nat
    BY LimitsArePositive DEF EnterDepth
  <1>2. ~ Fits(node)
    BY <1>1 DEF Fits
  <1>3. SourceNesting(node) > MaxDepth
    BY <1>1 DEF SourceNesting
  <1> QED
    BY <1>2, <1>3 DEF Decides, Sound, Explains, TooDeep, Err

\* A node that fits changes no decision.
LEMMA FittingNodeDecides ==
  ASSUME NEW result, NEW nodes, Decides(result, nodes), NEW node, Fits(node)
  PROVE  Decides(result, {node} \cup nodes)
  <1>1. Sound({node} \cup nodes) <=> Sound(nodes)
    BY DEF Sound
  <1>2. Explains({node} \cup nodes, result.error)
    <2>1. nodes \subseteq {node} \cup nodes
      OBVIOUS
    <2> QED
      BY <2>1, MoreNodesExplain DEF Decides
  <1> QED
    BY <1>1, <1>2 DEF Decides

\* One level of a value.
LEMMA ValueStep ==
  ASSUME StoreIsTyped, NEW n \in 0 .. MaxHeight, n # 0 => ValuesDecide(n - 1)
  PROVE  ValuesDecide(n)
  <1> SUFFICES ASSUME NEW node \in Node(n)
               PROVE  Decides(ResolveUpTo[n][node], NodesUpTo[n][node])
    BY DEF ValuesDecide
  <1> DEFINE items == node.value.items
             results == [i \in DOMAIN items |-> ResolveUpTo[n - 1][Item(node, i)]]
             r == ResolveUpTo[n][node]
             nodes == NodesUpTo[n][node]
  <1>1. /\ ~ EnterDepth(node.depth) => r = Err("nesting")
        /\ EnterDepth(node.depth) =>
             /\ node.value.kind = "text" => r = ResolveText(node.value.text, node.whole, node.depth)
             /\ node.value.kind = "scalar" => r = Ok(node.value)
             /\ node.value.kind = "infinite" => r = Err("infinite")
             /\ node.value.kind = "list" => r = Collect(results)
    <2>1. r = ResolvesStep(n, ResolveUpTo[n - 1])[node]
      BY ResolvesEquation
    <2> QED
      BY <2>1 DEF ResolvesStep
  <1>2. node.value \in ValueUpTo[n] /\ node.whole \in BOOLEAN /\ node.depth \in Nat
    BY DEF Node
  <1>3. node \in nodes /\ (node.value.kind # "list" => nodes = {node})
    BY NodesUnfold
  <1>4. MaxDepth \in Nat
    BY LimitsArePositive
  <1> HIDE DEF r, nodes
  <1>5. CASE ~ EnterDepth(node.depth)
    BY <1>1, <1>2, <1>3, <1>5, DeepIsRefused DEF r, nodes
  <1>6. CASE EnterDepth(node.depth) /\ node.value.kind = "text"
    <2>1. node.value.text \in Seq(Fragment) /\ node.depth <= MaxDepth
      BY <1>2, <1>6, ValueForms DEF EnterDepth
    <2> QED
      BY <1>1, <1>2, <1>3, <1>6, <2>1, TextDecides DEF r, nodes
  <1>7. CASE EnterDepth(node.depth) /\ node.value.kind = "scalar"
    <2>1. Fits(node)
      BY <1>7 DEF Fits, EnterDepth
    <2>2. Sound(nodes) /\ r.error = "none"
      BY <1>1, <1>3, <1>7, <2>1 DEF Sound, Ok
    <2> QED
      BY <2>2 DEF Decides, Explains, r, nodes
  <1>8. CASE EnterDepth(node.depth) /\ node.value.kind = "infinite"
    <2>1. ~ Fits(node)
      BY <1>8 DEF Fits
    <2>2. ~ Sound(nodes) /\ r.error = "infinite"
      BY <1>1, <1>3, <1>8, <2>1 DEF Sound, Err
    <2>3. \E x \in nodes : Ill(x)
      BY <1>3, <1>8 DEF Ill
    <2> QED
      BY <2>2, <2>3 DEF Decides, Explains, r, nodes
  <1>9. CASE EnterDepth(node.depth) /\ node.value.kind = "list"
    <2>1. /\ n - 1 \in 0 .. MaxHeight /\ items \in Seq(ValueUpTo[n - 1])
          /\ \A i \in DOMAIN items : Item(node, i) \in Node(n - 1)
      BY <1>9, ItemIsNode
    <2>2. DOMAIN items = 1 .. Len(items) /\ Len(items) \in Nat
      BY <2>1
    <2> DEFINE below == [i \in DOMAIN items |-> NodesUpTo[n - 1][Item(node, i)]]
               all == UNION {below[i] : i \in 1 .. Len(items)}
    <2>3. \A i \in 1 .. Len(items) : Decides(results[i], below[i])
      <3>1. n # 0
        BY <2>1
      <3> QED
        BY <2>1, <2>2, <3>1 DEF ValuesDecide
    <2>4. DOMAIN results = 1 .. Len(items)
      BY <2>2
    <2>5. nodes = {node} \cup all
      <3>1. nodes = {node} \cup UNION {NodesUpTo[n - 1][Item(node, i)] : i \in DOMAIN items}
        BY <1>9, NodesUnfold DEF nodes
      <3> QED
        BY <2>2, <3>1
    <2> HIDE DEF results, below
    <2>6. Decides(Collect(results), all)
      <3> DEFINE k == Len(items)
      <3>1. k \in Nat /\ DOMAIN results = 1 .. k /\ \A i \in 1 .. k : Decides(results[i], below[i])
        BY <2>2, <2>3, <2>4
      <3> HIDE DEF k
      <3>2. Decides(Collect(results), UNION {below[i] : i \in 1 .. k})
        BY <3>1, CollectDecides
      <3> QED
        BY <3>2 DEF k
    <2>7. Fits(node)
      BY <1>9 DEF Fits, EnterDepth
    <2> HIDE DEF all
    <2>8. r = Collect(results)
      BY <1>1, <1>9 DEF results
    <2> QED
      BY <2>5, <2>6, <2>7, <2>8, FittingNodeDecides DEF r, nodes
  <1> QED
    BY <1>2, <1>5, <1>6, <1>7, <1>8, <1>9, ValueForms

\* resolve_value and resolve_json_value, for values of every height.
LEMMA ValueDecides ==
  ASSUME StoreIsTyped
  PROVE  \A n \in 0 .. MaxHeight : ValuesDecide(n)
  <1> DEFINE Bad == {n \in 0 .. MaxHeight : ~ ValuesDecide(n)}
  <1>1. ASSUME NEW n \in Bad, \A k \in Bad : n <= k
        PROVE  FALSE
    <2>1. n # 0 => n - 1 \in 0 .. MaxHeight /\ ~ (n <= n - 1)
      BY LimitsArePositive
    <2>2. n # 0 => ValuesDecide(n - 1)
      BY <1>1, <2>1
    <2> QED
      BY <2>2, ValueStep
  <1>2. Bad \in SUBSET Nat
    BY LimitsArePositive
  <1> QED
    BY <1>1, <1>2, LeastNumber

-----------------------------------------------------------------------------
(***************************************************************************)
(* Object assertions.                                                      *)
(***************************************************************************)
ObjectsDecide(n) ==
  \A object \in ObjectAssertion(n) :
     object.depth <= MaxDepth => Decides(ResolveObjectUpTo[n][object], FieldNodesUpTo[n][object])

\* The elements of a concatenation.
LEMMA Concatenation ==
  ASSUME NEW a \in Nat, NEW b \in Nat, NEW s, NEW t,
         s = [i \in 1 .. a |-> s[i]], t = [i \in 1 .. b |-> t[i]]
  PROVE  /\ DOMAIN (s \o t) = 1 .. a + b
         /\ \A i \in 1 .. a : (s \o t)[i] = s[i]
         /\ \A i \in 1 .. b : (s \o t)[a + i] = t[i]
  <1> DEFINE X == {s[i] : i \in 1 .. a} \cup {t[i] : i \in 1 .. b}
  <1>1. s \in [1 .. a -> X] /\ t \in [1 .. b -> X]
    <2>1. \A i \in 1 .. a : s[i] \in X
      OBVIOUS
    <2>2. \A i \in 1 .. b : t[i] \in X
      OBVIOUS
    <2> HIDE DEF X
    <2> QED
      BY <2>1, <2>2
  <1> HIDE DEF X
  <1>2. s \in Seq(X) /\ t \in Seq(X) /\ Len(s) = a /\ Len(t) = b
    BY <1>1
  <1> QED
    BY <1>2

\* resolve_field_assertion.
LEMMA FieldDecides ==
  ASSUME StoreIsTyped, NEW n \in 0 .. MaxHeight, n # 0 => ObjectsDecide(n - 1),
         NEW object \in ObjectAssertion(n), NEW i \in DOMAIN object.fields
  PROVE  Decides(ResolvedField(object.fields[i], object.depth + 1, ResolveObjectUpTo[n - 1]),
                 NodesOfField(object.fields[i], object.depth + 1, FieldNodesUpTo[n - 1]))
  <1> DEFINE f == object.fields[i]
             depth == object.depth + 1
             r == ResolvedField(f, depth, ResolveObjectUpTo[n - 1])
             nodes == NodesOfField(f, depth, FieldNodesUpTo[n - 1])
             top == NodeAt(Plain("scalar"), TRUE, depth)
  <1>1. /\ depth \in Nat /\ f.expected \in Seq(Value)
        /\ f.nested = <<>> \/ (n - 1 \in 0 .. MaxHeight /\ f.nested \in Seq(FieldsUpTo[n - 1]))
    BY FieldForms
  <1>2. top \in nodes /\ top.depth = depth /\ top.value.kind = "scalar"
    BY DEF NodesOfField, NodeAt, Plain
  <1>3. CASE ~ EnterDepth(depth)
    <2>1. r = Err("nesting")
      BY <1>3 DEF ResolvedField
    <2> HIDE DEF r, nodes, top, depth
    <2>2. Decides(Err("nesting"), nodes)
      BY <1>1, <1>2, <1>3, DeepIsRefused
    <2> QED
      BY <2>1, <2>2 DEF r, nodes, depth
  <1>4. CASE EnterDepth(depth)
    <2> DEFINE a == Len(f.expected)
               b == Len(f.nested)
               s == [j \in 1 .. a |-> ResolveValue(f.expected[j], TRUE, depth)]
               t == [j \in 1 .. b |-> ResolveObjectUpTo[n - 1][AssertionAt(f.nested[j], depth)]]
               low(j) == NodesOf(f.expected[j], TRUE, depth)
               high(j) == FieldNodesUpTo[n - 1][AssertionAt(f.nested[j], depth)]
               below == [j \in 1 .. a + b |-> IF j <= a THEN low(j) ELSE high(j - a)]
    <2>1. a \in Nat /\ DOMAIN f.expected = 1 .. a /\ b \in Nat /\ DOMAIN f.nested = 1 .. b
      BY <1>1
    <2>2. r = Collect(s \o t)
      BY <1>4, <2>1 DEF ResolvedField, NestedDepth
    <2>3. nodes = {top} \cup (UNION {low(j) : j \in 1 .. a}) \cup (UNION {high(j) : j \in 1 .. b})
      BY <2>1 DEF NodesOfField
    <2>4. ASSUME NEW j \in 1 .. a
          PROVE  Decides(s[j], low(j))
      <3>1. f.expected[j] \in Value /\ MaxHeight \in 0 .. MaxHeight
        BY <1>1, <2>1, LimitsArePositive
      <3>2. NodeAt(f.expected[j], TRUE, depth) \in Node(MaxHeight)
        BY <1>1, <3>1 DEF NodeAt, Node, Value
      <3> QED
        BY <3>1, <3>2, ValueDecides DEF ValuesDecide, ResolveValue, NodesOf
    <2>5. ASSUME NEW j \in 1 .. b
          PROVE  Decides(t[j], high(j))
      <3>1. /\ n - 1 \in 0 .. MaxHeight
            /\ AssertionAt(f.nested[j], depth) \in ObjectAssertion(n - 1)
        BY <1>1, <2>1, NestedIsAssertion
      <3>2. AssertionAt(f.nested[j], depth).depth <= MaxDepth
        BY <1>4 DEF AssertionAt, EnterDepth
      <3>3. n # 0
        BY <3>1
      <3> QED
        BY <3>1, <3>2, <3>3 DEF ObjectsDecide
    <2> DEFINE all == UNION {below[j] : j \in 1 .. a + b}
    <2> HIDE DEF a, b, s, t, low, high
    <2>6. /\ DOMAIN (s \o t) = 1 .. a + b
          /\ \A j \in 1 .. a : (s \o t)[j] = s[j]
          /\ \A j \in 1 .. b : (s \o t)[a + j] = t[j]
      <3>1. s = [j \in 1 .. a |-> s[j]] /\ t = [j \in 1 .. b |-> t[j]]
        BY DEF s, t
      <3> QED
        BY <2>1, <3>1, Concatenation
    <2>7. ASSUME NEW j \in 1 .. a + b
          PROVE  Decides((s \o t)[j], below[j])
      <3>1. CASE j <= a
        <4>1. j \in 1 .. a
          BY <2>1, <3>1
        <4> QED
          BY <2>4, <2>6, <3>1, <4>1
      <3>2. CASE ~ (j <= a)
        <4>1. j - a \in 1 .. b /\ a + (j - a) = j
          BY <2>1, <3>2
        <4>2. (s \o t)[j] = t[j - a]
          BY <2>6, <4>1
        <4> QED
          BY <2>5, <3>2, <4>1, <4>2
      <3> QED
        BY <3>1, <3>2
    <2>8. (UNION {low(j) : j \in 1 .. a}) \cup (UNION {high(j) : j \in 1 .. b}) = all
      <3>1. \A j \in 1 .. a : j \in 1 .. a + b /\ below[j] = low(j)
        BY <2>1
      <3>2. \A j \in 1 .. b : a + j \in 1 .. a + b /\ below[a + j] = high(j)
        BY <2>1
      <3>3. \A j \in 1 .. a + b : \/ j \in 1 .. a /\ below[j] = low(j)
                                  \/ j - a \in 1 .. b /\ below[j] = high(j - a)
        BY <2>1
      <3> HIDE DEF below
      <3> QED
        BY <3>1, <3>2, <3>3
    <2>9. Decides(Collect(s \o t), all)
      <3> DEFINE k == a + b
                 results == s \o t
      <3>1. k \in Nat /\ DOMAIN results = 1 .. k /\ \A j \in 1 .. k : Decides(results[j], below[j])
        BY <2>1, <2>6, <2>7
      <3> HIDE DEF k, below, results
      <3>2. Decides(Collect(results), UNION {below[j] : j \in 1 .. k})
        BY <3>1, CollectDecides
      <3> QED
        BY <3>2 DEF k, results
    <2>10. Fits(top)
      BY <1>2, <1>4 DEF Fits, EnterDepth
    <2> HIDE DEF all, top, r, nodes
    <2>11. nodes = {top} \cup all
      BY <2>3, <2>8
    <2>12. Decides(r, nodes)
      BY <2>2, <2>9, <2>10, <2>11, FittingNodeDecides
    <2> QED
      BY <2>12 DEF r, nodes
  <1> QED
    BY <1>3, <1>4

\* One level of an object assertion.
LEMMA ObjectStep ==
  ASSUME StoreIsTyped, NEW n \in 0 .. MaxHeight, n # 0 => ObjectsDecide(n - 1)
  PROVE  ObjectsDecide(n)
  <1> SUFFICES ASSUME NEW object \in ObjectAssertion(n), object.depth <= MaxDepth
               PROVE  Decides(ResolveObjectUpTo[n][object], FieldNodesUpTo[n][object])
    BY DEF ObjectsDecide
  <1> DEFINE k == Len(object.fields)
             below == [i \in 1 .. k |->
                         NodesOfField(object.fields[i], object.depth + 1, FieldNodesUpTo[n - 1])]
             results == [i \in 1 .. k |->
                           ResolvedField(object.fields[i], object.depth + 1, ResolveObjectUpTo[n - 1])]
  <1>1. k \in Nat /\ DOMAIN object.fields = 1 .. k
    BY FieldForms
  <1>2. ResolveObjectUpTo[n][object] = Collect(results)
    <2>1. ResolveObjectUpTo[n][object] = ObjectsStep(n, ResolveObjectUpTo[n - 1])[object]
      BY ObjectsEquation
    <2>2. EnterDepth(object.depth)
      BY DEF EnterDepth
    <2> QED
      BY <1>1, <2>1, <2>2 DEF ObjectsStep
  <1>3. FieldNodesUpTo[n][object] = UNION {below[i] : i \in 1 .. k}
    <2>1. FieldNodesUpTo[n][object] = FieldNodesStep(n, FieldNodesUpTo[n - 1])[object]
      BY FieldNodesEquation
    <2>2. FieldNodesUpTo[n][object] =
             UNION {NodesOfField(f, object.depth + 1, FieldNodesUpTo[n - 1]) : f \in ToSet(object.fields)}
      BY <2>1 DEF FieldNodesStep
    <2>3. ToSet(object.fields) = {object.fields[i] : i \in 1 .. k}
      BY <1>1 DEF ToSet
    <2> QED
      BY <2>2, <2>3
  <1>4. \A i \in 1 .. k : Decides(results[i], below[i])
    BY <1>1, FieldDecides
  <1> HIDE DEF k, below
  <1>5. DOMAIN results = 1 .. k
    OBVIOUS
  <1> HIDE DEF results
  <1>6. Decides(Collect(results), UNION {below[i] : i \in 1 .. k})
    BY <1>1, <1>4, <1>5, CollectDecides
  <1> QED
    BY <1>2, <1>3, <1>6

\* resolve_object_assertion, for assertions of every height.
LEMMA ObjectDecides ==
  ASSUME StoreIsTyped
  PROVE  \A n \in 0 .. MaxHeight : ObjectsDecide(n)
  <1> DEFINE Bad == {n \in 0 .. MaxHeight : ~ ObjectsDecide(n)}
  <1>1. ASSUME NEW n \in Bad, \A k \in Bad : n <= k
        PROVE  FALSE
    <2>1. n # 0 => n - 1 \in 0 .. MaxHeight /\ ~ (n <= n - 1)
      BY LimitsArePositive
    <2>2. n # 0 => ObjectsDecide(n - 1)
      BY <1>1, <2>1
    <2> QED
      BY <2>2, ObjectStep
  <1>2. Bad \in SUBSET Nat
    BY LimitsArePositive
  <1> QED
    BY <1>1, <1>2, LeastNumber

-----------------------------------------------------------------------------
(***************************************************************************)
(* The locations.                                                          *)
(***************************************************************************)
NodesIn(i) ==
  CASE i = 1 -> ScalarNodes({Text(spec.path)})
    [] i = 2 -> ScalarNodes(ToSet(spec.headers))
    [] i = 3 -> ScalarNodes(ToSet(spec.query))
    [] i = 4 -> (CASE spec.body.kind = "json" -> NodesOf(spec.body.value, TRUE, 0)
                   [] spec.body.kind = "text" -> NodesOf(spec.body.value, FALSE, 0)
                   [] spec.body.kind = "form" -> ScalarNodes(ToSet(spec.body.value.items))
                   [] OTHER -> {})
    [] i = 5 -> ScalarNodes({Text(t) : t \in ToSet(spec.expectedHeaders)})
    [] OTHER -> (CASE spec.expectedBody.kind = "json" ->
                             NodesOfObject(spec.expectedBody.fields, 0)
                        [] spec.expectedBody.kind = "text" ->
                             ScalarNodes({Text(spec.expectedBody.text)})
                        [] OTHER -> {})

\* The nodes of a request and of an expectation are those of its locations.
LEMMA NodesOfLocations ==
  /\ RequestNodes = NodesIn(1) \cup NodesIn(2) \cup NodesIn(3) \cup NodesIn(4)
  /\ ExpectationNodes = NodesIn(5) \cup NodesIn(6)
  <1> DEFINE body == CASE spec.body.kind = "json" -> NodesOf(spec.body.value, TRUE, 0)
                       [] spec.body.kind = "text" -> NodesOf(spec.body.value, FALSE, 0)
                       [] spec.body.kind = "form" -> ScalarNodes(ToSet(spec.body.value.items))
                       [] OTHER -> {}
             expected == CASE spec.expectedBody.kind = "json" ->
                                NodesOfObject(spec.expectedBody.fields, 0)
                           [] spec.expectedBody.kind = "text" ->
                                ScalarNodes({Text(spec.expectedBody.text)})
                           [] OTHER -> {}
  <1>1. RequestNodes = ScalarNodes({Text(spec.path)} \cup ToSet(spec.headers) \cup ToSet(spec.query))
                         \cup body
    BY DEF RequestNodes
  <1>2. ExpectationNodes = ScalarNodes({Text(t) : t \in ToSet(spec.expectedHeaders)}) \cup expected
    BY DEF ExpectationNodes
  <1>3. NodesIn(4) = body
    BY DEF NodesIn
  <1>4. NodesIn(6) = expected
    BY DEF NodesIn
  <1>5. /\ NodesIn(1) = ScalarNodes({Text(spec.path)})
        /\ NodesIn(2) = ScalarNodes(ToSet(spec.headers))
        /\ NodesIn(3) = ScalarNodes(ToSet(spec.query))
        /\ NodesIn(5) = ScalarNodes({Text(t) : t \in ToSet(spec.expectedHeaders)})
    BY DEF NodesIn
  <1>6. \A A, B : ScalarNodes(A \cup B) = ScalarNodes(A) \cup ScalarNodes(B)
    BY DEF ScalarNodes
  <1> HIDE DEF body, expected
  <1>7. RequestNodes = NodesIn(1) \cup NodesIn(2) \cup NodesIn(3) \cup NodesIn(4)
    <2>1. ScalarNodes({Text(spec.path)} \cup ToSet(spec.headers) \cup ToSet(spec.query))
             = ScalarNodes({Text(spec.path)} \cup ToSet(spec.headers)) \cup NodesIn(3)
      BY <1>5, <1>6
    <2>2. ScalarNodes({Text(spec.path)} \cup ToSet(spec.headers)) = NodesIn(1) \cup NodesIn(2)
      BY <1>5, <1>6
    <2> QED
      BY <1>1, <1>3, <2>1, <2>2
  <1>8. ExpectationNodes = NodesIn(5) \cup NodesIn(6)
    BY <1>2, <1>4, <1>5, Zenon
  <1> QED
    BY <1>7, <1>8

\* A text that nothing structured may replace.
LEMMA ScalarTextDecides ==
  ASSUME StoreIsTyped, NEW text \in Seq(Fragment)
  PROVE  Decides(ResolveText(text, FALSE, 0), NodesOf(Text(text), FALSE, 0))
  <1> DEFINE node == NodeAt(Text(text), FALSE, 0)
  <1>1. MaxHeight \in 0 .. MaxHeight /\ 0 <= MaxDepth
    BY LimitsArePositive
  <1>2. Text(text) \in ValueUpTo[MaxHeight]
    BY <1>1, ValuesEquation DEF ValuesStep, TextValue, Text
  <1>3. node \in Node(MaxHeight)
    BY <1>2 DEF Node, NodeAt
  <1>4. /\ node.value.kind = "text" /\ node.value.text = text
        /\ node.whole = FALSE /\ node.whole \in BOOLEAN
        /\ node.depth = 0 /\ node.depth \in Nat
    BY DEF NodeAt, Text
  <1> HIDE DEF node
  <1>5. NodesUpTo[MaxHeight][node] = {node}
    BY <1>1, <1>3, <1>4, NodesUnfold
  <1>6. Decides(ResolveText(text, FALSE, 0), {node})
    <2>1. node.value.text \in Seq(Fragment) /\ node.depth <= MaxDepth
      BY <1>1, <1>4
    <2>2. Decides(ResolveText(node.value.text, node.whole, node.depth), {node})
      BY <1>4, <2>1, TextDecides
    <2> QED
      BY <1>4, <2>2
  <1> QED
    BY <1>5, <1>6 DEF NodesOf, node

\* A value.
LEMMA AnyValueDecides ==
  ASSUME StoreIsTyped, NEW value \in Value, NEW whole \in BOOLEAN
  PROVE  Decides(ResolveValue(value, whole, 0), NodesOf(value, whole, 0))
  <1>1. MaxHeight \in 0 .. MaxHeight
    BY LimitsArePositive
  <1>2. NodeAt(value, whole, 0) \in Node(MaxHeight)
    BY DEF NodeAt, Node, Value
  <1> QED
    BY <1>1, <1>2, ValueDecides DEF ValuesDecide, ResolveValue, NodesOf

\* Headers, query parameters and form fields.
LEMMA FieldListDecides ==
  ASSUME StoreIsTyped, NEW values \in Seq(Value)
  PROVE  Decides(Fields(values), ScalarNodes(ToSet(values)))
  <1> DEFINE k == Len(values)
             results == [i \in 1 .. k |-> ResolveValue(values[i], FALSE, 0)]
             nodes == [i \in 1 .. k |-> NodesOf(values[i], FALSE, 0)]
  <1>1. k \in Nat /\ DOMAIN values = 1 .. k /\ \A i \in 1 .. k : values[i] \in Value
    OBVIOUS
  <1>2. Fields(values) = Collect(results)
    BY <1>1 DEF Fields
  <1>3. ScalarNodes(ToSet(values)) = UNION {nodes[i] : i \in 1 .. k}
    BY <1>1 DEF ScalarNodes, ToSet
  <1>4. \A i \in 1 .. k : Decides(results[i], nodes[i])
    BY <1>1, AnyValueDecides
  <1>5. DOMAIN results = 1 .. k
    OBVIOUS
  <1> HIDE DEF k, results, nodes
  <1>6. Decides(Collect(results), UNION {nodes[i] : i \in 1 .. k})
    BY <1>1, <1>4, <1>5, CollectDecides
  <1> QED
    BY <1>2, <1>3, <1>6

\* Expected headers.
LEMMA TextListDecides ==
  ASSUME StoreIsTyped, NEW texts, texts \in Seq(Seq(Fragment))
  PROVE  Decides(Texts(texts), ScalarNodes({Text(t) : t \in ToSet(texts)}))
  <1> DEFINE k == Len(texts)
             results == [i \in 1 .. k |-> ResolveText(texts[i], FALSE, 0)]
             nodes == [i \in 1 .. k |-> NodesOf(Text(texts[i]), FALSE, 0)]
  <1>1. k \in Nat /\ DOMAIN texts = 1 .. k /\ \A i \in 1 .. k : texts[i] \in Seq(Fragment)
    OBVIOUS
  <1>2. Texts(texts) = Collect(results)
    BY <1>1 DEF Texts
  <1>3. ScalarNodes({Text(t) : t \in ToSet(texts)}) = UNION {nodes[i] : i \in 1 .. k}
    <2>1. {Text(t) : t \in ToSet(texts)} = {Text(texts[i]) : i \in 1 .. k}
      BY <1>1 DEF ToSet
    <2> QED
      BY <2>1 DEF ScalarNodes
  <1>4. \A i \in 1 .. k : Decides(results[i], nodes[i])
    BY <1>1, ScalarTextDecides
  <1>5. DOMAIN results = 1 .. k
    OBVIOUS
  <1> HIDE DEF k, results, nodes
  <1>6. Decides(Collect(results), UNION {nodes[i] : i \in 1 .. k})
    <2>1. k \in Nat /\ DOMAIN results = 1 .. k /\ \A i \in 1 .. k : Decides(results[i], nodes[i])
      BY <1>1, <1>4, <1>5
    <2> QED
      BY ONLY <2>1, CollectDecides
  <1> QED
    BY <1>2, <1>3, <1>6

\* Nothing to resolve.
LEMMA NothingDecides == Decides(Ok(List(<<>>)), {})
  BY DEF Decides, Ok, Sound, Explains

\* The nodes of a single text.
LEMMA SingleText == \A text : ScalarNodes({Text(text)}) = NodesOf(Text(text), FALSE, 0)
  BY DEF ScalarNodes

-----------------------------------------------------------------------------
(***************************************************************************)
(* The steps.  The locations before the current one fit; an error ends the *)
(* resolution in the first location that does not fit, and has a reason    *)
(* there.                                                                  *)
(***************************************************************************)
Fit(i) == Sound(NodesIn(i))
FitBefore(i) == \A j \in 1 .. i - 1 : Fit(j)
Faulted(i) == ~ Fit(i) /\ Explains(NodesIn(i), error)

Resolving(i) == phase = Locations[i] /\ error = "none" /\ FitBefore(i)
Finished == phase = "done" /\ error = "none" /\ FitBefore(7)
Failed(i) == phase = "done" /\ error # "none" /\ FitBefore(i) /\ Faulted(i)

ResolutionInv ==
  /\ spec \in Spec
  /\ StoreIsTyped
  /\ (\E i \in 1 .. 6 : Resolving(i)) \/ Finished \/ (\E i \in 1 .. 6 : Failed(i))

\* The six locations, by number.
LEMMA LocationsInOrder ==
  /\ Len(Locations) = 6
  /\ \A i \in 1 .. 6 : Index(Locations[i]) = i /\ Locations[i] # "done"
  <1>1. /\ Locations[1] = "path" /\ Locations[2] = "headers" /\ Locations[3] = "query"
        /\ Locations[4] = "body" /\ Locations[5] = "expected_headers"
        /\ Locations[6] = "expected_body" /\ Len(Locations) = 6 /\ DOMAIN Locations = 1 .. 6
    BY DEF Locations
  <1>2. \A i, j \in 1 .. 6 : Locations[i] = Locations[j] => i = j
    BY <1>1
  <1>3. \A i \in 1 .. 6 : Locations[i] # "done"
    BY <1>1
  <1>4. ASSUME NEW i \in 1 .. 6
        PROVE  Index(Locations[i]) = i
    <2> HIDE DEF Locations
    <2>1. Index(Locations[i]) = CHOOSE j \in 1 .. 6 : Locations[j] = Locations[i]
      BY <1>1 DEF Index
    <2> QED
      BY <1>2, <2>1
  <1> QED
    BY <1>1, <1>3, <1>4

\* Neither the specification nor the store changes, and so nothing that
\* is said of them.
LEMMA FitStays ==
  ASSUME UNCHANGED <<spec, store>>
  PROVE  \A i : /\ Fit(i)' <=> Fit(i)
                /\ NodesIn(i)' = NodesIn(i)
                /\ FitBefore(i)' <=> FitBefore(i)
  <1>1. \A i : NodesIn(i)' = NodesIn(i)
    BY DEF NodesIn, ScalarNodes
  <1>2. \A x : Fits(x)' <=> Fits(x)
    BY DEF Fits, Takes, IsStructured, Usable, Size, FragmentSize
  <1>3. \A i : Fit(i)' <=> Fit(i)
    BY <1>1, <1>2 DEF Fit, Sound
  <1> QED
    BY <1>1, <1>3 DEF FitBefore

\* Nor are there other reasons for an error.
LEMMA ReasonStays ==
  ASSUME UNCHANGED <<spec, store>>, NEW i, NEW e, e = error', Explains(NodesIn(i), e)
  PROVE  Explains(NodesIn(i), error)'
  <1>1. NodesIn(i)' = NodesIn(i)
    BY FitStays
  <1> QED
    BY <1>1 DEF Explains, Unbound, Misplaced, TooDeep, Takes, IsStructured, Ill, NotBound

\* What a step does once the result of its location is known to decide it.
LEMMA SettleDecides ==
  ASSUME ResolutionInv, NEW i \in 1 .. 6, phase = Locations[i],
         NEW r, Decides(r, NodesIn(i)), Settle(r)
  PROVE  ResolutionInv'
  <1>1. Resolving(i)
    <2>1. phase # "done"
      BY LocationsInOrder
    <2>2. PICK j \in 1 .. 6 : Resolving(j)
      BY <2>1 DEF ResolutionInv, Finished, Failed
    <2>3. j = i
      BY <2>2, LocationsInOrder DEF Resolving
    <2> QED
      BY <2>2, <2>3
  <1>2. UNCHANGED <<spec, store>> /\ error' = r.error
    BY DEF Settle
  <1>3. spec' \in Spec /\ StoreIsTyped'
    BY <1>2 DEF ResolutionInv, StoreIsTyped
  <1>4. FitBefore(i)
    BY <1>1 DEF Resolving
  <1>5. CASE r.error = "none"
    <2>1. Fit(i)
      BY <1>5 DEF Decides, Fit
    <2>2. FitBefore(i + 1)
      BY <1>4, <2>1 DEF FitBefore
    <2>3. FitBefore(i + 1)' /\ error' = "none"
      BY <1>2, <1>5, <2>2, FitStays
    <2>4. phase' = IF i = 6 THEN "done" ELSE Locations[i + 1]
      BY <1>5, LocationsInOrder DEF Settle
    <2>5. CASE i = 6
      <3>1. Finished'
        BY <2>3, <2>4, <2>5 DEF Finished
      <3> QED
        BY <1>3, <3>1 DEF ResolutionInv
    <2>6. CASE i # 6
      <3>1. Resolving(i + 1)' /\ i + 1 \in 1 .. 6
        BY <2>3, <2>4, <2>6 DEF Resolving, Locations
      <3> QED
        BY <1>3, <3>1 DEF ResolutionInv
    <2> QED
      BY <2>5, <2>6
  <1>6. CASE r.error # "none"
    <2>1. ~ Fit(i) /\ Explains(NodesIn(i), r.error)
      BY <1>6 DEF Decides, Fit
    <2>2. ~ Fit(i)' /\ FitBefore(i)'
      BY <1>2, <1>4, <2>1, FitStays
    <2>3. Explains(NodesIn(i), error)'
      BY <1>2, <2>1, ReasonStays
    <2>4. phase' = "done" /\ error' # "none"
      BY <1>2, <1>6 DEF Settle
    <2>5. Failed(i)'
      BY <2>2, <2>3, <2>4 DEF Failed, Faulted
    <2> QED
      BY <1>3, <2>5 DEF ResolutionInv
  <1> QED
    BY <1>5, <1>6

\* The initial state.
LEMMA ResolutionStarts == ResolutionInit => ResolutionInv
  <1> SUFFICES ASSUME ResolutionInit
               PROVE  ResolutionInv
    OBVIOUS
  <1>1. spec \in Spec
    BY SpecsAssumption DEF ResolutionInit
  <1>2. StoreIsTyped
    BY StoresAssumption DEF ResolutionInit, StoreIsTyped
  <1>3. FitBefore(1)
    BY DEF FitBefore
  <1>4. Resolving(1)
    BY <1>3 DEF Resolving, ResolutionInit, Locations
  <1> QED
    BY <1>1, <1>2, <1>4 DEF ResolutionInv

\* The members of a specification.
LEMMA SpecForms ==
  ASSUME ResolutionInv
  PROVE  /\ StoreIsTyped
         /\ spec.path \in Seq(Fragment)
         /\ spec.headers \in Seq(Value) /\ spec.query \in Seq(Value)
         /\ spec.body.kind = "json" => spec.body.value \in Value
         /\ spec.body.kind = "text" =>
              /\ spec.body.value = Text(spec.body.value.text)
              /\ spec.body.value.text \in Seq(Fragment)
         /\ spec.body.kind = "form" => spec.body.value.items \in Seq(Value)
         /\ spec.expectedHeaders \in Seq(Seq(Fragment))
         /\ spec.expectedBody.text \in Seq(Fragment)
         /\ spec.expectedBody.fields \in FieldsUpTo[MaxHeight]
  <1>1. spec \in Spec /\ StoreIsTyped
    BY DEF ResolutionInv
  <1>2. \/ spec.body \in [kind : {"none", "json"}, value : Value]
        \/ spec.body \in [kind : {"text"}, value : TextValue]
        \/ spec.body \in [kind : {"form"}, value : [kind : {"list"}, items : Seq(Value)]]
    BY <1>1 DEF Spec
  <1>3. /\ spec.path \in Seq(Fragment)
        /\ spec.headers \in Seq(Value) /\ spec.query \in Seq(Value)
        /\ spec.expectedHeaders \in Seq(Seq(Fragment))
        /\ spec.expectedBody.text \in Seq(Fragment)
        /\ spec.expectedBody.fields \in FieldsUpTo[MaxHeight]
    BY <1>1 DEF Spec
  <1>4. \A v \in TextValue : v = Text(v.text) /\ v.text \in Seq(Fragment)
    BY DEF TextValue, Text
  <1>5. spec.body.kind = "text" => spec.body.value \in TextValue
    BY <1>2
  <1>6. spec.body.kind = "json" => spec.body.value \in Value
    BY <1>2
  <1>7. spec.body.kind = "form" => spec.body.value.items \in Seq(Value)
    BY <1>2
  <1> QED
    BY <1>1, <1>3, <1>4, <1>5, <1>6, <1>7

\* The request body.
LEMMA BodyDecides ==
  ASSUME ResolutionInv, phase = "body", ResolveRequestBody
  PROVE  ResolutionInv'
  <1> DEFINE json == ResolveValue(spec.body.value, TRUE, 0)
             text == ResolveText(spec.body.value.text, FALSE, 0)
             form == Fields(spec.body.value.items)
             r == CASE spec.body.kind = "json" -> json
                    [] spec.body.kind = "text" -> text
                    [] spec.body.kind = "form" -> form
                    [] OTHER -> Ok(List(<<>>))
  <1>1. Settle(r)
    BY DEF ResolveRequestBody
  <1>2. NodesIn(4) = CASE spec.body.kind = "json" -> NodesOf(spec.body.value, TRUE, 0)
                       [] spec.body.kind = "text" -> NodesOf(spec.body.value, FALSE, 0)
                       [] spec.body.kind = "form" -> ScalarNodes(ToSet(spec.body.value.items))
                       [] OTHER -> {}
    BY DEF NodesIn
  <1>3. Decides(r, NodesIn(4))
    <2>1. CASE spec.body.kind = "json"
      <3>1. Decides(json, NodesOf(spec.body.value, TRUE, 0))
        BY <2>1, SpecForms, AnyValueDecides
      <3>2. r = json /\ NodesIn(4) = NodesOf(spec.body.value, TRUE, 0)
        BY <1>2, <2>1
      <3> QED
        BY <3>1, <3>2
    <2>2. CASE spec.body.kind = "text"
      <3>1. Decides(text, NodesOf(Text(spec.body.value.text), FALSE, 0))
        BY <2>2, SpecForms, ScalarTextDecides
      <3>2. r = text /\ NodesIn(4) = NodesOf(spec.body.value, FALSE, 0)
        BY <1>2, <2>2
      <3>3. spec.body.value = Text(spec.body.value.text)
        BY <2>2, SpecForms
      <3> QED
        BY <3>1, <3>2, <3>3
    <2>3. CASE spec.body.kind = "form"
      <3>1. Decides(form, ScalarNodes(ToSet(spec.body.value.items)))
        BY <2>3, SpecForms, FieldListDecides
      <3>2. r = form /\ NodesIn(4) = ScalarNodes(ToSet(spec.body.value.items))
        BY <1>2, <2>3
      <3> QED
        BY <3>1, <3>2
    <2>4. CASE spec.body.kind \notin {"json", "text", "form"}
      <3>1. r = Ok(List(<<>>)) /\ NodesIn(4) = {}
        BY <1>2, <2>4
      <3> QED
        BY <3>1, NothingDecides
    <2> QED
      BY <2>1, <2>2, <2>3, <2>4
  <1> HIDE DEF r
  <1>4. phase = Locations[4]
    BY DEF Locations
  <1> QED
    BY <1>1, <1>3, <1>4, SettleDecides

\* The expected body.
LEMMA ExpectedBodyDecides ==
  ASSUME ResolutionInv, phase = "expected_body", ResolveBodyAssertion
  PROVE  ResolutionInv'
  <1> DEFINE json == ResolveObject(spec.expectedBody.fields, 0)
             text == ResolveText(spec.expectedBody.text, FALSE, 0)
             r == CASE spec.expectedBody.kind = "json" -> json
                    [] spec.expectedBody.kind = "text" -> text
                    [] OTHER -> Ok(List(<<>>))
  <1>1. Settle(r)
    BY DEF ResolveBodyAssertion
  <1>2. NodesIn(6) = CASE spec.expectedBody.kind = "json" ->
                              NodesOfObject(spec.expectedBody.fields, 0)
                       [] spec.expectedBody.kind = "text" ->
                              ScalarNodes({Text(spec.expectedBody.text)})
                       [] OTHER -> {}
    BY DEF NodesIn
  <1>3. Decides(r, NodesIn(6))
    <2>1. CASE spec.expectedBody.kind = "json"
      <3> DEFINE object == AssertionAt(spec.expectedBody.fields, 0)
      <3>1. MaxHeight \in 0 .. MaxHeight /\ object.depth <= MaxDepth
        BY LimitsArePositive DEF AssertionAt
      <3>2. object \in ObjectAssertion(MaxHeight)
        BY SpecForms DEF AssertionAt, ObjectAssertion
      <3>3. Decides(json, NodesOfObject(spec.expectedBody.fields, 0))
        BY <3>1, <3>2, SpecForms, ObjectDecides DEF ObjectsDecide, ResolveObject, NodesOfObject
      <3>4. r = json /\ NodesIn(6) = NodesOfObject(spec.expectedBody.fields, 0)
        BY <1>2, <2>1
      <3> QED
        BY <3>3, <3>4
    <2>2. CASE spec.expectedBody.kind = "text"
      <3>1. Decides(text, ScalarNodes({Text(spec.expectedBody.text)}))
        BY SpecForms, ScalarTextDecides, SingleText
      <3>2. r = text /\ NodesIn(6) = ScalarNodes({Text(spec.expectedBody.text)})
        BY <1>2, <2>2
      <3> QED
        BY <3>1, <3>2
    <2>3. CASE spec.expectedBody.kind \notin {"json", "text"}
      <3>1. r = Ok(List(<<>>)) /\ NodesIn(6) = {}
        BY <1>2, <2>3
      <3> QED
        BY <3>1, NothingDecides
    <2> QED
      BY <2>1, <2>2, <2>3
  <1> HIDE DEF r
  <1>4. phase = Locations[6]
    BY DEF Locations
  <1> QED
    BY <1>1, <1>3, <1>4, SettleDecides

\* Every step preserves the invariant.
LEMMA ResolutionSteps == ResolutionInv /\ [ResolutionNext]_resolutionVars => ResolutionInv'
  <1> SUFFICES ASSUME ResolutionInv, [ResolutionNext]_resolutionVars
               PROVE  ResolutionInv'
    OBVIOUS
  <1>1. CASE ResolvePath
    <2> DEFINE r == ResolveText(spec.path, FALSE, 0)
    <2>1. Decides(r, NodesOf(Text(spec.path), FALSE, 0))
      BY SpecForms, ScalarTextDecides
    <2>2. NodesIn(1) = ScalarNodes({Text(spec.path)})
      BY DEF NodesIn
    <2>3. Decides(r, NodesIn(1))
      BY <2>1, <2>2, SingleText
    <2>4. phase = Locations[1] /\ Settle(r)
      BY <1>1 DEF ResolvePath, Locations
    <2> HIDE DEF r
    <2> QED
      BY <2>3, <2>4, SettleDecides
  <1>2. CASE ResolveHeaders
    <2>1. Decides(Fields(spec.headers), NodesIn(2))
      BY SpecForms, FieldListDecides DEF NodesIn
    <2>2. phase = Locations[2] /\ Settle(Fields(spec.headers))
      BY <1>2 DEF ResolveHeaders, Locations
    <2> QED
      BY <2>1, <2>2, SettleDecides
  <1>3. CASE ResolveQuery
    <2>1. Decides(Fields(spec.query), NodesIn(3))
      BY SpecForms, FieldListDecides DEF NodesIn
    <2>2. phase = Locations[3] /\ Settle(Fields(spec.query))
      BY <1>3 DEF ResolveQuery, Locations
    <2> QED
      BY <2>1, <2>2, SettleDecides
  <1>4. CASE ResolveRequestBody
    BY <1>4, BodyDecides DEF ResolveRequestBody
  <1>5. CASE ResolveExpectedHeaders
    <2>1. Decides(Texts(spec.expectedHeaders), NodesIn(5))
      <3>1. NodesIn(5) = ScalarNodes({Text(t) : t \in ToSet(spec.expectedHeaders)})
        BY DEF NodesIn
      <3> QED
        BY <3>1, SpecForms, TextListDecides
    <2>2. phase = Locations[5] /\ Settle(Texts(spec.expectedHeaders))
      BY <1>5 DEF ResolveExpectedHeaders, Locations
    <2> QED
      BY <2>1, <2>2, SettleDecides
  <1>6. CASE ResolveBodyAssertion
    BY <1>6, ExpectedBodyDecides DEF ResolveBodyAssertion
  <1>7. CASE UNCHANGED resolutionVars
    <2>1. UNCHANGED <<spec, store>> /\ phase' = phase /\ error' = error
      BY <1>7 DEF resolutionVars
    <2>2. spec' \in Spec /\ StoreIsTyped'
      BY <2>1 DEF ResolutionInv, StoreIsTyped
    <2>3. \A i : Resolving(i) => Resolving(i)'
      BY <2>1, FitStays DEF Resolving
    <2>4. Finished => Finished'
      BY <2>1, FitStays DEF Finished
    <2>5. \A i : Explains(NodesIn(i), error) => Explains(NodesIn(i), error)'
      BY <2>1, ReasonStays
    <2>6. \A i : Failed(i) => Failed(i)'
      BY <2>1, <2>5, FitStays DEF Failed, Faulted
    <2> QED
      BY <2>2, <2>3, <2>4, <2>6 DEF ResolutionInv
  <1> QED
    BY <1>1, <1>2, <1>3, <1>4, <1>5, <1>6, <1>7 DEF ResolutionNext

\* What the invariant says of the end.
LEMMA AtTheEnd ==
  ASSUME ResolutionInv, phase = "done"
  PROVE  \/ error = "none" /\ FitBefore(7)
         \/ \E i \in 1 .. 6 : error # "none" /\ FitBefore(i) /\ Faulted(i)
  BY LocationsInOrder DEF ResolutionInv, Resolving, Finished, Failed

-----------------------------------------------------------------------------
(***************************************************************************)
(* Theorems.                                                               *)
(***************************************************************************)
\* All the nodes are those of the six locations.
LEMMA AllNodes == SpecNodes = UNION {NodesIn(i) : i \in 1 .. 6}
  <1>1. 1 .. 6 = {1, 2, 3, 4, 5, 6}
    OBVIOUS
  <1>2. UNION {NodesIn(i) : i \in {1, 2, 3, 4, 5, 6}} =
          NodesIn(1) \cup NodesIn(2) \cup NodesIn(3) \cup NodesIn(4) \cup NodesIn(5) \cup NodesIn(6)
    OBVIOUS
  <1>3. SpecNodes = (NodesIn(1) \cup NodesIn(2) \cup NodesIn(3) \cup NodesIn(4))
                      \cup (NodesIn(5) \cup NodesIn(6))
    BY NodesOfLocations DEF SpecNodes
  <1> QED
    BY <1>1, <1>2, <1>3

\* Nodes that fit have no reference that is undefined or misplaced.
LEMMA FittingRefs ==
  ASSUME NEW nodes, Sound(nodes)
  PROVE  ReferenceErrors(RefsOf(nodes), store) = {}
  <1>1. ASSUME NEW r \in RefsOf(nodes)
        PROVE  r.name \in DOMAIN store /\ ~ (store[r.name].structured /\ ~ r.whole)
    <2>1. PICK n \in nodes : /\ n.value.kind = "text"
                             /\ \E i \in DOMAIN n.value.text :
                                  /\ n.value.text[i].kind = "placeholder"
                                  /\ r = [name |-> n.value.text[i].name, whole |-> IsWhole(n)]
      BY DEF RefsOf
    <2>2. PICK i \in DOMAIN n.value.text :
                  /\ n.value.text[i].kind = "placeholder"
                  /\ r = [name |-> n.value.text[i].name, whole |-> IsWhole(n)]
      BY <2>1
    <2>3. Fits(n)
      BY DEF Sound
    <2>4. r.name \in DOMAIN store
      BY <2>1, <2>2, <2>3 DEF Fits, Usable
    <2>5. ASSUME store[r.name].structured
          PROVE  IsWhole(n)
      <3>1. IsStructured(n.value.text[i])
        BY <2>2, <2>4, <2>5 DEF IsStructured
      <3>2. Takes(n)
        BY <2>1, <2>3, <3>1 DEF Fits
      <3> QED
        BY <3>2 DEF Takes
    <2> QED
      BY <2>2, <2>4, <2>5
  <1> QED
    BY <1>1 DEF ReferenceErrors

\* A reason for an error is a reference that Suites counts as an error.
LEMMA ExplainedRefs ==
  ASSUME NEW nodes, NEW e, Explains(nodes, e), e \in {"undefined", "unsupported"}
  PROVE  e \in ReferenceErrors(RefsOf(nodes), store)
  BY DEF Explains, Unbound, Misplaced, ReferenceErrors

\* At the end, no error means that all the nodes fit.
LEMMA InvIsExact == ResolutionInv => ResolvesExactly
  <1> SUFFICES ASSUME ResolutionInv, phase = "done"
               PROVE  error = "none" <=> Sound(SpecNodes)
    BY DEF ResolvesExactly, Sound
  <1>1. Sound(SpecNodes) <=> \A i \in 1 .. 6 : Fit(i)
    BY AllNodes DEF Sound, Fit
  <1>2. FitBefore(7) <=> \A i \in 1 .. 6 : Fit(i)
    BY DEF FitBefore
  <1> QED
    BY <1>1, <1>2, AtTheEnd DEF Faulted

\* A failed location is in the request, or in the expectation of a request that
\* fits: the error is the one Suites expects first.
LEMMA InvIsAbstracted == ResolutionInv => AbstractionAgrees
  <1> SUFFICES ASSUME ResolutionInv, phase = "done"
               PROVE  /\ error = "none" => Resolves(Abstracted, store)
                      /\ ErrorClass \in ResolutionErrors =>
                           ErrorClass \in PossibleErrors(Abstracted, store)
    BY DEF AbstractionAgrees
  <1> DEFINE request == RefsOf(RequestNodes)
             expect == RefsOf(ExpectationNodes)
  <1>1. Abstracted.request = request /\ Abstracted.expect = expect
    BY DEF Abstracted
  <1>2. request \cup expect = RefsOf(SpecNodes)
    BY DEF SpecNodes, RefsOf
  <1>3. \A i \in 1 .. 4 : RefsOf(NodesIn(i)) \subseteq request
    <2>1. \A i \in 1 .. 4 : NodesIn(i) \subseteq RequestNodes
      <3>1. 1 .. 4 = {1, 2, 3, 4}
        OBVIOUS
      <3> QED
        BY <3>1, NodesOfLocations
    <2> QED
      BY <2>1 DEF RefsOf
  <1>4. \A i \in 5 .. 6 : RefsOf(NodesIn(i)) \subseteq expect
    <2>1. \A i \in 5 .. 6 : NodesIn(i) \subseteq ExpectationNodes
      <3>1. 5 .. 6 = {5, 6}
        OBVIOUS
      <3> QED
        BY <3>1, NodesOfLocations
    <2> QED
      BY <2>1 DEF RefsOf
  <1>5. \A few, many, e : few \subseteq many /\ e \in ReferenceErrors(few, store) =>
                            e \in ReferenceErrors(many, store)
    BY DEF ReferenceErrors
  <1>6. (\A i \in 1 .. 4 : Fit(i)) => ReferenceErrors(request, store) = {}
    <2>1. (\A i \in 1 .. 4 : Fit(i)) => Sound(RequestNodes)
      <3>1. 1 .. 4 = {1, 2, 3, 4}
        OBVIOUS
      <3> QED
        BY <3>1, NodesOfLocations DEF Fit, Sound
    <2> QED
      BY <2>1, FittingRefs
  <1>7. ASSUME error = "none"
        PROVE  Resolves(Abstracted, store)
    <2>1. Sound(SpecNodes)
      BY <1>7, InvIsExact DEF ResolvesExactly, Sound
    <2> QED
      BY <1>1, <1>2, <2>1, FittingRefs DEF Resolves
  <1>8. ASSUME ErrorClass \in ResolutionErrors, ErrorClass # "limit"
        PROVE  ErrorClass \in PossibleErrors(Abstracted, store)
    <2>1. ErrorClass = error /\ error \in {"undefined", "unsupported"}
      BY <1>8 DEF ErrorClass, ResolutionErrors
    <2>2. PICK i \in 1 .. 6 : FitBefore(i) /\ Explains(NodesIn(i), error)
      BY <2>1, AtTheEnd DEF Faulted
    <2>3. error \in ReferenceErrors(RefsOf(NodesIn(i)), store)
      BY <2>1, <2>2, ExplainedRefs
    <2> HIDE DEF request, expect
    <2>4. CASE i \in 1 .. 4
      <3>1. error \in ReferenceErrors(request, store)
        BY <1>3, <1>5, <2>3, <2>4
      <3> QED
        BY <1>1, <2>1, <3>1 DEF PossibleErrors
    <2>5. CASE i \in 5 .. 6
      <3>1. error \in ReferenceErrors(expect, store)
        BY <1>4, <1>5, <2>3, <2>5
      <3>2. \A j \in 1 .. 4 : Fit(j)
        BY <2>2, <2>5 DEF FitBefore
      <3>3. ReferenceErrors(request, store) = {}
        BY <1>6, <3>2
      <3> QED
        BY <1>1, <2>1, <3>1, <3>3 DEF PossibleErrors
    <2> QED
      BY <2>4, <2>5
  <1>9. "limit" \in PossibleErrors(Abstracted, store)
    BY DEF PossibleErrors
  <1> QED
    BY <1>7, <1>8, <1>9

\* A nesting error has a node that is too deep, or taken from a variable.
LEMMA InvIsShallow == ResolutionInv => AcceptedNestingResolves
  <1> SUFFICES ASSUME ResolutionInv, error = "nesting"
               PROVE  TooDeep(SpecNodes)
    BY DEF AcceptedNestingResolves, TooDeep
  <1>1. PICK i \in 1 .. 6 : Explains(NodesIn(i), error)
    BY DEF ResolutionInv, Resolving, Finished, Failed, Faulted
  <1>2. NodesIn(i) \subseteq SpecNodes
    BY AllNodes
  <1> QED
    BY <1>1, <1>2 DEF Explains, TooDeep

\* RequestResolver succeeds exactly if every value of the request and of the
\* expectation, at every depth, is within its limits and reads what it may.
THEOREM ResolutionIsExact == ResolutionSpec => []ResolvesExactly
  <1>1. ResolutionInit => ResolutionInv
    BY ResolutionStarts
  <1>2. ResolutionInv /\ [ResolutionNext]_resolutionVars => ResolutionInv'
    BY ResolutionSteps
  <1>3. ResolutionInv => ResolvesExactly
    BY InvIsExact
  <1> QED
    BY <1>1, <1>2, <1>3, PTL DEF ResolutionSpec

\* The references that Suites and Execution keep of a test foresee what
\* RequestResolver returns.
THEOREM AbstractionIsSound == ResolutionSpec => []AbstractionAgrees
  <1>1. ResolutionInit => ResolutionInv
    BY ResolutionStarts
  <1>2. ResolutionInv /\ [ResolutionNext]_resolutionVars => ResolutionInv'
    BY ResolutionSteps
  <1>3. ResolutionInv => AbstractionAgrees
    BY InvIsAbstracted
  <1> QED
    BY <1>1, <1>2, <1>3, PTL DEF ResolutionSpec

\* A source within the nesting limit of the parser meets that of the resolver
\* only through a structured variable.
THEOREM NestingResolves == ResolutionSpec => []AcceptedNestingResolves
  <1>1. ResolutionInit => ResolutionInv
    BY ResolutionStarts
  <1>2. ResolutionInv /\ [ResolutionNext]_resolutionVars => ResolutionInv'
    BY ResolutionSteps
  <1>3. ResolutionInv => AcceptedNestingResolves
    BY InvIsShallow
  <1> QED
    BY <1>1, <1>2, <1>3, PTL DEF ResolutionSpec
=============================================================================
