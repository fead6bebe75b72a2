---------------------------- MODULE MCResolution ----------------------------
(***************************************************************************)
(* Tests and stores for module Resolution.  Every text of up to two        *)
(* fragments appears in every location, and values up to one level deeper  *)
(* than the limit appear where values may nest.                            *)
(***************************************************************************)
EXTENDS Resolution

MCNames == {"v", "w", "long"}

Leaf == Plain("scalar")
Scalar(size) == [structured |-> FALSE, size |-> size, tree |-> Leaf]
Tree(tree) == [structured |-> TRUE, size |-> 0, tree |-> tree]
Trees == {List(<<>>), List(<<Leaf, List(<<>>)>>), List(<<List(<<Leaf>>)>>)}

MCStores ==
  {[n \in {"v"} |-> Scalar(2)]}
    \cup {[n \in {"v", "w", "long"} |-> CASE n = "v" -> Scalar(k)
                                         [] n = "w" -> Tree(t)
                                         [] n = "long" -> Scalar(0)] :
            k \in {0, 3}, t \in Trees}

Fragments == {Literal(1), Literal(3), Placeholder("v", 1), Placeholder("w", 1),
              Placeholder("long", 4), Placeholder("", 0), Placeholder("9", 1), Unterminated}
MCTexts == {<<>>} \cup {<<f>> : f \in Fragments}
           \cup {<<f, g>> : f \in {Literal(1), Placeholder("v", 1), Placeholder("w", 1)},
                            g \in {Literal(2), Placeholder("v", 1), Unterminated}}

Safe == <<Literal(1)>>
Whole == <<Placeholder("w", 1)>>
Leaves == {Text(Safe), Text(Whole), Leaf, Plain("infinite")}
Pairs == {List(<<>>)} \cup {List(<<v, w>>) : v \in Leaves, w \in {Leaf, Text(Whole)}}
Deep == {List(<<List(<<v>>)>>) : v \in Leaves}
          \cup {List(<<List(<<List(<<v>>)>>)>>) : v \in {Text(Safe), Text(Whole)}}
Values == Leaves \cup Pairs \cup Deep \cup {Text(t) : t \in MCTexts}

Expect(expected, nested) == [expected |-> expected, nested |-> nested]
Objects ==
  {<<>>} \cup {<<Expect(<<v>>, <<>>)>> : v \in Values}
    \cup {<<Expect(<<Leaf>>, <<>>), Expect(e, <<<<Expect(<<v>>, <<>>)>>>>)>> :
            v \in Leaves \cup Pairs, e \in {<<>>, <<Text(Whole)>>}}
    \cup {<<Expect(<<>>, <<<<Expect(<<>>, <<<<Expect(x, <<>>)>>>>)>>>>)>> :
            x \in {<<>>, <<List(<<Leaf>>)>>}}

NoBody == [kind |-> "none", value |-> Leaf]
NoAssertion == [kind |-> "empty", text |-> <<>>, fields |-> <<>>]
Spec1(path, headers, query, body, expectedHeaders, expectedBody) ==
  [path |-> path, headers |-> headers, query |-> query, body |-> body,
   expectedHeaders |-> expectedHeaders, expectedBody |-> expectedBody]
JsonFields(fields) == [kind |-> "json", text |-> <<>>, fields |-> fields]

MCSpecs ==
  {Spec1(t, <<>>, <<>>, NoBody, <<>>, NoAssertion) : t \in MCTexts}
    \cup {Spec1(Safe, <<v>>, <<w>>, NoBody, <<>>, NoAssertion) :
            v \in Values, w \in {Leaf, Text(<<Placeholder("v", 1)>>), Text(Whole)}}
    \cup {Spec1(Safe, <<>>, <<v>>, [kind |-> k, value |-> List(<<v, w>>)], <<>>, NoAssertion) :
            k \in {"json", "form"}, v \in {Leaf, Text(Whole)}, w \in Values}
    \cup {Spec1(Safe, <<>>, <<>>, [kind |-> "text", value |-> Text(t)], <<Safe, u>>,
                [kind |-> "text", text |-> t, fields |-> <<>>]) :
            t \in MCTexts, u \in MCTexts}
    \cup {Spec1(Safe, <<>>, <<>>, NoBody, <<Safe>>, JsonFields(o)) : o \in Objects}
    \cup {Spec1(Safe, <<>>, <<>>, [kind |-> "json", value |-> v], <<>>, JsonFields(o)) :
            v \in Deep, o \in {<<Expect(<<w>>, <<>>)>> : w \in Leaves}}
=============================================================================
