-------------------------- MODULE MCCaptureEngine --------------------------
(***************************************************************************)
(* Small exchanges for module CaptureEngine.  Floats have a mantissa of    *)
(* three bits, so that 7 is the last exact integer and 9 rounds.  The JSON *)
(* of responses and expectations goes down to MaxDepth and one below.      *)
(***************************************************************************)
EXTENDS CaptureEngine, SequencesExt

Whole(n) == [integer |-> n]
Flo(h) == [float |-> h]
Str(s) == [string |-> s]
Arr(s) == [array |-> s]
Obj(f) ==
  LET keys == SetToSeq(DOMAIN f)
  IN [object |-> [i \in DOMAIN keys |-> [key |-> keys[i], value |-> f[keys[i]]]]]
Null == [null |-> TRUE]
True == [boolean |-> TRUE]

Field(name, type, value, nested, capture) ==
  [name |-> name, type |-> type, value |-> value, nested |-> nested, capture |-> capture]
Partial(fields) == [mode |-> "partial", fields |-> fields]
ExactlyOf(fields) == [mode |-> "exact", fields |-> fields]

\* m * 2^e halves with m < 2^3
MCMaxExact == 7
MCFloats == {s * f : s \in {-1, 1}, f \in 0 .. 8 \cup {10, 12, 14, 16, 20, 24, 28}}

-----------------------------------------------------------------------------
\* Values of one field.
Numbers == {Whole(7), Whole(8), Whole(9), Flo(2), Flo(3), Flo(14), Flo(16)}
Scalars == {Null, True, Str("x"), Str("y"), Whole(1)}
Arrays == {Arr(<<>>), Arr(<<Whole(1)>>), Arr(<<Whole(1), Flo(2)>>), Arr(<<Obj([k |-> Whole(1)])>>)}
Objects == {Obj([k |-> v]) : v \in {Whole(1), Null, Arr(<<Whole(1)>>)}}
             \cup {Obj([k |-> Whole(1), l |-> Str("x")]), Obj([k |-> Obj([k |-> Obj([k |-> Whole(1)])])]),
                   Obj([k |-> Obj([k |-> Obj([k |-> Obj([k |-> Whole(1)])])])])}

Values == Numbers \cup Scalars \cup Arrays \cup Objects
TypeOf(v) == IF KindOf(v) = "float" THEN {"number"}
             ELSE IF KindOf(v) = "integer" THEN {"integer", "number"} ELSE {KindOf(v)}

\* One expected value against one actual value.
ValueFields == UNION {{Field("a", t, <<v>>, <<>>, <<>>) : t \in TypeOf(v)} : v \in Values}
TypeFields == {Field("a", t, <<>>, <<>>, <<>>) : t \in {"integer", "number", "object", "null"}}

OnlyBody(body) == [status |-> <<>>, headers |-> <<>>, body |-> <<body>>]
JsonTest(assertion) == [kind |-> "json", object |-> assertion]
MCHeaders == [ct |-> <<{"u"}>>, et |-> <<>>]
Respond(status, headers, body) == [status |-> status, headers |-> headers, body |-> body]
JsonBody(value) == Respond(200, MCHeaders, [kind |-> "json", value |-> value])

ValueExchanges ==
  {[expected |-> OnlyBody(JsonTest(Partial(<<f>>))), actual |-> JsonBody(Obj([a |-> v]))] :
     f \in ValueFields \cup TypeFields, v \in Values}

-----------------------------------------------------------------------------
\* Captures at three levels, nested assertions well placed or not.
Leaf(name, capture) == Field(name, "integer", <<>>, <<>>, capture)
Middle(type, capture, inner) ==
  Field("k", type, <<>>, <<Partial(inner)>>, capture)
Nestings ==
  {Partial(<<Field("a", t, v, <<Partial(<<Middle("object", m, <<Leaf("k", l)>>)>>)>>, o)>> \o last) :
     t \in {"object", "integer"},
     v \in {<<>>, <<Obj([k |-> Obj([k |-> Whole(2), l |-> Null])])>>},
     o \in {<<>>, <<"v">>}, m \in {<<>>, <<"w">>}, l \in {<<>>, <<"v">>, <<"u">>},
     last \in {<<>>, <<Leaf("b", <<"w">>)>>, <<Field("b", "integer", <<>>, <<Partial(<<>>)>>, <<>>)>>}}
   \cup {ExactlyOf(<<Field("a", "object", <<>>, <<ExactlyOf(<<Leaf("k", <<"v">>)>>)>>, <<>>)>>)}

NestedBodies ==
  {Obj([a |-> a, b |-> Whole(1)]) :
     a \in {Whole(1), Obj([k |-> Whole(1)]), Obj([k |-> Whole(1), l |-> Null]), Obj([l |-> Null]),
            Obj([k |-> Obj([k |-> Whole(1), l |-> Whole(2)])]),
            Obj([k |-> Obj([k |-> Whole(2), l |-> Null])])}}
   \cup {Obj([a |-> Obj([k |-> Whole(1)])]), Arr(<<>>)}

NestedExchanges ==
  {[expected |-> OnlyBody(JsonTest(n)), actual |-> JsonBody(b)] : n \in Nestings, b \in NestedBodies}

-----------------------------------------------------------------------------
\* Status, headers and bodies of every kind, so that failures add up.
HeaderTests == {[name |-> "ct", rule |-> r, text |-> t] :
                  r \in {"exists", "exact", "contains"}, t \in {{"u"}, {"u", "v"}}}
Bodies == {[kind |-> "empty"], [kind |-> "text", text |-> {"u"}], [kind |-> "binary"],
           [kind |-> "json", value |-> Obj([a |-> Whole(1)])], [kind |-> "json", value |-> Null]}
ExpectedBodies == {<<>>, <<[kind |-> "empty"]>>,
                   <<[kind |-> "text", rule |-> "contains", text |-> {"u"}]>>,
                   <<[kind |-> "text", rule |-> "exact", text |-> {"u", "v"}]>>,
                   <<JsonTest(ExactlyOf(<<Leaf("b", <<"v">>)>>))>>}

EnvelopeExchanges ==
  {[expected |-> [status |-> <<200>>,
                  headers |-> <<h, [name |-> "et", rule |-> "exists", text |-> {}]>>,
                  body |-> e],
    actual |-> Respond(s, [ct |-> c, et |-> t], b)] :
     s \in {200, 404}, h \in HeaderTests, e \in ExpectedBodies, b \in Bodies,
     c \in {<<>>, <<{"u"}>>, <<{"u", "v"}, {"u"}>>, <<NotUtf8>>}, t \in {<<>>, <<{"v"}>>}}

MCExchanges == ValueExchanges \cup NestedExchanges \cup EnvelopeExchanges
=============================================================================
