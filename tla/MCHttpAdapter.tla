---------------------------- MODULE MCHttpAdapter ---------------------------
(***************************************************************************)
(* Base URLs and requests for module HttpAdapter: every way to be refused  *)
(* once, and the combinations of headers, paths and bodies that interact.  *)
(***************************************************************************)
EXTENDS HttpAdapter

MCBases == {[fault |-> f, path |-> <<"">>] : f \in BaseFaults \cup ConfigFaults}
             \cup {[fault |-> "none", path |-> p] :
                     p \in {<<"">>, <<"api">>, <<"api", "">>, <<"v", "api", "">>}}

Path(segments) == [fault |-> "none", segments |-> segments]
Paths == {[fault |-> f, segments |-> <<"x">>] : f \in PathFaults}
           \cup {Path(s) : s \in {<<"">>, <<"x">>, <<"x", "">>, <<".">>, <<"..">>,
                                  <<"..", "x">>, <<"..", "api", "x">>, <<"..", "api">>,
                                  <<"x", "..", "..", "x">>, <<"..", "..", "..">>}}

Field(name, value) == [name |-> name, value |-> value]
HeaderLists ==
  {<<>>} \cup {<<Field(n, "text")>> : n \in {"invalid", "content-type", "accept"}}
    \cup {<<Field("accept", v)>> : v \in {"number", "control", "infinite", "null", "complex"}}
    \cup {<<Field("accept", "text"), Field(n, "number")>> : n \in {"accept", "content-type"}}

Node(depth, kind, empty) == [depth |-> depth, kind |-> kind, empty |-> empty]
Body(kind, nodes, values) == [kind |-> kind, nodes |-> nodes, values |-> values]
Plain(kind) == Body(kind, {}, {})
Bodies ==
  {Plain("none"), Plain("text"), Plain("octets")}
    \cup {Body("form", {}, {v}) : v \in {"text", "null", "complex"}}
    \cup {Body("json", {Node(0, "container", FALSE), n}, {}) :
            n \in {Node(1, "scalar", FALSE), Node(1, "infinite", FALSE),
                   Node(1, "container", TRUE), Node(1, "container", FALSE)}}

Get(path, headers, query, entity, limit) ==
  [path |-> path, headers |-> headers, query |-> query, body |-> entity, timeout |-> limit]

MCRequests ==
  {Get(p, <<>>, {}, Plain("none"), "none") : p \in Paths}
    \cup {Get(Path(<<"x">>), h, {}, b, "own") : h \in HeaderLists, b \in Bodies}
    \cup {Get(Path(<<"x">>), <<>>, {v}, Plain("none"), t) :
            v \in {"text", "null", "infinite"}, t \in {"none", "own", "zero"}}
=============================================================================
