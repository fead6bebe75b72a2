------------------------------ MODULE MCReports -----------------------------
(***************************************************************************)
(* Suites of up to three blocks for module Reports: every way a test and a *)
(* block come to their results, and suites that preflight refuses.         *)
(***************************************************************************)
EXTENDS Reports

Case(request, captures) ==
  [request |-> request, expect |-> {}, captures |-> captures, malformed |-> FALSE]

Plain    == Case({}, <<>>)
Reads    == Case({[name |-> "v", whole |-> FALSE]}, <<>>)
Captures == Case({}, <<[name |-> "v", structured |-> FALSE]>>)

BlockOf(kind, tests) == [kind |-> kind, tests |-> tests]

MCBlocks == {BlockOf("core", <<>>), BlockOf("core", <<Captures, Plain>>),
             BlockOf("pipeline", <<>>), BlockOf("pipeline", <<Captures, Reads, Plain>>),
             BlockOf("test", <<Plain>>), BlockOf("test", <<Reads>>)}

MCNames == {"host", "v"}
MCPredefined == {"host"}
MCSuites == {<<>>} \cup UNION {[1 .. n -> MCBlocks] : n \in 1 .. 3}
=============================================================================
