---------------------------- MODULE MCRunCommand ----------------------------
(***************************************************************************)
(* A few suites under the whole command.  "link" and "report" are two      *)
(* spellings of one file, as a symbolic link or a relative path gives.     *)
(***************************************************************************)
EXTENDS RunCommand

Read(name) == {[name |-> name, whole |-> FALSE]}
Take(name) == [name |-> name, structured |-> FALSE]
Case(request, captures) ==
  [request |-> request, expect |-> {}, captures |-> captures, malformed |-> FALSE]

Plain    == Case({}, <<>>)
Login    == Case({}, <<Take("v")>>)
UsesV    == Case(Read("v"), <<>>)

Core(tests) == [kind |-> "core", tests |-> tests]
Pipeline(tests) == [kind |-> "pipeline", tests |-> tests]
Alone(test) == [kind |-> "test", tests |-> <<test>>]

MCNames == {"host", "v"}
MCPredefined == {"host"}
MCSuites == {<<>>, <<Alone(UsesV)>>,
             <<Alone(UsesV), Core(<<Login>>)>>,
             <<Pipeline(<<Login, UsesV>>), Alone(Plain)>>,
             <<Core(<<Login>>), Alone(Login)>>}

MCFiles == {"f", "g"}
MCPaths == {"report", "link", "other"}
MCFileOf == [p \in MCPaths |-> IF p = "other" THEN "g" ELSE "f"]
=============================================================================
