----------------------------- MODULE MCExecution ----------------------------
(***************************************************************************)
(* Small suites for module Execution.  They are valid and invalid: a       *)
(* program may build a suite that never went through check_source.         *)
(***************************************************************************)
EXTENDS Execution

Reads(name, whole) == {[name |-> name, whole |-> whole]}
Takes(name, structured) == [name |-> name, structured |-> structured]
Case(request, expect, captures, malformed) ==
  [request |-> request, expect |-> expect, captures |-> captures, malformed |-> malformed]

Plain        == Case({}, {}, <<>>, FALSE)
CapturesV    == Case(Reads("host", FALSE), {}, <<Takes("v", FALSE)>>, FALSE)
CapturesObj  == Case({}, {}, <<Takes("v", TRUE)>>, FALSE)
CapturesBoth == Case({}, {}, <<Takes("v", FALSE), Takes("w", FALSE)>>, FALSE)
ReadsV       == Case(Reads("v", FALSE), {}, <<Takes("w", FALSE)>>, FALSE)
ExpectsV     == Case({}, Reads("v", TRUE), <<>>, FALSE)
Twice        == Case({}, {}, <<Takes("v", FALSE), Takes("v", FALSE)>>, FALSE)
Malformed    == Case({}, {}, <<Takes("v", FALSE)>>, TRUE)

CoreOf(tests) == [kind |-> "core", tests |-> tests]
PipelineOf(tests) == [kind |-> "pipeline", tests |-> tests]
Alone(test) == [kind |-> "test", tests |-> <<test>>]

MCCores == {CoreOf(<<>>), CoreOf(<<CapturesV>>), CoreOf(<<CapturesObj, ExpectsV>>),
            CoreOf(<<Plain, Twice>>)}
MCPipelines == {PipelineOf(<<CapturesV, ReadsV>>), PipelineOf(<<ExpectsV, Plain>>),
                PipelineOf(<<CapturesBoth, Malformed, Plain>>), PipelineOf(<<>>)}
MCAlone == {Alone(Plain), Alone(ReadsV), Alone(CapturesV)}

MCBlocks == MCCores \cup MCPipelines \cup MCAlone

MCNames == {"host", "v", "w"}
MCPredefined == {"host"}
MCSuites == {<<>>} \cup {<<b>> : b \in MCBlocks} \cup {<<b, c>> : b, c \in MCBlocks}
              \cup {<<b, c, d>> : b \in MCBlocks, c \in MCBlocks, d \in MCCores \cup MCAlone}
=============================================================================
