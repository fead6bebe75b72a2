------------------------------ MODULE MCInputs ------------------------------
(***************************************************************************)
(* Command lines for module Inputs: durations around every limit of an     *)
(* unsigned word of five bits, and up to two assignments in each layer.    *)
(***************************************************************************)
EXTENDS Inputs

Entry(name, value) == [kind |-> "entry", name |-> name, value |-> value]
Broken == [kind |-> "broken", name |-> "a", value |-> "none"]
Blank == [kind |-> "blank", name |-> "a", value |-> "none"]

MCNames == {"a", "b"}
Lines(layer) == {Entry("a", layer), Entry("a", "again"), Entry("b", layer), Entry("1st", layer),
                 Broken}

Environments == {<<>>, <<Entry("a", "env")>>, <<Entry("1st", "env"), Entry("b", "env")>>}
EnvFiles == SeqOf(Lines("file") \cup {Blank}, 2)
                \cup {<<Blank, Blank, Entry("a", "file")>>}
MCNoFile == <<[kind |-> "no file", name |-> "a", value |-> "none"]>>
VarOptions == SeqOf(Lines("var"), 2)

Durations ==
  [number : {-1, 0, 1, 4, 5, 6, 31, 32},
   letters : {<<>>, <<"s">>, <<"m">>, <<"m", "s">>, <<"s", "m">>}]
Default == [number |-> -1, letters |-> <<"default">>]

Command(duration, environment, file, options) ==
  [duration |-> duration, environment |-> environment, envFile |-> file, options |-> options]

MCCommands ==
  {Command(d, <<>>, MCNoFile, <<>>) : d \in Durations}
    \cup {Command(Default, e, f, o) :
            e \in Environments, f \in EnvFiles \cup {MCNoFile}, o \in VarOptions}
=============================================================================
