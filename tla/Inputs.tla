------------------------------- MODULE Inputs -------------------------------
(***************************************************************************)
(* What a command reads before it checks anything: --timeout, the source   *)
(* file, which another process may be appending to, and the variables of   *)
(* the environment, of the env file and of the --var options, in the order *)
(* of prepare_source.  The first thing that is wrong ends the command.     *)
(***************************************************************************)
EXTENDS Integers, SequencesExt

CONSTANTS
  Names,         \* what VariableName::new accepts
  Commands,      \* the command lines considered, each with its environment
  NoFile,        \* --env-file was not given
  MaxSource,     \* MAX_SOURCE_BYTES
  MaxEnvFile,    \* MAX_ENV_FILE_BYTES, in lines
  MaxGrowth,     \* bound: the longest the source file becomes
  Word,          \* u64::MAX
  PerSecond, PerMinute   \* milliseconds

Entries == [kind : STRING, name : STRING, value : STRING]
CommandLines ==
  [duration : [number : Int, letters : Seq(STRING)],
   environment : Seq(Entries), envFile : Seq(Entries), options : Seq(Entries)]

ASSUME CommandsAreLines == Commands \subseteq CommandLines
ASSUME LimitsAreNatural == {MaxSource, MaxEnvFile, MaxGrowth} \subseteq Nat
ASSUME UnitsArePositive == {Word, PerSecond, PerMinute} \subseteq Nat \ {0}

VARIABLES
  command,   \* the command line, its env file and environment
  source,    \* content of the source file, one piece per byte
  buffer,    \* what was read of it
  phase,     \* what is read next, "prepared" or "refused"
  timeout,   \* milliseconds, 0 if not given
  store,     \* the VariableStore
  reason     \* why the command was refused

inputVars == <<command, source, buffer, phase, timeout, store, reason>>

-----------------------------------------------------------------------------
Refuse(why) ==
  /\ phase' = "refused"
  /\ reason' = why
  /\ UNCHANGED <<command, source, buffer, timeout, store>>

InputsInit ==
  /\ command \in Commands
  /\ source \in SeqOf({"utf8", "binary"}, MaxSource + 1)
  /\ buffer = <<>>
  /\ phase = "timeout"
  /\ timeout = 0
  /\ store = <<>>
  /\ reason = "none"

(***************************************************************************)
(* --timeout: a number, -1 if there are no digits, and what follows them.  *)
(***************************************************************************)
\* Faulty: "s" is tried before "ms".
ShortSuffixFirst == <<<<"s">>, <<"m", "s">>, <<"m">>>>

SuffixOrder == <<<<"m", "s">>, <<"s">>, <<"m">>>>

Multiplier(suffix) ==
  CASE suffix = <<"m", "s">> -> 1 [] suffix = <<"s">> -> PerSecond [] OTHER -> PerMinute

Matching(letters) == {i \in DOMAIN SuffixOrder : IsSuffix(SuffixOrder[i], letters)}
SuffixOf(letters) ==
  SuffixOrder[CHOOSE i \in Matching(letters) : \A j \in Matching(letters) : i <= j]

\* Faulty: the product wraps around.
MillisecondsWrapping(d) == (d.number * Multiplier(SuffixOf(d.letters))) % (Word + 1)

Milliseconds(d) == d.number * Multiplier(SuffixOf(d.letters))

IsDuration(d) ==
  /\ Matching(d.letters) # {}
  /\ d.number # -1 /\ Len(SuffixOf(d.letters)) = Len(d.letters)
  /\ d.number <= Word
  /\ Milliseconds(d) \in 1 .. Word

ParseTimeout ==
  /\ phase = "timeout"
  /\ \/ /\ command.duration.letters = <<"default">> \/ IsDuration(command.duration)
        /\ timeout' = IF IsDuration(command.duration) THEN Milliseconds(command.duration) ELSE 0
        /\ phase' = "open"
        /\ UNCHANGED <<command, source, buffer, store, reason>>
     \/ /\ command.duration.letters # <<"default">> /\ ~ IsDuration(command.duration)
        /\ Refuse("duration")

-----------------------------------------------------------------------------
(***************************************************************************)
(* The source file.                                                        *)
(***************************************************************************)
\* Another process appends to the file until it has been read.
Grow ==
  /\ phase \in {"open", "read"}
  /\ Len(source) < MaxGrowth
  /\ source' = Append(source, "utf8")
  /\ UNCHANGED <<command, buffer, phase, timeout, store, reason>>

\* open and metadata: a file that is already too long is refused.
OpenSource ==
  /\ phase = "open"
  /\ \/ Refuse("io")
     \/ Len(source) > MaxSource /\ Refuse("source")
     \/ /\ Len(source) <= MaxSource
        /\ phase' = "read"
        /\ UNCHANGED <<command, source, buffer, timeout, store, reason>>

\* Faulty: no byte more than the limit is read.
TakeLimitExact == MaxSource

TakeLimit == MaxSource + 1

AtEnd == Len(buffer) = TakeLimit \/ Len(buffer) = Len(source)

ReadSource ==
  /\ phase = "read"
  /\ \/ Refuse("io")
     \/ /\ ~ AtEnd
        /\ \E n \in Len(buffer) + 1 .. Len(source) :
             n <= TakeLimit /\ buffer' = SubSeq(source, 1, n)
        /\ UNCHANGED <<command, source, phase, timeout, store, reason>>

EndOfSource ==
  /\ phase = "read"
  /\ AtEnd
  /\ \/ (Len(buffer) > MaxSource \/ "binary" \in ToSet(buffer)) /\ Refuse("source")
     \/ /\ Len(buffer) <= MaxSource /\ "binary" \notin ToSet(buffer)
        /\ phase' = "environment"
        /\ UNCHANGED <<command, source, buffer, timeout, store, reason>>

-----------------------------------------------------------------------------
(***************************************************************************)
(* The variables.  A broken line of an env file is one that parse refuses  *)
(* for want of a "=" or of a closing quote; so is a --var without "=".     *)
(***************************************************************************)
\* Faulty: the first value of a name is kept.
InsertIfAbsent(s, entry) ==
  [n \in DOMAIN s \cup {entry.name} |-> IF n \in DOMAIN s THEN s[n] ELSE entry.value]

InsertPredefined(s, entry) ==
  [n \in DOMAIN s \cup {entry.name} |-> IF n = entry.name THEN entry.value ELSE s[n]]

IsAssignment(entry) == entry.kind = "entry" /\ entry.name \in Names

\* One entry after the other; what is no assignment is passed over.
InsertEach(s, entries) ==
  LET after[n \in 0 .. Len(entries)] ==
        IF n = 0 THEN s
        ELSE IF IsAssignment(entries[n]) THEN InsertPredefined(after[n - 1], entries[n])
        ELSE after[n - 1]
  IN after[Len(entries)]

\* Unusable entries of the environment are skipped.
ExtendEnvironment ==
  /\ phase = "environment"
  /\ store' = InsertEach(store, command.environment)
  /\ phase' = IF command.envFile = NoFile THEN "options" ELSE "env_file"
  /\ UNCHANGED <<command, source, buffer, timeout, reason>>

\* Lines that are blank or a comment are skipped, all others must be usable.
IsUsable(line) == line.kind = "blank" \/ IsAssignment(line)

LoadEnvFile ==
  /\ phase = "env_file"
  /\ \/ Refuse("io")
     \/ /\ \/ Len(command.envFile) > MaxEnvFile
           \/ \E i \in DOMAIN command.envFile : ~ IsUsable(command.envFile[i])
        /\ Refuse("env_file")
     \/ /\ Len(command.envFile) <= MaxEnvFile
        /\ \A i \in DOMAIN command.envFile : IsUsable(command.envFile[i])
        /\ store' = InsertEach(store, command.envFile)
        /\ phase' = "options"
        /\ UNCHANGED <<command, source, buffer, timeout, reason>>

ApplyOptions ==
  /\ phase = "options"
  /\ \/ (\E i \in DOMAIN command.options : ~ IsAssignment(command.options[i])) /\ Refuse("option")
     \/ /\ \A i \in DOMAIN command.options : IsAssignment(command.options[i])
        /\ store' = InsertEach(store, command.options)
        /\ phase' = "prepared"
        /\ UNCHANGED <<command, source, buffer, timeout, reason>>

InputsNext ==
  \/ ParseTimeout \/ Grow \/ OpenSource \/ ReadSource \/ EndOfSource
  \/ ExtendEnvironment \/ LoadEnvFile \/ ApplyOptions

InputsSpec == InputsInit /\ [][InputsNext]_inputVars

-----------------------------------------------------------------------------
(***************************************************************************)
(* Properties.                                                             *)
(***************************************************************************)

\* However the file grows between its metadata and the end of the read, never
\* more than the limit and one sentinel byte is held, and a source that is
\* accepted is the whole file within the limit, never a prefix of it: "a
\* growing file cannot bypass the limit" (read_source).
AcceptedSourceIsWhole ==
  [][/\ Len(buffer') <= MaxSource + 1
     /\ phase = "read" /\ phase' = "environment" =>
          buffer = source /\ Len(buffer) <= MaxSource]_inputVars

\* A command starts exactly with what it was asked for, or not at all: the
\* timeout is the written amount to the millisecond and never zero, and every
\* name has the value of its last --var, else of its last line in the env
\* file, else of the environment; nothing malformed is passed over except in
\* the environment (parse_duration, prepare_source).
Layers == command.environment
            \o (IF command.envFile = NoFile THEN <<>> ELSE command.envFile)
            \o command.options
LastOf(n) == CHOOSE i \in DOMAIN Layers :
               /\ IsAssignment(Layers[i]) /\ Layers[i].name = n
               /\ \A j \in DOMAIN Layers : j > i =>
                    ~ (IsAssignment(Layers[j]) /\ Layers[j].name = n)
Layered == [n \in {e.name : e \in {x \in ToSet(Layers) : IsAssignment(x)}} |->
              Layers[LastOf(n)].value]

UnitOf == [ms |-> <<"m", "s">>, s |-> <<"s">>, m |-> <<"m">>]
FactorOf == [ms |-> 1, s |-> PerSecond, m |-> PerMinute]
Meaning(d) == {d.number * FactorOf[u] : u \in {x \in DOMAIN UnitOf : UnitOf[x] = d.letters}}
                \cap 1 .. Word

UsableOptions == \A option \in ToSet(command.options) : IsAssignment(option)
UsableEnvFile ==
  command.envFile # NoFile =>
    /\ Len(command.envFile) <= MaxEnvFile
    /\ \A line \in ToSet(command.envFile) : line.kind = "blank" \/ IsAssignment(line)

PreparedAsWritten ==
  /\ phase = "prepared" =>
       /\ \/ timeout = 0 /\ command.duration.letters = <<"default">>
          \/ {timeout} = Meaning(command.duration)
       /\ store = Layered
       /\ UsableOptions /\ UsableEnvFile
  /\ phase = "refused" =>
       CASE reason = "duration" -> Meaning(command.duration) = {}
         [] reason = "env_file" -> ~ UsableEnvFile
         [] reason = "option" -> ~ UsableOptions
         [] OTHER -> timeout = 0 \/ {timeout} = Meaning(command.duration)
=============================================================================
