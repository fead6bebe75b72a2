-------------------------------- MODULE Lexer -------------------------------
(***************************************************************************)
(* Lexer::scan, one action for each arm of scan_token and one for each     *)
(* round of its loops.  A character is its class: the lexer looks at       *)
(* nothing else of it.  Offsets count characters, from 0; the values of    *)
(* tokens are left out.                                                    *)
(***************************************************************************)
EXTENDS Integers, Sequences

CONSTANTS
  Sources,         \* the source texts considered
  MaxDigits,       \* digits that an i64 holds
  MaxFloatDigits   \* digits before the point that a finite f64 has

ASSUME DigitsAssumption == MaxDigits \in Nat /\ MaxFloatDigits \in Nat

Blanks == {"blank", "newline"}
Delimiters == {"delimiter"}       \* { } [ ] : = ,
Letters == {"letter", "n"}        \* n stands for the letters n, r and t
Escapes == {"quote", "backslash", "n"}
Characters == Blanks \cup Delimiters \cup Letters \cup Escapes
                \cup {"minus", "greater", "hash", "slash", "digit", "dot", "other"}

ASSUME SourcesAreTexts == Sources \subseteq Seq(Characters)

VARIABLES
  source,    \* the text
  start,     \* where the lexeme being scanned begins
  current,   \* the next character
  mode,      \* the loop that is being executed
  tokens,    \* kinds and spans, in source order
  errors     \* likewise

lexerVars == <<source, start, current, mode, tokens, errors>>

Lexeme(kind, from, to) == [kind |-> kind, start |-> from, end |-> to]

-----------------------------------------------------------------------------
Peek(offset) == IF offset < Len(source) THEN source[offset + 1] ELSE "eof"

LexerInit ==
  /\ source \in Sources
  /\ start = 0
  /\ current = 0
  /\ mode = "token"
  /\ tokens = <<>>
  /\ errors = <<>>

\* The ways in which a step can end: inside a loop, with a token, with an error.
Continue(loop, next) ==
  /\ mode' = loop
  /\ current' = next
  /\ UNCHANGED <<tokens, errors>>

AddToken(kind, from, next) ==
  /\ tokens' = Append(tokens, Lexeme(kind, from, next))
  /\ mode' = "token"
  /\ current' = next
  /\ UNCHANGED errors

AddError(kind, from, next, loop) ==
  /\ errors' = Append(errors, Lexeme(kind, from, next))
  /\ mode' = loop
  /\ current' = next
  /\ UNCHANGED tokens

-----------------------------------------------------------------------------
(***************************************************************************)
(* scan_token.                                                             *)
(***************************************************************************)
ScanMinus ==
  /\ Peek(current) = "minus"
  /\ \/ Peek(current + 1) = "greater" /\ AddToken("arrow", current, current + 2)
     \/ Peek(current + 1) = "digit" /\ Continue("integer", current + 1)
     \/ /\ Peek(current + 1) \notin {"greater", "digit"}
        /\ AddError("character", current, current + 1, "token")

\* Faulty: a slash that starts no comment is passed over.
ScanSlashSilently ==
  /\ Peek(current) = "slash"
  /\ \/ Peek(current + 1) = "slash" /\ Continue("comment", current + 2)
     \/ Peek(current + 1) # "slash" /\ Continue("token", current + 1)

ScanSlash ==
  /\ Peek(current) = "slash"
  /\ \/ Peek(current + 1) = "slash" /\ Continue("comment", current + 2)
     \/ Peek(current + 1) # "slash" /\ AddError("character", current, current + 1, "token")

ScanToken ==
  /\ mode = "token"
  /\ current < Len(source)
  /\ start' = current
  /\ \/ Peek(current) \in Blanks /\ Continue("token", current + 1)
     \/ Peek(current) \in Delimiters /\ AddToken("delimiter", current, current + 1)
     \/ ScanMinus
     \/ ScanSlash
     \/ Peek(current) = "quote" /\ Continue("string", current + 1)
     \/ Peek(current) = "hash" /\ Continue("comment", current + 1)
     \/ Peek(current) = "digit" /\ Continue("integer", current + 1)
     \/ Peek(current) \in Letters /\ Continue("identifier", current + 1)
     \/ /\ Peek(current) \in {"greater", "backslash", "dot", "other"}
        /\ AddError("character", current, current + 1, "token")
  /\ UNCHANGED source

EndOfFile ==
  /\ mode = "token"
  /\ current >= Len(source)
  /\ tokens' = Append(tokens, Lexeme("eof", current, current))
  /\ mode' = "done"
  /\ UNCHANGED <<source, start, current, errors>>

(***************************************************************************)
(* The loops.                                                              *)
(***************************************************************************)
ScanIdentifier ==
  /\ mode = "identifier"
  /\ \/ Peek(current) \in Letters \cup {"digit"} /\ Continue("identifier", current + 1)
     \/ /\ Peek(current) \notin Letters \cup {"digit"}
        /\ AddToken("word", start, current)
  /\ UNCHANGED <<source, start>>

\* Where the digits before the point end.
Point(last) == CHOOSE p \in start .. last :
                 /\ p = last \/ Peek(p) = "dot"
                 /\ \A q \in start .. last : q < p => Peek(q) # "dot"
DigitsBefore(last) == Point(last) - start - (IF Peek(start) = "minus" THEN 1 ELSE 0)

ParseNumber(kind, digits) ==
  \/ DigitsBefore(current) <= digits /\ AddToken(kind, start, current)
  \/ DigitsBefore(current) > digits /\ AddError(kind, start, current, "token")

ScanInteger ==
  /\ mode = "integer"
  /\ \/ Peek(current) = "digit" /\ Continue("integer", current + 1)
     \/ /\ Peek(current) = "dot" /\ Peek(current + 1) = "digit"
        /\ Continue("fraction", current + 1)
     \/ /\ Peek(current) # "digit"
        /\ ~ (Peek(current) = "dot" /\ Peek(current + 1) = "digit")
        /\ ParseNumber("integer", MaxDigits)
  /\ UNCHANGED <<source, start>>

ScanFraction ==
  /\ mode = "fraction"
  /\ \/ Peek(current) = "digit" /\ Continue("fraction", current + 1)
     \/ Peek(current) # "digit" /\ ParseNumber("number", MaxFloatDigits)
  /\ UNCHANGED <<source, start>>

\* The character after a backslash belongs to the escape, whatever it is.
ScanEscape ==
  /\ Peek(current) = "backslash"
  /\ \/ Peek(current + 1) = "eof" /\ AddError("unterminated", start, current + 1, "token")
     \/ Peek(current + 1) \in Escapes /\ Continue("string", current + 2)
     \/ /\ Peek(current + 1) \notin Escapes \cup {"eof"}
        /\ AddError("escape", start, current + 2, "recover")

ScanString ==
  /\ mode = "string"
  /\ \/ Peek(current) \in {"eof", "newline"} /\ AddError("unterminated", start, current, "token")
     \/ Peek(current) = "quote" /\ AddToken("string", start, current + 1)
     \/ ScanEscape
     \/ /\ Peek(current) \notin {"eof", "newline", "quote", "backslash"}
        /\ Continue("string", current + 1)
  /\ UNCHANGED <<source, start>>

RecoverString ==
  /\ mode = "recover"
  /\ \/ Peek(current) = "quote" /\ Continue("token", current + 1)
     \/ Peek(current) \in {"eof", "newline"} /\ Continue("token", current)
     \/ Peek(current) \notin {"eof", "newline", "quote"} /\ Continue("recover", current + 1)
  /\ UNCHANGED <<source, start>>

\* Faulty: a comment goes on in the next line.
SkipLineCommentOver ==
  /\ mode = "comment"
  /\ \/ Peek(current) = "eof" /\ Continue("token", current)
     \/ Peek(current) # "eof" /\ Continue("comment", current + 1)
  /\ UNCHANGED <<source, start>>

SkipLineComment ==
  /\ mode = "comment"
  /\ \/ Peek(current) \in {"eof", "newline"} /\ Continue("token", current)
     \/ Peek(current) \notin {"eof", "newline"} /\ Continue("comment", current + 1)
  /\ UNCHANGED <<source, start>>

LexerNext ==
  \/ ScanToken \/ EndOfFile
  \/ ScanIdentifier \/ ScanInteger \/ ScanFraction
  \/ ScanString \/ RecoverString \/ SkipLineComment

LexerSpec == LexerInit /\ [][LexerNext]_lexerVars

-----------------------------------------------------------------------------
(***************************************************************************)
(* Properties.                                                             *)
(***************************************************************************)
Covers(lexeme, offset) == lexeme.start <= offset /\ offset < lexeme.end

InToken(offset) == \E i \in DOMAIN tokens : Covers(tokens[i], offset)

\* No character of the range is one of the given.
Without(stops, from, to) == \A p \in from .. to : Peek(p) \notin stops

OpensComment(offset) ==
  \/ Peek(offset) = "hash"
  \/ Peek(offset) = "slash" /\ Peek(offset + 1) = "slash"

InComment(offset) ==
  \E q \in 0 .. offset : OpensComment(q) /\ ~ InToken(q) /\ Without({"newline"}, q, offset)

\* In an error, or in what recovery discards after it: the rest of the
\* string, up to and with a quote or up to a line feed.
IsReported(offset) ==
  \E i \in DOMAIN errors :
    /\ errors[i].start <= offset
    /\ \/ offset < errors[i].end
       \/ /\ Peek(offset) # "newline"
          /\ Without({"quote", "newline"}, errors[i].end, offset - 1)

\* How far the lexer has come to a decision.
Decided == IF mode \in {"token", "done"} THEN current ELSE start

\* The tokens are in order and disjoint, and every character behind the lexer
\* is in a token, blank, in a comment or covered by an error: what a text
\* without errors says is all in its tokens (lex: "callers report every
\* lexical issue found in a source file").
NothingIsLost ==
  /\ \A i, j \in DOMAIN tokens : i < j => tokens[i].end <= tokens[j].start
  /\ \A p \in 0 .. Decided - 1 :
       InToken(p) \/ Peek(p) \in Blanks \/ InComment(p) \/ IsReported(p)

\* No error reaches into the next line: wherever a line begins the lexer
\* starts afresh (docs/CODEX_HANDOFF_LEXER.md: recovery goes up to the closing
\* quote or the line feed).
LinesStartAfresh ==
  current > 0 /\ Peek(current - 1) = "newline" => mode \in {"token", "done"}
=============================================================================
