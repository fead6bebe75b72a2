------------------------------ MODULE MCLexer -------------------------------
(***************************************************************************)
(* Every text of up to four characters, and longer ones over the           *)
(* characters that matter to strings, to numbers and to comments.          *)
(***************************************************************************)
EXTENDS Lexer, SequencesExt

MCSources ==
  UNION {SeqOf(Characters, 4),
         SeqOf({"quote", "backslash", "newline", "n", "letter"}, 6),
         SeqOf({"digit", "dot", "minus", "letter"}, 6),
         SeqOf({"slash", "hash", "quote", "newline", "delimiter"}, 6)}
=============================================================================
