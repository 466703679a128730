----------------------------- MODULE CurrentToken -----------------------------
(***************************************************************************)
(* The tokenizer in full, as those take it who use it as a constant.       *)
(***************************************************************************)
EXTENDS Readers, Tokenizer

\* What each of them sees, as one value: the tokenizer, to those who use it.
CurrentTokenBy ==
  LET look[reader \in Readers, s \in Sessions] ==
        CASE reader = "TAG" -> Tokenizer_currentToken_stringifyAsTag(s)
          [] reader = "FILE" -> Tokenizer_currentToken_stringifyAsFile(s)
          [] OTHER -> Tokenizer_currentToken(s, Policies[reader], FALSE)
  IN look

=============================================================================
