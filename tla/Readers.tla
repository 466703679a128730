------------------------------- MODULE Readers -------------------------------
(***************************************************************************)
(* Who reads tokens: the parser's loops, with the policy TOPLEVEL, and the *)
(* parselets of #, ##, %, ::, << and >>, which look for what may follow    *)
(* with policies, or readers of strings, of their own.                     *)
(***************************************************************************)
EXTENDS ByteDecoder

Policies == [TOPLEVEL |-> TOPLEVEL, SLOT |-> INSIDE_SLOT,
             SLOTSEQUENCE |-> INSIDE_SLOTSEQUENCE, OUT |-> INSIDE_OUT]

Readers == {"TAG", "FILE"} \union DOMAIN Policies

\* Token::skip, behind the token
skip(s, token) ==
  [s EXCEPT !.buffer = token.Buf + token.Len, !.SrcLoc = token.Src.End]

\* The reader, besides the loops, that the parselet of the last token calls.
ReaderBehind(tokens) ==
  LET last == tokens[Len(tokens)].Tok
  IN CASE tokens = <<>> -> "TOPLEVEL"
       [] tokens # <<>> /\ last = "HASH" -> "SLOT"
       [] tokens # <<>> /\ last = "HASHHASH" -> "SLOTSEQUENCE"
       [] tokens # <<>> /\ last = "PERCENT" -> "OUT"
       [] tokens # <<>> /\ last = "COLONCOLON" -> "TAG"
       [] tokens # <<>> /\ last \in {"LESSLESS", "GREATERGREATER", "GREATERGREATERGREATER"} ->
            "FILE"
       [] OTHER -> "TOPLEVEL"

\* What a parselet that has looked keeps; anything else is read again by the parser.
Keeps(reader, Tok) ==
  CASE reader = "SLOT" -> Tok \in {"INTEGER", "STRING"}
    [] reader \in {"SLOTSEQUENCE", "OUT"} -> Tok = "INTEGER"
    [] OTHER -> Tok # "ENDOFFILE"

=============================================================================
