------------------------------ MODULE Spelling ------------------------------
(***************************************************************************)
(* What connects the model of the parser, whose inputs are sequences of    *)
(* token kinds, with the tokenizer, whose inputs are bytes.  TokenEnum     *)
(* says which sequences of kinds the tokens of some source can be; here    *)
(* each kind is spelled, and the tokenizer reads what was spelled.         *)
(***************************************************************************)
EXTENDS TokenStream, SequencesExt

CONSTANT KindSequences    \* sequences of kinds that are spelled

Kinds == INSTANCE TokenEnum

Spellings ==
  {<<"SYMBOL", "a">>, <<"INTEGER", "1">>, <<"STRING", "\"\"">>, <<"WHITESPACE", " ">>,
   <<"COMMENT", "(**)">>,
   <<"ERROR_EXPECTEDLETTERLIKE", "a$">>,
   <<"LONGNAME_INTEGRAL", "\\[Integral]">>, <<"LONGNAME_AND", "\\[And]">>,
   <<"LONGNAME_DIFFERENTIALD", "\\[DifferentialD]">>,
   <<"LONGNAME_CAPITALDIFFERENTIALD", "\\[CapitalDifferentialD]">>,
   <<"LONGNAME_INVISIBLECOMMA", "\\[InvisibleComma]">>,
   <<"LONGNAME_IMPLICITPLUS", "\\[ImplicitPlus]">>}
    \union LET kept == Kinds!Tokens
           IN {<<row[2], row[1]>> : row \in {r \in OperatorTable : r[2] \in kept}}

\* The row of  a$  stands for an  a  with a backquote behind it.
Spelling(kind) ==
  IF kind = "ERROR_EXPECTEDLETTERLIKE"
  THEN Codes("a") \o <<Backquote>>
  ELSE Codes((CHOOSE row \in Spellings : row[1] = kind)[2])

\* A newline in the source, that is read outside of groups.
SpelledKind(kind) == IF kind = "NEWLINE" THEN <<LF>> ELSE Spelling(kind)
ReadKind(kind) == IF kind = "NEWLINE" THEN "TOPLEVELNEWLINE" ELSE kind

Spelled(kinds) == FlattenSeq([i \in 1..Len(kinds) |-> SpelledKind(kinds[i])])

SpelledRows == {<<Spelled(kinds), kinds>> : kinds \in KindSequences}

SpelledSources == {row[1] : row \in SpelledRows}

\* The sequences of kinds that a source may have been spelled from.
SpelledFrom ==
  [text \in SpelledSources |->
     {row[2] : row \in {r \in SpelledRows : r[1] = text /\ Kinds!Tokenizable(r[2])}}]

SourceText == SubSeq(session.bytes, 1, Len(session.bytes) - 1)

(* What the parser is checked with is what the tokenizer gives it: a       *)
(* sequence of kinds that TokenEnum allows, spelled one behind the other,  *)
(* is read as these kinds, whatever the tokenizer has looked at before.    *)
ReadAsSpelled ==
  (SourceText \in SpelledSources /\ \A i \in DOMAIN tokens : tokens[i].reader = "TOPLEVEL") =>
    \A kinds \in SpelledFrom[SourceText] :
       \A i \in DOMAIN tokens : i \in DOMAIN kinds /\ tokens[i].Tok = ReadKind(kinds[i])

=============================================================================
