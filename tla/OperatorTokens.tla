--------------------------- MODULE OperatorTokens ---------------------------
(***************************************************************************)
(* The operators of the language that are spelled with several ASCII       *)
(* characters.  Each handler of the tokenizer reads on while there is a    *)
(* longer operator, and they differ only in what they read: here there is  *)
(* a set of spellings for each handler, and one operator for the walk.     *)
(***************************************************************************)
EXTENDS TokenizerCharacters

\* What each handler reads, and the tokens it makes.
handleColon ==
  {<<":", "COLON">>, <<"::", "COLONCOLON">>, <<"::[", "COLONCOLONOPENSQUARE">>,
   <<":=", "COLONEQUAL">>, <<":>", "COLONGREATER">>}
handleDot == {<<".", "DOT">>, <<"..", "DOTDOT">>, <<"...", "DOTDOTDOT">>}
handleEqual ==
  {<<"=", "EQUAL">>, <<"==", "EQUALEQUAL">>, <<"===", "EQUALEQUALEQUAL">>,
   <<"=!=", "EQUALBANGEQUAL">>}
handleUnder ==
  {<<"_", "UNDER">>, <<"__", "UNDERUNDER">>, <<"___", "UNDERUNDERUNDER">>,
   <<"_.", "UNDERDOT">>}
handleLess ==
  {<<"<", "LESS">>, <<"<|", "LESSBAR">>, <<"<<", "LESSLESS">>, <<"<>", "LESSGREATER">>,
   <<"<=", "LESSEQUAL">>, <<"<->", "LESSMINUSGREATER">>}
handleGreater ==
  {<<">", "GREATER">>, <<">>", "GREATERGREATER">>, <<">>>", "GREATERGREATERGREATER">>,
   <<">=", "GREATEREQUAL">>}
handleMinus ==
  {<<"-", "MINUS">>, <<"->", "MINUSGREATER">>, <<"--", "MINUSMINUS">>,
   <<"-=", "MINUSEQUAL">>}
handleBar ==
  {<<"|", "BAR">>, <<"|>", "BARGREATER">>, <<"||", "BARBAR">>, <<"|->", "BARMINUSGREATER">>}
handleSemi == {<<";", "SEMI">>, <<";;", "SEMISEMI">>}
handleBang == {<<"!", "BANG">>, <<"!=", "BANGEQUAL">>, <<"!!", "BANGBANG">>}
handleHash == {<<"#", "HASH">>, <<"##", "HASHHASH">>}
handlePercent == {<<"%", "PERCENT">>, <<"%%", "PERCENTPERCENT">>}
handleAmp == {<<"&", "AMP">>, <<"&&", "AMPAMP">>}
handleSlash ==
  {<<"/", "SLASH">>, <<"/@", "SLASHAT">>, <<"/;", "SLASHSEMI">>, <<"/.", "SLASHDOT">>,
   <<"/:", "SLASHCOLON">>, <<"/=", "SLASHEQUAL">>, <<"/*", "SLASHSTAR">>,
   <<"//", "SLASHSLASH">>, <<"//.", "SLASHSLASHDOT">>, <<"//@", "SLASHSLASHAT">>,
   <<"//=", "SLASHSLASHEQUAL">>}
handleAt == {<<"@", "AT">>, <<"@@", "ATAT">>, <<"@@@", "ATATAT">>, <<"@*", "ATSTAR">>}
handlePlus == {<<"+", "PLUS">>, <<"++", "PLUSPLUS">>, <<"+=", "PLUSEQUAL">>}
handleTilde == {<<"~", "TILDE">>, <<"~~", "TILDETILDE">>}
handleQuestion == {<<"?", "QUESTION">>, <<"??", "QUESTIONQUESTION">>}
handleStar ==
  {<<"*", "STAR">>, <<"*=", "STAREQUAL">>, <<"**", "STARSTAR">>,
   <<"*)", "ERROR_UNEXPECTEDCOMMENTCLOSER">>}
handleCaret ==
  {<<"^", "CARET">>, <<"^=", "CARETEQUAL">>, <<"^:", "ERROR_EXPECTEDEQUAL">>,
   <<"^:=", "CARETCOLONEQUAL">>}
\* No longer operator begins with these.
Singles ==
  {<<",", "COMMA">>, <<"[", "OPENSQUARE">>, <<"]", "CLOSESQUARE">>, <<"{", "OPENCURLY">>,
   <<"}", "CLOSECURLY">>, <<"(", "OPENPAREN">>, <<")", "CLOSEPAREN">>,
   <<"'", "SINGLEQUOTE">>}

OperatorTable ==
  UNION {handleColon, handleDot, handleEqual, handleUnder, handleLess,
         handleGreater, handleMinus, handleBar, handleSemi, handleBang,
         handleHash, handlePercent, handleAmp, handleSlash, handleAt,
         handlePlus, handleTilde, handleQuestion, handleStar, handleCaret,
         Singles}

Operators ==
  [spelling \in {Codes(row[1]) : row \in OperatorTable} |->
     (CHOOSE row \in OperatorTable : Codes(row[1]) = spelling)[2]]

\* The start of a longer operator, but no operator.
Tentative == {Codes("=!"), Codes("<-"), Codes("|-")}

\* Operators that a reader may not see where they end.
PutASpace == {<<Codes("--"), Code["="]>>, <<Codes("|>"), Code["="]>>, <<Codes("++"), Code["="]>>}

WarnBehind(r, spelling) ==
  LET here == Source(r.s.SrcLoc, r.s.SrcLoc)
  IN CASE <<spelling, r.point>> \in PutASpace -> Warn(r, "AMBIGUOUS", "FORMATTING", here)
       [] <<spelling, r.point>> = <<Codes("_."), Code["."]>> ->
            Warn(r, "UNEXPECTEDDOT", "ERROR", here)
       [] <<spelling, r.point>> = <<Codes("--"), Code[">"]>> ->
            Warn(r, "AMBIGUOUS", "ERROR", Source(r.at.SrcLoc, r.s.SrcLoc))
       [] OTHER -> r

\* A slash and a number that begins with a dot.
DividesFraction(spelling, point) == spelling = Codes("/.") /\ isDigit(point)

\* Mutant of GivesBack: a tentative operator is kept.
GivesBack_never(r, spelling) == FALSE

\* What looked like an operator is given back as far as its last character.
GivesBack(r, spelling) ==
  spelling \in Tentative \/ DividesFraction(spelling, r.point)

\* The spellings that a handler looks behind: those of which longer ones are made, and
\* where it warns of what comes, or goes on with it, or gives back.
LookedBehind ==
  UNION {{SubSeq(longer, 1, n) : n \in 1..(Len(longer) - 1)} :
           longer \in DOMAIN Operators \union Tentative}
    \union {pair[1] : pair \in PutASpace}
    \union {Codes("_."), Codes("/."), Codes("%%")}

RECURSIVE LongestOperator(_, _, _)

\* r has read the spelling and looked behind it; last is before its last character.
OperatorBefore(r, spelling, last) ==
  LET longer == Append(spelling, r.point)
  IN CASE longer \in DOMAIN Operators \union Tentative -> LongestOperator(Take(r), longer, r)
       [] longer \notin DOMAIN Operators \union Tentative /\ GivesBack(r, spelling) ->
            Done(Tokenizer_backupAndWarn(r, last), Operators[SubSeq(spelling, 1, Len(spelling) - 1)])
       [] spelling = Codes("%%") /\ ~GivesBack(r, spelling) ->
            Done(AdvanceWhile(r, {Code["%"]}), "PERCENTPERCENT")
       [] OTHER ->
            Done(WarnBehind(r, spelling),
                 IF spelling \in DOMAIN Operators THEN Operators[spelling] ELSE "ERROR_OPERATOR")

\* r has read the spelling.
LongestOperator(r, spelling, last) ==
  IF spelling \in LookedBehind
  THEN OperatorBefore(Look(r), spelling, last)
  ELSE Done(r, Operators[spelling])

\* r has read the first character.
OperatorToken(r) == LongestOperator(r, <<r.point>>, r)

=============================================================================
