------------------------------ MODULE MCParser ------------------------------
(***************************************************************************)
(* The inputs of the runs.  A run parses every token sequence up to a      *)
(* length over an alphabet of the tokens it is about, and some longer ones *)
(* that reach the steps a short sequence cannot.                           *)
(***************************************************************************)
EXTENDS ParserRefinement, StackDiscipline

SequencesUpto(n, alphabet) ==
  {s \in UNION {[1..m -> alphabet] : m \in 0..n} : Tokenizable(s)}

\* Left and right associative operators, prefix and postfix ones, and two
\* operators with one meaning.
OperatorInputs ==
  SequencesUpto(4, {"SYMBOL", "SLASH", "CARET", "DOT", "STAR", "PLUS", "MINUS",
                    "BANG", "AMP"})
    \union
  SequencesUpto(5, {"SYMBOL", "AMPAMP", "LONGNAME_AND", "CARET", "BANG",
                    "WHITESPACE"})
    \union
  SequencesUpto(5, {"SYMBOL", "PLUS", "LONGNAME_IMPLICITPLUS", "STAR"})
    \union
  {<<"SYMBOL", op1, "SYMBOL", op2, "SYMBOL", op3, "SYMBOL">> :
     op1, op2, op3 \in {"PLUS", "LONGNAME_IMPLICITPLUS"}}

\*  1 + 2 \[ImplicitPlus] 3  and its like
SumInputs == SequencesUpto(5, {"SYMBOL", "PLUS", "LONGNAME_IMPLICITPLUS"})

\* Groups of two kinds, closed, left open, and closed by another's closer.
GroupInputs ==
  SequencesUpto(5, {"SYMBOL", "OPENPAREN", "CLOSEPAREN", "OPENSQUARE",
                    "CLOSESQUARE", "COMMA"})
    \union
  SequencesUpto(4, {"SYMBOL", "OPENCURLY", "CLOSECURLY", "CLOSEPAREN", "BAR",
                    "SEMI", "QUESTIONQUESTION", "ERROR_EXPECTEDLETTERLIKE"})

\* Operators that stop at a toplevel newline, inside groups and outside.
LineInputs ==
  SequencesUpto(5, {"SYMBOL", "SEMI", "SEMISEMI", "NEWLINE", "STAR", "OPENPAREN",
                    "CLOSEPAREN"})

TernaryInputs ==
  SequencesUpto(5, {"SYMBOL", "TILDE", "COLON", "SLASHCOLON", "EQUAL", "DOT",
                    "NEWLINE"})
    \union
  {<<"SYMBOL", "SLASHCOLON", "SYMBOL", "COLONEQUAL", "SYMBOL">>,
   <<"SYMBOL", "COLONEQUAL", "SYMBOL", "TILDE", "SYMBOL", "TILDE", "SYMBOL">>,
   <<"SYMBOL", "TILDE", "SYMBOL", "TILDE", "SYMBOL", "TILDE", "SYMBOL">>}

PatternInputs ==
  SequencesUpto(5, {"SYMBOL", "UNDER", "UNDERDOT", "ERROR_EXPECTEDLETTERLIKE",
                    "COLON", "HASH", "INTEGER"})
    \union
  SequencesUpto(3, {"UNDERUNDER", "UNDERUNDERUNDER", "HASHHASH", "PERCENT",
                    "INTEGER", "SYMBOL"})

\* Brackets can be part of a file name, which is not modelled, and are not
\* among these tokens.
StringifyInputs ==
  SequencesUpto(5, {"SYMBOL", "COLONCOLON", "GREATERGREATER", "LESSLESS",
                    "NEWLINE", "OPENPAREN", "CLOSEPAREN"})
    \union
  SequencesUpto(4, {"SYMBOL", "COLONCOLON", "GREATERGREATER", "LESSLESS",
                    "NEWLINE", "WHITESPACE", "OPENPAREN"})
    \union
  SequencesUpto(3, {"SYMBOL", "GREATERGREATERGREATER", "DOT", "INTEGER", "STRING"})

IntegralInputs ==
  SequencesUpto(5, {"SYMBOL", "LONGNAME_INTEGRAL", "LONGNAME_DIFFERENTIALD",
                    "CARET", "SEMISEMI", "STAR", "NEWLINE"})

OneOperatorInputs == OperatorInputs \union GroupInputs \union LineInputs
ManyPartInputs == TernaryInputs \union PatternInputs \union StringifyInputs \union IntegralInputs

\* A part of every operator, where an abort can come before any of its steps.
AbortInputs ==
  SequencesUpto(3, {"SYMBOL", "UNDER", "PLUS", "STAR", "COMMA", "SEMI",
                    "SEMISEMI", "TILDE", "OPENSQUARE", "CLOSESQUARE",
                    "CLOSEPAREN"})
    \union
  {<<"OPENPAREN", "SYMBOL", "OPENSQUARE", "SYMBOL", "PLUS", "SYMBOL", "CLOSEPAREN">>,
   <<"SYMBOL", "SLASHCOLON", "SYMBOL", "EQUAL", "DOT", "COLONCOLON", "SYMBOL">>,
   <<"LONGNAME_INTEGRAL", "HASH", "INTEGER", "CARET", "SYMBOL",
     "LONGNAME_DIFFERENTIALD", "SYMBOL">>,
   <<"SYMBOL", "COLON", "SYMBOL", "UNDER", "SYMBOL", "COLON", "LESSLESS", "SYMBOL">>}

\* "CompoundExpression should not cross toplevel newlines"
CompoundInputs == SequencesUpto(5, {"SYMBOL", "SEMI", "NEWLINE"})

\*  \[Integral] x y \[DifferentialD] x  and  \[Integral] ;; x \[DifferentialD] x
DifferentialInputs ==
  {<<"LONGNAME_INTEGRAL", "SYMBOL", "WHITESPACE", "SYMBOL",
     "LONGNAME_DIFFERENTIALD", "SYMBOL">>,
   <<"LONGNAME_INTEGRAL", "SEMISEMI", "SYMBOL", "LONGNAME_DIFFERENTIALD", "SYMBOL">>}

=============================================================================
