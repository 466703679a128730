----------------------------- MODULE TokenEnum -----------------------------
(***************************************************************************)
(* The token kinds of the parser and the class predicates that the        *)
(* parselets test.  Kinds are the TOKEN_* constants that are generated     *)
(* from Data/TokenEnum.wl; at least one kind of every parselet class is    *)
(* kept, and the kinds that differ only in their spelling are left out.    *)
(***************************************************************************)
EXTENDS Naturals, Sequences

\* A newline in the source is one of two tokens, decided when it is read.
Newlines == {"INTERNALNEWLINE", "TOPLEVELNEWLINE"}

Trivia == {"WHITESPACE", "COMMENT"} \union Newlines

TriviaButNotToplevelNewline == Trivia \ {"TOPLEVELNEWLINE"}

CloserTokens == {"CLOSECURLY", "CLOSEPAREN", "CLOSESQUARE"}

\* Openers that may start an expression; "[" is call syntax.
PossibleBeginningOpeners == {"OPENCURLY", "OPENPAREN"}

Openers == PossibleBeginningOpeners \union {"OPENSQUARE"}

Unders == {"UNDER", "UNDERUNDER", "UNDERUNDERUNDER"}

DifferentialDs == {"LONGNAME_DIFFERENTIALD", "LONGNAME_CAPITALDIFFERENTIALD"}

Commas == {"COMMA", "LONGNAME_INVISIBLECOMMA"}

PossibleBeginning ==
  {"SYMBOL", "STRING", "INTEGER", "PERCENT", "HASH", "HASHHASH", "UNDERDOT",
   "SEMISEMI", "BANG", "MINUS", "PLUS", "LESSLESS", "LONGNAME_INTEGRAL"}
    \union Unders \union DifferentialDs \union PossibleBeginningOpeners

\* Error tokens that the tokenizer returns for characters of the source ...
TokenizerErrors == {"ERROR_EXPECTEDLETTERLIKE"}

\* ... and those that only the parser creates.
ParserErrors ==
  {"ERROR_EXPECTEDOPERAND", "ERROR_EXPECTEDTAG", "ERROR_EXPECTEDFILE",
   "ERROR_UNSUPPORTEDTOKEN", "ERROR_UNEXPECTEDCLOSER",
   "ERROR_PREFIXIMPLICITNULL", "ERROR_INFIXIMPLICITNULL"}

Errors == TokenizerErrors \union ParserErrors

\* Tokens with no character of the source behind them.
Fakes == {"FAKE_IMPLICITTIMES", "FAKE_IMPLICITNULL", "FAKE_IMPLICITONE",
          "FAKE_IMPLICITALL"}

BinaryOnlyOperators == {"SLASH", "CARET", "MINUSGREATER", "QUESTION"}

InfixOnlyOperators == {"DOT", "AMPAMP", "LONGNAME_AND", "LONGNAME_IMPLICITPLUS",
                       "BAR", "STAR"}

SpecialOperators ==
  {"AMP", "SEMI", "TILDE", "COLON", "SLASHCOLON", "EQUAL", "COLONEQUAL",
   "COLONCOLON", "GREATERGREATER", "GREATERGREATERGREATER"}

\* The kinds Tokenizer_currentToken can return.
Tokens ==
  Trivia \union CloserTokens \union Openers \union PossibleBeginning
    \union TokenizerErrors \union BinaryOnlyOperators \union InfixOnlyOperators
    \union SpecialOperators \union Commas
    \union {"ENDOFFILE", "QUESTIONQUESTION"}

\* Every kind a leaf of the concrete syntax can have.
LeafKinds == Tokens \union ParserErrors \union Fakes

\* What a source file is made of: tokens, with newlines not yet classified.
SourceTokens == (Tokens \ (Newlines \union {"ENDOFFILE"})) \union {"NEWLINE"}

Closers == {"CLOSER_CLOSECURLY", "CLOSER_CLOSEPAREN", "CLOSER_CLOSESQUARE"}

AnyCloser == Closers \union {"CLOSER_ASSERTFALSE"}

GroupOpenerToCloser(opener) ==
  CASE opener = "OPENCURLY"  -> "CLOSER_CLOSECURLY"
    [] opener = "OPENPAREN"  -> "CLOSER_CLOSEPAREN"
    [] opener = "OPENSQUARE" -> "CLOSER_CLOSESQUARE"
    [] OTHER                 -> "CLOSER_ASSERTFALSE"

TokenToCloser(tok) ==
  CASE tok = "CLOSECURLY"  -> "CLOSER_CLOSECURLY"
    [] tok = "CLOSEPAREN"  -> "CLOSER_CLOSEPAREN"
    [] tok = "CLOSESQUARE" -> "CLOSER_CLOSESQUARE"
    [] OTHER               -> "CLOSER_ASSERTFALSE"

(***************************************************************************)
(* Which kinds can be neighbours in a source file: the tokenizer goes on   *)
(* reading a token while the next character continues it, so a token whose *)
(* first character continues the one before it is not a token of its own.  *)
(***************************************************************************)
FirstChar(tok) ==
  CASE tok \in {"COLON", "COLONCOLON", "COLONEQUAL"}  -> ":"
    [] tok \in Unders \union {"UNDERDOT"}             -> "_"
    [] tok \in {"SEMI", "SEMISEMI"}                   -> ";"
    [] tok \in {"AMP", "AMPAMP"}                      -> "&"
    [] tok \in {"HASH", "HASHHASH"}                   -> "#"
    [] tok \in {"SLASH", "SLASHCOLON"}                -> "/"
    [] tok \in {"MINUS", "MINUSGREATER"}              -> "-"
    [] tok \in {"GREATERGREATER", "GREATERGREATERGREATER"} -> ">"
    [] tok \in {"QUESTION", "QUESTIONQUESTION"}       -> "?"
    [] tok = "EQUAL"                                  -> "="
    [] tok = "DOT"                                    -> "."
    [] tok = "BANG"                                   -> "!"
    [] tok = "PLUS"                                   -> "+"
    [] tok = "STAR"                                   -> "*"
    [] tok = "BAR"                                    -> "|"
    [] tok = "TILDE"                                  -> "~"
    [] tok = "CARET"                                  -> "^"
    [] tok = "PERCENT"                                -> "%"
    [] tok = "OPENSQUARE"                             -> "["
    [] tok = "CLOSEPAREN"                             -> ")"
    [] tok \in {"SYMBOL", "ERROR_EXPECTEDLETTERLIKE"} -> "letter"
    [] tok = "INTEGER"                                -> "digit"
    [] OTHER                                          -> "other"

Continuations(tok) ==
  CASE tok = "SYMBOL"         -> {"letter", "digit"}
    [] tok = "ERROR_EXPECTEDLETTERLIKE" -> {"letter"}
    [] tok = "INTEGER"        -> {"digit", ".", "^", "*"}
    [] tok = "COLON"          -> {":", "=", ">"}
    [] tok = "COLONCOLON"     -> {"["}
    [] tok = "UNDER"          -> {"_", "."}
    [] tok = "UNDERUNDER"     -> {"_"}
    [] tok = "DOT"            -> {".", "digit"}
    [] tok = "EQUAL"          -> {"="}
    [] tok = "SEMI"           -> {";"}
    [] tok = "BANG"           -> {"!", "="}
    [] tok = "HASH"           -> {"#"}
    [] tok = "PERCENT"        -> {"%"}
    [] tok = "AMP"            -> {"&"}
    [] tok = "SLASH"          -> {"/", ";", ".", ":", "=", "*"}
    [] tok = "PLUS"           -> {"+", "="}
    [] tok = "MINUS"          -> {"-", ">", "="}
    [] tok = "STAR"           -> {"*", "=", ")"}
    [] tok = "BAR"            -> {"|", ">", "-"}
    [] tok = "TILDE"          -> {"~"}
    [] tok = "QUESTION"       -> {"?"}
    [] tok = "CARET"          -> {":", "="}
    [] tok = "GREATERGREATER" -> {">"}
    [] tok = "OPENPAREN"      -> {"*"}
    [] OTHER                  -> {}

\* A sequence of kinds that some source file has as its tokens.
Tokenizable(s) ==
  \A i \in 1..(Len(s) - 1) : FirstChar(s[i + 1]) \notin Continuations(s[i])

\* Kinds whose characters can stand in a file name that has no quotes.
FileNameTokens ==
  {"SYMBOL", "INTEGER", "DOT", "SLASH", "BANG", "MINUS", "STAR", "TILDE",
   "QUESTION", "QUESTIONQUESTION", "COLON", "COLONCOLON", "SLASHCOLON",
   "UNDERDOT"} \union Unders

=============================================================================
