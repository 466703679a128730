---------------------------- MODULE MCTokenStream ----------------------------
(***************************************************************************)
(* The sources of the runs on tokens: every sequence of a few fragments,   *)
(* which are the characters, or the beginnings of escapes, that one        *)
(* handler of the tokenizer tells apart.                                   *)
(***************************************************************************)
EXTENDS Spelling

\* Up to n of the fragments, one behind the other.
UpTo(n, fragments) == {FlattenSeq(f) : f \in UNION {[1..m -> fragments] : m \in 0..n}}

Chars(text) == {<<Codes(text)[i]>> : i \in 1..Len(text)}

Continuation == <<Code["\\"], LF>>

OperatorSources == UpTo(3, Chars("=!<->|.:/;^+*1a"))

NumberSources ==
  UpTo(4, Chars("13.^*-a") \union {<<Backquote>>})
    \union {pair[1] \o Continuation \o pair[2] :
              pair \in UpTo(2, Chars("1.*^") \union {<<Backquote>>})
                         \X UpTo(2, Chars("1.^ ") \union {<<Backquote>>})}
    \union {Codes("1") \o marks \o sign \o rest :
              marks \in {<<Backquote>>, <<Backquote, Backquote>>}, sign \in {<<>>, Codes("+"), Codes("-")},
              rest \in UpTo(2, Chars(".1a"))}

\* Strings and comments over several lines.
TextSources ==
  UpTo(3, Chars("\"\\(*) ") \union {<<LF>>, <<CR>>, <<TAB>>})
    \union {Codes("(*") \o inside \o Codes("*)") : inside \in UpTo(2, Chars("(*)\\ ") \union {<<LF>>, <<TAB>>})}
    \union {Codes("\"") \o inside \o Codes("\"") : inside \in UpTo(2, {Codes("\\"), Codes("a"), <<CR, LF>>, <<TAB>>})}

EscapeSources ==
  UpTo(2, {Codes("\\[Pi]"), Codes("\\[RawBackslash]"), Codes("\\[RawTab]"), Codes("\\[Pi"),
           Codes("\\[Pj]"), Codes("\\:0041"), Codes("\\:0"), Codes("\\|11"), Codes("\\101"),
           Codes("\\("), Codes("\\)"), Continuation, <<Code["\\"], CR>>, <<Code["\\"], CR, LF>>,
           Codes("\\"), Codes("\""), Codes("a"), Codes("1"), Codes(" "),
           <<195, 169>>, <<255>>, <<LF>>})

\* Tokens that are read by another reader, or may be.
ReaderSources ==
  {start \o rest :
     start \in {Codes(text) : text \in {"#", "##", "%", "::", "<<"}},
     rest \in UpTo(2, Chars("#%a1.[]/\" \\") \union {<<LF>>, <<Backquote>>})}

TokenSources ==
  OperatorSources \union NumberSources \union TextSources \union EscapeSources \union ReaderSources

\*  1\  6^^1  with a newline behind the backslash.
ContinuedBaseSources == {Codes("1") \o Continuation \o Codes("6^^1")}

KindsRead ==
  {"SYMBOL", "INTEGER", "STRING", "WHITESPACE", "COMMENT", "NEWLINE", "ERROR_EXPECTEDLETTERLIKE",
   "LONGNAME_INTEGRAL", "LONGNAME_AND", "LONGNAME_DIFFERENTIALD", "LONGNAME_INVISIBLECOMMA",
   "LONGNAME_IMPLICITPLUS"}
    \union {row[2] : row \in {r \in OperatorTable : r[2] \in Kinds!Tokens}}
PairsOfKinds == [1..2 -> KindsRead]
NoKinds == {}

ReadSources == TokenSources \union SpelledSources

TokenOptions ==
  {[srcConvention |-> "LINECOLUMN", tabWidth |-> 4, encodingMode |-> "NORMAL",
    firstLineBehavior |-> "NOTSCRIPT"]}

=============================================================================
