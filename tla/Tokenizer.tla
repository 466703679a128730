------------------------------ MODULE Tokenizer ------------------------------
(***************************************************************************)
(* Tokenizer_nextToken and its handlers: symbols, strings, comments, linear*)
(* syntax, unhandled characters, and the two ways in which the parser has  *)
(* a token read as a string.                                               *)
(***************************************************************************)
EXTENDS NumberTokens, OperatorTokens

----------------------------------------------------------------------------
(* Whitespace and newlines. *)

NewlineToken(r) ==
  Done(r, IF RETURN_TOPLEVELNEWLINE \in r.policy THEN "TOPLEVELNEWLINE" ELSE "INTERNALNEWLINE")

WarnOfToken(r, Tag) == Warn(r, Tag, "WARNING", Source(r.at.SrcLoc, r.s.SrcLoc))

Tokenizer_handleStrangeWhitespace(r) ==
  Done(WarnOfToken(r, "UNEXPECTEDSPACECHARACTER"), "WHITESPACE")

Tokenizer_handleMBStrangeNewline(r) ==
  NewlineToken(WarnOfToken(r, "UNEXPECTEDNEWLINECHARACTER"))

----------------------------------------------------------------------------
(* Comments, of source characters:  (* (* *) *)  *)

NextComment(s, policy) == NextSource[s, policy].s

\* Inside of depth comments.
RECURSIVE CommentRest(_, _, _, _)

\* A parenthesis that opens or a star has been read; look is at what may go with it.
CommentMark(point, look, at, policy, depth) ==
  LET second == NextComment(look.s, policy)
  IN CASE point = Code["("] /\ look.c = Code["*"] -> CommentRest(second, at, policy, depth + 1)
       [] point = Code["*"] /\ look.c = Code[")"] ->
            IF depth = 1 THEN Token("COMMENT", at, second)
                         ELSE CommentRest(second, at, policy, depth - 1)
       [] OTHER -> CommentRest(look.s, at, policy, depth)

CommentCharacter(look, at, policy, depth) ==
  LET first == NextComment(look.s, policy)
  IN CASE look.c = CODEPOINT_ENDOFFILE -> Token("ERROR_UNTERMINATEDCOMMENT", at, look.s)
       [] look.c \in {Code["("], Code["*"]} ->
            CommentMark(look.c, Peek(first, policy), at, policy, depth)
       [] OTHER -> CommentRest(Embedded(first, at, look.c), at, policy, depth)

CommentRest(s, at, policy, depth) == CommentCharacter(Peek(s, policy), at, policy, depth)

Tokenizer_handleComment(r) ==
  CommentRest(NextComment(r.s, r.policy), r.at, r.policy \union {STRING_OR_COMMENT}, 1)

OpenParen(r, second, escape) ==
  LET looked == [r EXCEPT !.s = second.s]
  IN IF escape = "ESCAPE_NONE" /\ second.c = Code["*"]
     THEN Tokenizer_handleComment(looked)
     ELSE Done(looked, "OPENPAREN")

\* An escaped parenthesis opens no comment.
Tokenizer_handleOpenParen(r, escape) == OpenParen(r, Peek(r.s, r.policy), escape)

----------------------------------------------------------------------------
(* Strings and linear syntax. *)

RECURSIVE StringRest(_)
StringRest(r) ==
  LET taken == Take(r)
  IN CASE r.point = Code["\""] -> Done(taken, "STRING")
       [] r.point = CODEPOINT_ENDOFFILE -> Done(r, "ERROR_UNTERMINATEDSTRING")
       [] OTHER -> StringRest(Look([taken EXCEPT !.s = Embedded(@, r.at, r.point)]))

InSlot(r) == INSIDE_SLOT \subseteq r.policy

WarnOfSlot(r, start) ==
  IF InSlot(r)
  THEN Warn(r, "UNDOCUMENTEDSLOTSYNTAX", "WARNING", Source(start, r.s.SrcLoc))
  ELSE r

Tokenizer_handleString(r) ==
  StringRest(Look([WarnOfSlot(r, r.at.SrcLoc) EXCEPT !.policy = @ \union {STRING_OR_COMMENT}]))

\*  \( ... \)  is one token, whatever is in it.
RECURSIVE BlobRest(_, _)
BlobRest(r, depth) ==
  CASE r.point = LinearSyntax[Code["("]] -> BlobRest(Advance(r), depth + 1)
    [] r.point = LinearSyntax[Code[")"]] ->
         IF depth = 1 THEN Done(Take(r), "LINEARSYNTAXBLOB") ELSE BlobRest(Advance(r), depth - 1)
    [] r.point = CODEPOINT_ENDOFFILE -> Done(r, "ERROR_UNTERMINATEDLINEARSYNTAXBLOB")
    [] OTHER -> BlobRest(Advance(r), depth)

Tokenizer_handleMBLinearSyntaxBlob(r) == BlobRest(Look(r), 1)

NakedLinearSyntax ==
  {<<")", "LINEARSYNTAX_CLOSEPAREN">>, <<"!", "LINEARSYNTAX_BANG">>, <<"@", "LINEARSYNTAX_AT">>,
   <<"%", "LINEARSYNTAX_PERCENT">>, <<"^", "LINEARSYNTAX_CARET">>, <<"&", "LINEARSYNTAX_AMP">>,
   <<"*", "LINEARSYNTAX_STAR">>, <<"_", "LINEARSYNTAX_UNDER">>, <<"+", "LINEARSYNTAX_PLUS">>,
   <<"/", "LINEARSYNTAX_SLASH">>, <<" ", "LINEARSYNTAX_SPACE">>}

Tokenizer_handleNakedMBLinearSyntax(r) ==
  IF r.point = LinearSyntax[Backquote]
  THEN Done(r, "LINEARSYNTAX_BACKTICK")
  ELSE Done(r, (CHOOSE row \in NakedLinearSyntax : LinearSyntax[Code[row[1]]] = r.point)[2])

----------------------------------------------------------------------------
(* Symbols:  a`b`c  *)

\* r has read a letter that begins at charLoc.
WarnOfLetter(r, charLoc) ==
  LET src == Source(charLoc, r.s.SrcLoc)
  IN CASE r.point = Code["$"] -> WarnOfSlot(r, charLoc)
       [] isStrangeLetterlike(r.point) \/ isMBStrangeLetterlike(r.point) ->
            Warn(r, "UNEXPECTEDLETTERLIKECHARACTER", "WARNING", src)
       [] OTHER ->
            IF INSIDE_STRINGIFY_AS_TAG \subseteq r.policy /\ ~isAlpha(r.point)
            THEN Warn(r, "UNEXPECTEDCHARACTER", "WARNING", src) ELSE r

\* r has looked behind a letter or digit.  A backquote behind the segment is read.
RECURSIVE SegmentRest(_)
SegmentRest(r) ==
  CASE isDigit(r.point) -> SegmentRest(Advance(r))
    [] IsLetterlike(r.point) -> SegmentRest(Look(WarnOfLetter(Take(r), r.s.SrcLoc)))
    [] r.point = Backquote -> Take(r)
    [] OTHER -> r

Tokenizer_handleSymbolSegment(r, charLoc) == SegmentRest(Look(WarnOfLetter(r, charLoc)))

\* r has read a backquote, or looked behind the symbol.
RECURSIVE SymbolRest(_)
SymbolRest(r) ==
  LET look == Look(WarnOfSlot(r, r.at.SrcLoc))
  IN CASE r.point # Backquote -> Done(r, IF InSlot(r) THEN "STRING" ELSE "SYMBOL")
       [] r.point = Backquote /\ IsLetterlike(look.point) ->
            SymbolRest(Tokenizer_handleSymbolSegment(Take(look), look.s.SrcLoc))
       [] OTHER -> Done(look, "ERROR_EXPECTEDLETTERLIKE")

Tokenizer_handleSymbol(r) ==
  SymbolRest(IF r.point = Backquote THEN r ELSE Tokenizer_handleSymbolSegment(r, r.at.SrcLoc))

----------------------------------------------------------------------------
(* A backslash that escapes nothing, with what seems to belong to it. *)

RECURSIVE AdvanceUpTo(_, _, _)
AdvanceUpTo(r, n, points) ==
  IF n > 0 /\ r.point \in points THEN AdvanceUpTo(Advance(r), n - 1, points) ELSE r

\* Up to the closing bracket, if the name is one.
UnhandledLongName(r) ==
  LET name == IF isUpper(r.point) THEN AdvanceWhile(r, AlphaOrDigits) ELSE r
  IN IF name.point = Code["]"] THEN Take(name) ELSE name

\* look has seen the character that the backslash is before.
UnhandledBackslash(look) ==
  LET behind == Advance(look)
  IN Done(CASE look.point = Code["["] -> UnhandledLongName(behind)
            [] look.point = Code[":"] -> AdvanceUpTo(behind, 4, HexDigits)
            [] look.point = Code["."] -> AdvanceUpTo(behind, 2, HexDigits)
            [] look.point = Code["|"] -> AdvanceUpTo(behind, 6, HexDigits)
            [] look.point \in OctalDigits -> AdvanceUpTo(behind, 3, OctalDigits)
            [] look.point = CODEPOINT_ENDOFFILE -> look
            [] OTHER -> Take(look),
          "ERROR_UNHANDLEDCHARACTER")

Tokenizer_handleUnhandledBackslash(r) == UnhandledBackslash(Look(r))

----------------------------------------------------------------------------
(* Any token. *)

PunctuationOperator ==
  [point \in PointsOfClass("Punctuation") |->
     CASE point = 8743 -> "LONGNAME_AND"
       [] point = 8744 -> "LONGNAME_OR"
       [] point = 8747 -> "LONGNAME_INTEGRAL"
       [] point = 63308 -> "LONGNAME_DIFFERENTIALD"
       [] point = 63307 -> "LONGNAME_CAPITALDIFFERENTIALD"
       [] point = 63333 -> "LONGNAME_INVISIBLECOMMA"
       [] point = 62366 -> "LONGNAME_IMPLICITPLUS"]

\* A digit, or a dot in front of one.
StartsNumber(r) == isDigit(r.point) \/ (r.point = Code["."] /\ isDigit(Look(r).point))

\* r has read a character of more than one byte.
MultiByteToken(r) ==
  LET point == r.point
  IN CASE isMBUnsafeUTF8Sequence(point) -> Done(r, "ERROR_UNSAFECHARACTERENCODING")
       [] point = LinearSyntax[Code["("]] -> Tokenizer_handleMBLinearSyntaxBlob(r)
       [] isMBLinearSyntax(point) /\ point # LinearSyntax[Code["("]] ->
            Tokenizer_handleNakedMBLinearSyntax(r)
       [] isMBUninterpretable(point) \/ isMBStringMeta(point) ->
            Done(r, "ERROR_UNHANDLEDCHARACTER")
       [] isMBWhitespace(point) -> Tokenizer_handleStrangeWhitespace(r)
       [] isMBStrangeNewline(point) -> Tokenizer_handleMBStrangeNewline(r)
       [] point = CODEPOINT_CRLF -> NewlineToken(r)
       [] isMBPunctuation(point) -> Done(r, PunctuationOperator[point])
       [] isMBLetterlike(point) -> Tokenizer_handleSymbol(r)

\* The token that begins with the character that was read.
TokenFrom(read, at, policy) ==
  LET point == read.c.point
      r == Reading(read.s, at, policy, point)
  IN CASE point = CODEPOINT_ENDOFFILE -> Done(r, "ENDOFFILE")
       [] point \in {BEL, DEL} -> Done(r, "ERROR_UNHANDLEDCHARACTER")
       [] point \in {TAB, Code[" "]} -> Done(r, "WHITESPACE")
       [] point \in {VT, FF} -> Tokenizer_handleStrangeWhitespace(r)
       [] point \in {LF, CR} -> NewlineToken(r)
       [] isLetterlike(point) \/ point = Backquote -> Tokenizer_handleSymbol(r)
       [] point = Code["\""] -> Tokenizer_handleString(r)
       [] point = Code["("] -> Tokenizer_handleOpenParen(r, read.c.escape)
       [] StartsNumber(r) -> Tokenizer_handleNumber(r.s, at, point, policy)
       [] point = Code["\\"] -> Tokenizer_handleUnhandledBackslash(r)
       [] <<point>> \in DOMAIN Operators /\ point # Code["("] /\ ~StartsNumber(r) ->
            OperatorToken(r)
       [] OTHER -> MultiByteToken(r)

Tokenizer_nextToken(at, policy) ==
  TokenFrom(Tokenizer_nextWLCharacter(at, at, policy), at, policy)

----------------------------------------------------------------------------
(* A token read as a string:  a::tag  and  << file  *)

Tokenizer_nextToken_stringifyAsTag(at) ==
  LET read == Tokenizer_nextWLCharacter(at, at, INSIDE_STRINGIFY_AS_TAG)
      r == Reading(read.s, at, INSIDE_STRINGIFY_AS_TAG, read.c.point)
  IN CASE r.point = Code["\""] -> Tokenizer_handleString(r)
       [] IsLetterlike(r.point) ->
            Done(Tokenizer_handleSymbolSegment(r, r.s.SrcLoc), "STRING")
       [] OTHER -> EmptyToken("ERROR_EXPECTEDTAG", at, r.s)

FilePoints ==
  AlphaOrDigits \union {Backquote}
    \union {Code[ch] : ch \in {"$", "/", ".", "\\", "!", "-", "_", ":", "*", "~", "?"}}

EndsBrackets(point) ==
  \/ isWhitespace(point)
  \/ point \in {LF, CR, CODEPOINT_CRLF, CODEPOINT_ENDOFFILE}
  \/ isMBWhitespace(point)
  \/ isMBNewline(point)

\* Inside of depth brackets; closed when they are matched.
RECURSIVE Tokenizer_handleFileOpsBrackets(_, _, _)
BracketsCharacter(look, policy, depth) ==
  LET after == NextSource[look.s, policy].s
  IN CASE EndsBrackets(look.c) -> [closed |-> FALSE, s |-> look.s]
       [] look.c = Code["["] -> Tokenizer_handleFileOpsBrackets(after, policy, depth + 1)
       [] look.c = Code["]"] /\ depth = 1 -> [closed |-> TRUE, s |-> after]
       [] look.c = Code["]"] /\ depth > 1 ->
            Tokenizer_handleFileOpsBrackets(after, policy, depth - 1)
       [] OTHER -> Tokenizer_handleFileOpsBrackets(after, policy, depth)

Tokenizer_handleFileOpsBrackets(s, policy, depth) ==
  BracketsCharacter(Peek(s, policy), policy, depth)

RECURSIVE FileRest(_, _, _)

FileBrackets(brackets, at, policy) ==
  IF brackets.closed THEN FileRest(brackets.s, at, policy)
                     ELSE Token("ERROR_UNTERMINATEDFILESTRING", at, brackets.s)

FileCharacter(look, at, policy) ==
  LET after == NextSource[look.s, policy].s
  IN CASE look.c \in FilePoints -> FileRest(after, at, policy)
       [] look.c = Code["["] ->
            FileBrackets(Tokenizer_handleFileOpsBrackets(after, policy, 1), at, policy)
       [] OTHER -> Token("STRING", at, look.s)

FileRest(s, at, policy) == FileCharacter(Peek(s, policy), at, policy)

FileToken(read, at) ==
  LET r == Reading(read.s, at, INSIDE_STRINGIFY_AS_FILE, read.c)
  IN CASE read.c \in {LF, CR, CODEPOINT_CRLF} -> NewlineToken(r)
       [] read.c \in {Code[" "], TAB} -> Done(r, "WHITESPACE")
       [] read.c = Code["\""] -> Tokenizer_handleString(r)
       [] read.c \in FilePoints \union {Code["["]} ->
            FileRest(Reset(r.s, at), at, INSIDE_STRINGIFY_AS_FILE)
       [] OTHER -> EmptyToken("ERROR_EXPECTEDFILE", at, r.s)

Tokenizer_nextToken_stringifyAsFile(at) ==
  FileToken(NextSource[at, INSIDE_STRINGIFY_AS_FILE], at)

----------------------------------------------------------------------------
(* Looking at a token gives back what was read; the issues and the places  *)
(* that were found stay.                                                   *)

\* Inside of groups newlines are trivia.
Tokenizer_currentToken(s, policy, insideGroup) ==
  GivenBack(Tokenizer_nextToken(s, IF insideGroup THEN policy \ {RETURN_TOPLEVELNEWLINE}
                                                  ELSE policy), s)

Tokenizer_currentToken_stringifyAsTag(s) == GivenBack(Tokenizer_nextToken_stringifyAsTag(s), s)
Tokenizer_currentToken_stringifyAsFile(s) == GivenBack(Tokenizer_nextToken_stringifyAsFile(s), s)

=============================================================================
