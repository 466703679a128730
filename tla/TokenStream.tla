----------------------------- MODULE TokenStream -----------------------------
(***************************************************************************)
(* ParserSession::tokenize and the parselets that read tokens in another   *)
(* way: at each place the token is looked at, perhaps by several readers   *)
(* and again and again, and one of them takes it.  The properties are      *)
(* about the tokenizer and the decoders below it.                          *)
(***************************************************************************)
EXTENDS CurrentToken

CONSTANTS LookBy,         \* the tokenizer: what a reader sees of a session
          Sources,        \* the byte sequences that are read, without sentinel
          SessionOptions  \* the options that a session can have

ASSUME SourcesAssumption == Sources \subseteq Seq(Byte)
ASSUME SessionOptionsAssumption == SessionOptions \subseteq Options

VARIABLES session,  \* the session
          tokens,   \* the tokens taken, and who read them
          looked    \* the readers that have looked at the next token

vars == <<session, tokens, looked>>

NextReader == ReaderBehind(tokens)

----------------------------------------------------------------------------
(* Steps. *)

Init ==
  /\ \E Buf \in Sources, opts \in SessionOptions : session = init(Buf, FALSE, opts)
  /\ tokens = <<>>
  /\ looked = {}

\* A look at the next token, which is not taken.
Tokenizer_look ==
  \E reader \in {NextReader, "TOPLEVEL"} \ looked :
     /\ session' = LookBy[reader, session].s
     /\ looked' = looked \union {reader}
     /\ UNCHANGED tokens

Tokenizer_take ==
  \E reader \in {NextReader, "TOPLEVEL"} :
     \E read \in {LookBy[reader, session]} :
        /\ Keeps(reader, read.c.Tok)
        /\ session' = skip(read.s, read.c)
        /\ tokens' = Append(tokens, [Tok |-> read.c.Tok, Buf |-> read.c.Buf, Len |-> read.c.Len,
                                   Src |-> read.c.Src, reader |-> reader])
        /\ looked' = {}

AtEnd == LookBy["TOPLEVEL", session].c.Tok = "ENDOFFILE"

Terminated == AtEnd /\ UNCHANGED vars

Next == Tokenizer_look \/ Tokenizer_take \/ Terminated

Spec == Init /\ [][Next]_vars

----------------------------------------------------------------------------
(* What the properties say in terms of the bytes alone. *)

TextOf(token) == SubSeq(session.bytes, token.Buf + 1, token.Buf + token.Len)

\* The places between source characters, and their source locations.
RECURSIVE PlacesFrom(_)
PlacesFrom(s) ==
  {[buffer |-> s.buffer, SrcLoc |-> s.SrcLoc]}
    \union IF s.buffer < end(s) - 1
           THEN PlacesFrom(ByteDecoder_nextSourceCharacter(s, {}).s) ELSE {}

Places == PlacesFrom([session EXCEPT !.buffer = 0, !.SrcLoc = newSourceLocation(session.opts)])

\* A line end behind an odd number of backslashes is a line continuation.
BackslashesBefore(text, i) ==
  CHOOSE n \in 0..(i - 1) :
     /\ \A j \in 1..n : text[i - j] = Code["\\"]
     /\ n = i - 1 \/ text[i - n - 1] # Code["\\"]

IsLineEnd(text, i) == text[i] \in {LF, CR} /\ ~(text[i] = LF /\ i > 1 /\ text[i - 1] = CR)
Continues(text, i) == IsLineEnd(text, i) /\ BackslashesBefore(text, i) % 2 = 1

\* Inside of a comment, and not in front of it.
Begun(text, j) == \E i \in 1..j : text[i] = Code["("]

StringTokens == {"STRING", "ERROR_UNTERMINATEDSTRING"}
CommentTokens == {"COMMENT", "ERROR_UNTERMINATEDCOMMENT"}

\* Tokens that are named without characters of their own, isEmpty.
EmptyTokens == {"ERROR_EXPECTEDTAG", "ERROR_EXPECTEDFILE"}

----------------------------------------------------------------------------
(* Properties. *)

(* However often a token is looked at, and by whichever reader, the token  *)
(* and the session with its issues and marks are as after the first look.  *)
LookingAgainChangesNothing ==
  \A reader \in {NextReader, "TOPLEVEL"} :
     \A look \in {LookBy[reader, session]} : LookBy[reader, look.s] = look

(* Where the tokenizer has read ahead and given back, it is between two    *)
(* source characters, at the source location of that place: the buffer and *)
(* the location have been moved, skipped and reset together.               *)
PlaceIsKept ==
  /\ [buffer |-> session.buffer, SrcLoc |-> session.SrcLoc] \in Places
  /\ \A i \in 1..Len(tokens) :
       \A loc \in {tokens[i].Src.Start, tokens[i].Src.End} :
          \E place \in Places : place.SrcLoc = loc

(* Issues point at characters of the source, in order.                     *)
IssuesArePlaced ==
  \A I \in {session.fatalIssues[i] : i \in DOMAIN session.fatalIssues}
             \union {session.nonFatalIssues[i] : i \in DOMAIN session.nonFatalIssues} :
     /\ \A loc \in {I.Src.Start, I.Src.End} : \E place \in Places : place.SrcLoc = loc
     /\ ~Before(I.Src.End, I.Src.Start)

(* The asserts of the constructor of Token: a token has characters, unless *)
(* it says that they are missing, and on one line as many columns as bytes.*)
TokenAsserts ==
  \A i \in 1..Len(tokens) :
     LET t == tokens[i]
         text == TextOf(t)
     IN /\ t.Tok \in EmptyTokens => t.Len = 0
        /\ t.Tok \notin EmptyTokens => t.Len > 0
        /\ (/\ t.Tok \notin EmptyTokens \union {"TOPLEVELNEWLINE", "INTERNALNEWLINE"}
            /\ t.Src.Start.first > 0
            /\ t.Src.Start.first = t.Src.End.first
            /\ \A j \in 1..Len(text) : text[j] < 128 /\ text[j] # TAB)
             => t.Src.End.second - t.Src.Start.second = t.Len

(* A token that crosses lines or tab stops has been marked as one that     *)
(* does, for what the kernel does with it later: a line continuation, and  *)
(* in strings and comments a newline or a tab.                             *)
CrossingsAreMarked ==
  \A i \in 1..Len(tokens) :
     LET t == tokens[i]
         text == TextOf(t)
         start == t.Src.Start
         continues == \E j \in 1..Len(text) : Continues(text, j)
         breaks == \E j \in 1..Len(text) :
                      /\ IsLineEnd(text, j)
                      /\ IF t.Tok \in CommentTokens THEN Begun(text, j) ELSE ~Continues(text, j)
         tabs == \E j \in 1..Len(text) : text[j] = TAB
     IN /\ (continues /\ t.reader # "FILE" /\ t.Tok \in StringTokens)
             => start \in session.ComplexLineContinuations \union session.SimpleLineContinuations
        /\ (continues /\ t.reader # "FILE" /\ t.Tok \notin StringTokens \union CommentTokens)
             => start \in session.SimpleLineContinuations
        /\ (breaks /\ t.Tok \in StringTokens \union CommentTokens)
             => start \in session.EmbeddedNewlines
        /\ (tabs /\ t.Tok \in CommentTokens) => start \in session.EmbeddedTabs

\* A REAL that ends with the marks of an accuracy:  1``+..  is read as  1``  +  .. ,
\* though  1``  alone is an ERROR_NUMBER.
LacksAccuracy(t) ==
  t.Tok = "REAL" /\ t.Len > 1 /\ SubSeq(TextOf(t), t.Len - 1, t.Len) = <<Backquote, Backquote>>

(* The text of a token, alone in a file, is the same token: no character   *)
(* that the tokenizer gave back had a part in it.  The one token of which  *)
(* this is not so is named above.                                          *)
StandsAlone(t) ==
  \A alone \in {LookBy[t.reader, init(TextOf(t), FALSE, session.opts)]} :
     alone.c.Tok = t.Tok /\ alone.c.Len = t.Len

TokensStandAlone ==
  \A i \in 1..Len(tokens) : tokens[i].Tok \notin EmptyTokens /\ ~LacksAccuracy(tokens[i])
                           => StandsAlone(tokens[i])

\* The bytes without the line continuations and the whitespace behind them.
RECURSIVE Joined(_)
Joined(text) ==
  LET ends == {i \in 1..Len(text) : Continues(text, i)}
      i == CHOOSE j \in ends : \A k \in ends : j =< k
      crlf == text[i] = CR /\ i < Len(text) /\ text[i + 1] = LF
      stop == IF crlf THEN i + 1 ELSE i
      spaces == CHOOSE n \in 0..(Len(text) - stop) :
                  /\ \A k \in 1..n : isWhitespace(text[stop + k])
                  /\ n = Len(text) - stop \/ ~isWhitespace(text[stop + n + 1])
  IN IF ends = {} THEN text
     ELSE SubSeq(text, 1, i - 2) \o Joined(SubSeq(text, stop + spaces + 1, Len(text)))

\* A number with a base, of which the tokenizer counts the bytes.
HasBase(text) ==
  \E i \in 1..Len(text) : text[i] = Code["^"]
                        /\ \E j \in (i + 1)..Len(text) : text[j] = Code["^"]

ReadJoined(t) ==
  LET text == Joined(TextOf(t))
  IN LookBy[t.reader, init(text, FALSE, session.opts)].c

GoesOnInNextLine(t) == \E i \in 1..t.Len : Continues(TextOf(t), i)

(* "All whitespace after a line continuation can be ignored for the        *)
(* purposes of tokenization": a token that goes on in the next line is the *)
(* token that it would be on one line.  Comments and file names have no    *)
(* line continuations; numbers with a base have a property of their own.   *)
ContinuationsAreTransparent ==
  \A i \in 1..Len(tokens) :
     LET t == tokens[i]
     IN (/\ t.reader # "FILE" /\ t.Tok \notin EmptyTokens \union CommentTokens
         /\ GoesOnInNextLine(t) /\ ~HasBase(TextOf(t)))
          => ReadJoined(t).Tok = t.Tok /\ ReadJoined(t).Len = Len(Joined(TextOf(t)))

(* The same of numbers with a base.                                        *)
ContinuedBases ==
  \A i \in 1..Len(tokens) :
     LET t == tokens[i]
     IN (t.Tok \in {"INTEGER", "REAL", "RATIONAL", "ERROR_NUMBER"} /\ GoesOnInNextLine(t))
          => ReadJoined(t).Tok = t.Tok

=============================================================================
