------------------------- MODULE TokenizerCharacters -------------------------
(***************************************************************************)
(* The layer between the character decoder and the tokenizer: line         *)
(* continuations are skipped, so that a token may go on in the next line,  *)
(* and tokens are made of what was read.                                   *)
(*                                                                         *)
(* at is the session as the token began, for tokenStartBuf and             *)
(* tokenStartLoc.                                                          *)
(***************************************************************************)
EXTENDS CharacterDecoder

addSimpleLineContinuation(s, at) ==
  [s EXCEPT !.SimpleLineContinuations = @ \union {at.SrcLoc}]
addComplexLineContinuation(s, at) ==
  [s EXCEPT !.ComplexLineContinuations = @ \union {at.SrcLoc}]
addEmbeddedNewline(s, at) == [s EXCEPT !.EmbeddedNewlines = @ \union {at.SrcLoc}]
addEmbeddedTab(s, at) == [s EXCEPT !.EmbeddedTabs = @ \union {at.SrcLoc}]

\* Mutant of Embedded: tabs are not marked.
Embedded_newlinesOnly(s, at, point) ==
  IF point \in {LF, CR, CODEPOINT_CRLF} THEN addEmbeddedNewline(s, at) ELSE s

\* Where strings and comments cross lines or tab stops.
Embedded(s, at, point) ==
  CASE point \in {LF, CR, CODEPOINT_CRLF} -> addEmbeddedNewline(s, at)
    [] point = TAB -> addEmbeddedTab(s, at)
    [] OTHER -> s

RECURSIVE SkipWhitespace(_, _, _)

\* Go on behind whitespace that was read; give anything else back to s.
PastWhitespace(read, s, at, policy) ==
  IF isWhitespace(read.c.point)
  THEN SkipWhitespace(IF read.c.point = TAB /\ STRING_OR_COMMENT \in policy
                      THEN addEmbeddedTab(read.s, at) ELSE read.s, at, policy)
  ELSE Reset(read.s, s)

SkipWhitespace(s, at, policy) ==
  PastWhitespace(CharacterDecoder_nextWLCharacter[s, policy], s, at, policy)

TrackLineContinuation(s, at, policy) ==
  CASE TRACK_LC \notin policy -> s
    [] TRACK_LC \in policy /\ STRING_OR_COMMENT \in policy -> addComplexLineContinuation(s, at)
    [] OTHER -> addSimpleLineContinuation(s, at)

RECURSIVE Tokenizer_nextWLCharacter(_, _, _)

\* Go on behind line continuations.
Continued(read, at, policy) ==
  IF isMBLineContinuation(read.c.point)
  THEN Tokenizer_nextWLCharacter(
         TrackLineContinuation(SkipWhitespace(read.s, at, policy), at, policy), at, policy)
  ELSE read

Tokenizer_nextWLCharacter(s, at, policy) ==
  Continued(CharacterDecoder_nextWLCharacter[s, policy], at, policy)

\* A look at a character does not track line continuations.
LookPolicy(policy) == policy \ {TRACK_LC}

Tokenizer_currentWLCharacter(s, at, policy) ==
  GivenBack(Tokenizer_nextWLCharacter(s, at, LookPolicy(policy)), s)

----------------------------------------------------------------------------
(* Tokens. *)

\* What was read since the token began.
Token(Tok, at, s) ==
  [c |-> [Tok |-> Tok, Buf |-> at.buffer, Len |-> s.buffer - at.buffer,
          Src |-> Source(at.SrcLoc, s.SrcLoc)],
   s |-> s]

\* Mutant of EmptyToken: it has the characters that were read.
EmptyToken_withCharacters(Tok, at, s) == Token(Tok, at, s)

\* "Invent source": a token with no characters.
EmptyToken(Tok, at, s) ==
  [c |-> [Tok |-> Tok, Buf |-> at.buffer, Len |-> 0, Src |-> Source(at.SrcLoc, at.SrcLoc)],
   s |-> s]

----------------------------------------------------------------------------
(* A token being read: the session, the look ahead, and what stays the     *)
(* same: where it began and the policy.                                    *)

Reading(s, at, policy, point) == [s |-> s, at |-> at, policy |-> policy, point |-> point]

Seen(r, look) == [r EXCEPT !.s = look.s, !.point = look.c.point]
Look(r) == Seen(r, Tokenizer_currentWLCharacter(r.s, r.at, r.policy))

Take(r) == [r EXCEPT !.s = Tokenizer_nextWLCharacter(@, r.at, r.policy).s]

\* Past the character that was looked at, to the one behind it.
Advance(r) == Look(Take(r))

Done(r, Tok) == Token(Tok, r.at, r.s)

\* Give back what was read since mark.
BackTo(r, mark) == [r EXCEPT !.s = Reset(@, mark.s)]

Warn(r, Tag, Sev, Src) == [r EXCEPT !.s = addIssue(@, Issue(Tag, Sev, Src))]

\* Mutant of Tokenizer_backupAndWarn: there is the warning alone.
Tokenizer_backupAndWarn_noReset(r, mark) ==
  Warn(r, "AMBIGUOUS", "FORMATTING", Source(mark.s.SrcLoc, mark.s.SrcLoc))

\* What two readings would both take is left to the first, with a warning.
Tokenizer_backupAndWarn(r, mark) ==
  BackTo(Warn(r, "AMBIGUOUS", "FORMATTING", Source(mark.s.SrcLoc, mark.s.SrcLoc)), mark)

RECURSIVE AdvanceWhile(_, _)
AdvanceWhile(r, points) ==
  IF r.point \in points THEN AdvanceWhile(Advance(r), points) ELSE r

=============================================================================
