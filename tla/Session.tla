------------------------------- MODULE Session -------------------------------
(***************************************************************************)
(* The part of ParserSession that the decoders and the tokenizer work on:  *)
(* the bytes with the read position, the source location, the issues and   *)
(* the places that need special treatment later.  A function of the        *)
(* library that reads from the session becomes an operator that takes the  *)
(* session s and returns a record [c, s] of what it read and the session   *)
(* as it leaves it.                                                        *)
(***************************************************************************)
EXTENDS Integers, Sequences

Byte == 0..255
Sentinel == 255

\* The bits of NextPolicy.  A policy is the set of its bits.
NextPolicies ==
  SUBSET {"ENABLE_CHARACTER_DECODING_ISSUES", "TRACK_LC", "RETURN_TOPLEVELNEWLINE",
          "STRING_OR_COMMENT", "TAGSLOT_BEHAVIOR_FOR_STRINGS", "INTEGER_SHORT_CIRCUIT",
          "SCAN_FOR_UNRECOGNIZEDLONGNAMES"}

ENABLE_CHARACTER_DECODING_ISSUES == "ENABLE_CHARACTER_DECODING_ISSUES"
TRACK_LC                         == "TRACK_LC"
RETURN_TOPLEVELNEWLINE           == "RETURN_TOPLEVELNEWLINE"
STRING_OR_COMMENT                == "STRING_OR_COMMENT"
TAGSLOT_BEHAVIOR_FOR_STRINGS     == "TAGSLOT_BEHAVIOR_FOR_STRINGS"
INTEGER_SHORT_CIRCUIT            == "INTEGER_SHORT_CIRCUIT"
SCAN_FOR_UNRECOGNIZEDLONGNAMES   == "SCAN_FOR_UNRECOGNIZEDLONGNAMES"

TOPLEVEL == {ENABLE_CHARACTER_DECODING_ISSUES, RETURN_TOPLEVELNEWLINE, TRACK_LC}
INSIDE_SYMBOL == {ENABLE_CHARACTER_DECODING_ISSUES, TRACK_LC}
INSIDE_STRINGIFY_AS_TAG == INSIDE_SYMBOL \union {TAGSLOT_BEHAVIOR_FOR_STRINGS}
INSIDE_STRINGIFY_AS_FILE == {RETURN_TOPLEVELNEWLINE}
INSIDE_SLOT == {TAGSLOT_BEHAVIOR_FOR_STRINGS, INTEGER_SHORT_CIRCUIT, TRACK_LC}
INSIDE_SLOTSEQUENCE == INSIDE_SYMBOL \union {INTEGER_SHORT_CIRCUIT}
INSIDE_OUT == INSIDE_SLOTSEQUENCE

SourceConventions == {"LINECOLUMN", "SOURCECHARACTERINDEX"}
EncodingModes == {"NORMAL", "BOX"}
FirstLineBehaviors == {"NOTSCRIPT", "CHECK", "SCRIPT"}

Options == [srcConvention : SourceConventions,
            tabWidth : Nat \ {0},
            encodingMode : EncodingModes,
            firstLineBehavior : FirstLineBehaviors]

UnsafeFlags == {"OK", "INCOMPLETEUTF8SEQUENCE", "STRAYSURROGATE", "BOM"}

----------------------------------------------------------------------------
(* Source locations and the two source conventions. *)

SourceLocations == [first : Nat, second : Nat]
SourceLocation(first, second) == [first |-> first, second |-> second]

next(loc) == [loc EXCEPT !.second = @ + 1]
previous(loc) == [loc EXCEPT !.second = @ - 1]

\* operator< of SourceLocation
Before(a, b) ==
  \/ a.first < b.first
  \/ a.first = b.first /\ a.second < b.second

newSourceLocation(opts) ==
  IF opts.srcConvention = "LINECOLUMN" THEN SourceLocation(1, 1)
                                       ELSE SourceLocation(0, 1)

increment(s) == [s EXCEPT !.SrcLoc.second = @ + 1]

NextLine(s) == [s EXCEPT !.SrcLoc = SourceLocation(@.first + 1, 1)]

newline(s) ==
  IF s.opts.srcConvention = "LINECOLUMN" THEN NextLine(s) ELSE increment(s)

windowsNewline(s) ==
  IF s.opts.srcConvention = "LINECOLUMN" THEN NextLine(s)
                                         ELSE increment(increment(s))

\* Mutant of tab: a tab at a tab stop has no width.
tab_toNearestStop(s) ==
  IF s.opts.srcConvention = "LINECOLUMN"
  THEN [s EXCEPT !.SrcLoc.second =
          s.opts.tabWidth * ((@ + s.opts.tabWidth - 2) \div s.opts.tabWidth) + 1]
  ELSE increment(s)

tab(s) ==
  LET currentTabStop ==
        s.opts.tabWidth * ((s.SrcLoc.second - 1) \div s.opts.tabWidth) + 1
  IN IF s.opts.srcConvention = "LINECOLUMN"
     THEN [s EXCEPT !.SrcLoc.second = currentTabStop + s.opts.tabWidth]
     ELSE increment(s)

----------------------------------------------------------------------------
(* The session. *)

Severities == {"FORMATTING", "REMARK", "WARNING", "ERROR", "FATAL"}
IssueTags ==
  UnsafeFlags \union
  {"AMBIGUOUS", "NONASCIICHARACTER", "UNDOCUMENTEDSLOTSYNTAX", "UNEXPECTEDCARRIAGERETURN",
   "UNEXPECTEDCHARACTER", "UNEXPECTEDDOT", "UNEXPECTEDIMPLICITTIMES",
   "UNEXPECTEDLETTERLIKECHARACTER", "UNEXPECTEDNEWLINECHARACTER", "UNEXPECTEDSIGN",
   "UNEXPECTEDSPACECHARACTER", "UNHANDLEDCHARACTER", "UNRECOGNIZEDLONGNAME"}

Issues == [Tag : IssueTags, Sev : Severities,
           Src : [Start : SourceLocations, End : SourceLocations]]

Sessions ==
  [bytes : Seq(Byte),
   buffer : Nat,
   opts : Options,
   SrcLoc : SourceLocations,
   unsafeCharacterEncodingFlag : UnsafeFlags,
   fatalIssues : Seq(Issues),
   nonFatalIssues : Seq(Issues),
   SimpleLineContinuations : SUBSET SourceLocations,
   ComplexLineContinuations : SUBSET SourceLocations,
   EmbeddedNewlines : SUBSET SourceLocations,
   EmbeddedTabs : SUBSET SourceLocations]

\* init with the bytes Buf, in which alreadyHasEOFSentinel says whether the
\* caller has put the sentinel behind the source.
init(Buf, alreadyHasEOFSentinel, opts) ==
  [bytes |-> IF alreadyHasEOFSentinel THEN Buf ELSE Append(Buf, Sentinel),
   buffer |-> 0,
   opts |-> opts,
   SrcLoc |-> newSourceLocation(opts),
   unsafeCharacterEncodingFlag |-> "OK",
   fatalIssues |-> <<>>,
   nonFatalIssues |-> <<>>,
   SimpleLineContinuations |-> {},
   ComplexLineContinuations |-> {},
   EmbeddedNewlines |-> {},
   EmbeddedTabs |-> {}]

\* buffer counts the bytes before the read position; end is one past the sentinel.
end(s) == Len(s.bytes)

\* const unsigned char *ByteBuffer: undefined behind the sentinel.
ByteBuffer_currentByte(s) == s.bytes[s.buffer + 1]
ByteBuffer_nextByte(s) == [s EXCEPT !.buffer = @ + 1]

\* Mutant of Reset: the location is forgotten.
Reset_bufferOnly(s, at) == [s EXCEPT !.buffer = at.buffer]

\* Give back what was read since the session was at.
Reset(s, at) == [s EXCEPT !.buffer = at.buffer, !.SrcLoc = at.SrcLoc]

\* A look, from what reading gives: the read position is given back, issues stay.
GivenBack(read, at) == [c |-> read.c, s |-> Reset(read.s, at)]

setUnsafeCharacterEncodingFlag(s, flag) ==
  [s EXCEPT !.unsafeCharacterEncodingFlag = flag]

----------------------------------------------------------------------------
(* Issues. *)

Source(start, stop) == [Start |-> start, End |-> stop]

Issue(Tag, Sev, Src) == [Tag |-> Tag, Sev |-> Sev, Src |-> Src]

\* Mutant of SameIssue: issues are told apart by their tags alone.
SameIssue_tag(I, J) == I.Tag = J.Tag

SameIssue(I, J) == I.Src = J.Src /\ I.Tag = J.Tag

\* "If there are, say, 10 fatal errors, then assume that the 11th is not going to
\* give any new information"
MaxFatalIssues == 10

Known(issues, I) == \E i \in DOMAIN issues : SameIssue(issues[i], I)

\* Mutant of addIssue: no check for duplicates.
addIssue_twice(s, I) ==
  IF I.Sev = "FATAL"
  THEN [s EXCEPT !.fatalIssues = IF Len(@) >= MaxFatalIssues THEN @ ELSE Append(@, I)]
  ELSE [s EXCEPT !.nonFatalIssues = Append(@, I)]

addIssue(s, I) ==
  IF I.Sev = "FATAL"
  THEN [s EXCEPT !.fatalIssues =
          IF Len(@) >= MaxFatalIssues \/ Known(@, I) THEN @ ELSE Append(@, I)]
  ELSE [s EXCEPT !.nonFatalIssues = IF Known(@, I) THEN @ ELSE Append(@, I)]

\* "if there are fatal issues, then only send fatal issues"
CollectedIssues(s) ==
  IF s.fatalIssues # <<>> THEN s.fatalIssues ELSE s.nonFatalIssues

=============================================================================
