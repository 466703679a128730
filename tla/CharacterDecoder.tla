-------------------------- MODULE CharacterDecoder --------------------------
(***************************************************************************)
(* Source characters to WL characters: a backslash and what follows it is  *)
(* one character, if it is an escape.  If it is not, the backslash alone   *)
(* is a character, and reading goes on behind it; by then the decoder has  *)
(* read ahead and has to give all of it back.                              *)
(***************************************************************************)
EXTENDS ByteDecoder

\* As functions: TLC goes through the definition of an operator wherever it is used,
\* and a function is one value.
NextSource[s \in Sessions, policy \in NextPolicies] ==
  ByteDecoder_nextSourceCharacter(s, policy)
CurrentSource[s \in Sessions, policy \in NextPolicies] ==
  ByteDecoder_currentSourceCharacter(s, policy)

Peek(s, policy) == CurrentSource[s, policy]

\* Read n characters that are one printable byte each, so that nothing happens.
Skip(s, n) == [s EXCEPT !.buffer = @ + n, !.SrcLoc.second = @ + n]

AlphaOrDigits == {b \in Byte : isAlphaOrDigit(b)}
HexDigits == {b \in Byte : isHex(b)}
OctalDigits == {b \in Byte : isOctal(b)}

\* The number of bytes of a class that come next; the sentinel is of no class.
RunLength(s, class) ==
  CHOOSE n \in 0..(end(s) - s.buffer - 1) :
     /\ \A i \in 1..n : s.bytes[s.buffer + i] \in class
     /\ s.bytes[s.buffer + n + 1] \notin class

\* The letters and digits of a long name, which begins with a capital.
NameLength(s) ==
  IF isUpper(ByteBuffer_currentByte(s)) THEN RunLength(s, AlphaOrDigits) ELSE 0

Text(s, n) == SubSeq(s.bytes, s.buffer + 1, s.buffer + n)

\* A single backslash.  after is the session that had read just the backslash.
NotAnEscape(s, after) ==
  [c |-> WLCharacter(Code["\\"], "ESCAPE_NONE"), s |-> Reset(s, after)]

Escape(s, point, escape) == [c |-> WLCharacter(point, escape), s |-> s]

\* Mutant of EscapeSource: one character too many.
EscapeSource_oneBefore(after, stop) == Source(previous(previous(after.SrcLoc)), stop)

\* From the backslash to stop.
EscapeSource(after, stop) == Source(previous(after.SrcLoc), stop)

UnhandledCharacter(s, after, stop, policy) ==
  IF ENABLE_CHARACTER_DECODING_ISSUES \in policy
  THEN addIssue(s, Issue("UNHANDLEDCHARACTER", "FATAL", EscapeSource(after, stop)))
  ELSE s

\* No escape after all, with an issue from the backslash to where s is.
UnhandledUpTo(s, after, policy) ==
  NotAnEscape(UnhandledCharacter(s, after, s.SrcLoc, policy), after)

StrangeEscape(s, point, after, policy) ==
  IF isStrange(point) \/ isMBStrange(point)
  THEN UnexpectedCharacter(s, EscapeSource(after, s.SrcLoc),
                           isStrangeWhitespace(point) \/ isMBStrangeWhitespace(point), policy)
  ELSE s

----------------------------------------------------------------------------
(* Long names:  \[Pi]  *)

\* A name that is not in the table, up to the bracket that closes it.
UnrecognizedLongName(s, after, policy) ==
  IF {ENABLE_CHARACTER_DECODING_ISSUES, SCAN_FOR_UNRECOGNIZEDLONGNAMES} \subseteq policy
  THEN addIssue(s, Issue("UNRECOGNIZEDLONGNAME", "ERROR",
                         Source(previous(previous(after.SrcLoc)), next(s.SrcLoc))))
  ELSE UnhandledCharacter(s, after, next(s.SrcLoc), policy)

\* The name in the brackets; last is the look at the character behind it.
LongName(name, last, after, policy) ==
  LET closed == last.c = Code["]"]
      behind == Skip(last.s, 1)                 \* past the closing bracket
      entry == LongNameEntry(name)
  IN CASE ~closed -> UnhandledUpTo(last.s, after, policy)
       [] closed /\ name = <<>> -> UnhandledUpTo(Peek(behind, policy).s, after, policy)
       [] closed /\ name # <<>> /\ ~LongNameFound(name) ->
            NotAnEscape(UnrecognizedLongName(last.s, after, policy), after)
       [] closed /\ name # <<>> /\ LongNameFound(name) ->
            Escape(IF ENABLE_CHARACTER_DECODING_ISSUES \in policy
                   THEN StrangeEscape(behind, entry.point, after, policy)
                   ELSE behind,
                   entry.point,
                   IF entry.class = "Raw" THEN "ESCAPE_RAW" ELSE "ESCAPE_LONGNAME")

\* s has read the bracket that after is before.
CharacterDecoder_handleLongName(s, after, policy) ==
  LET length == NameLength(s)
  IN LongName(Text(s, length), Peek(Skip(s, length), policy), after, policy)

----------------------------------------------------------------------------
(* Numbers:  \.41   \:0041   \|000041   \101  *)

\* A quote or a backslash that was escaped is the one inside of strings.
MetaPoint(point) ==
  CASE point = Code["\""] -> CODEPOINT_STRINGMETA_DOUBLEQUOTE
    [] point = Code["\\"] -> CODEPOINT_STRINGMETA_BACKSLASH
    [] OTHER -> point

NumberIn(base, digits) ==
  LET value[i \in 0..Len(digits)] ==
        IF i = 0 THEN 0 ELSE value[i - 1] * base + toDigit(digits[i])
  IN value[Len(digits)]

\* A number of so many digits in a base that is a power of two.
NumberEscape(after, start, digits, base, run, escape, policy) ==
  LET number == NumberIn(base, Text(start, digits))
      behind == Skip(start, digits)
  IN CASE run < digits ->
            UnhandledUpTo(Peek(Skip(start, run), policy).s, after, policy)
       [] run >= digits /\ number > 1114111 -> NotAnEscape(behind, after)
       [] OTHER ->
            Escape(StrangeEscape(behind, MetaPoint(number), after, policy),
                   MetaPoint(number), escape)

HexEscape(after, digits, escape, policy) ==
  LET start == Skip(after, 1)
  IN NumberEscape(after, start, digits, 16, RunLength(start, HexDigits), escape, policy)

CharacterDecoder_handle2Hex(after, policy) == HexEscape(after, 2, "ESCAPE_2HEX", policy)
CharacterDecoder_handle4Hex(after, policy) == HexEscape(after, 4, "ESCAPE_4HEX", policy)
CharacterDecoder_handle6Hex(after, policy) == HexEscape(after, 6, "ESCAPE_6HEX", policy)
CharacterDecoder_handleOctal(after, policy) ==
  NumberEscape(after, after, 3, 8, RunLength(after, OctalDigits), "ESCAPE_OCTAL", policy)

----------------------------------------------------------------------------
(* Single characters. *)

\* Inside of strings \< and \> are empty, \b and \f are seldom meant.
UnexpectedMeta(after, point) ==
  LET s == Skip(after, 1)
  IN Escape(addIssue(s, Issue("UNEXPECTEDCHARACTER", "REMARK", EscapeSource(after, s.SrcLoc))),
            point, "ESCAPE_SINGLE")

CharacterDecoder_handleStringMetaOpen(after) == UnexpectedMeta(after, CODEPOINT_STRINGMETA_OPEN)
CharacterDecoder_handleStringMetaClose(after) == UnexpectedMeta(after, CODEPOINT_STRINGMETA_CLOSE)

\* What a long name in these brackets would be reported for, if there is one: s is before
\* the opening bracket, and last the look at the character behind the name.
ScannedName(s, inside, last, policy) ==
  IF NameLength(inside) = 0 \/ last.c # Code["]"] THEN last.s
  ELSE CharacterDecoder_handleLongName(Reset(last.s, inside), s,
         policy \union {ENABLE_CHARACTER_DECODING_ISSUES, SCAN_FOR_UNRECOGNIZEDLONGNAMES}).s

Scanned(s, open, policy) ==
  LET inside == Skip(open.s, 1)
  IN IF open.c # Code["["] THEN open.s
     ELSE ScannedName(s, inside, Peek(Skip(inside, NameLength(inside)), policy), policy)

\*  \\[Alpa]  was perhaps meant to be a long name: look ahead and give it back.
CharacterDecoder_handleStringMetaBackslash(after, policy) ==
  LET s == Skip(after, 1)
  IN Escape(Reset(Scanned(s, Peek(s, policy), policy), s),
            CODEPOINT_STRINGMETA_BACKSLASH, "ESCAPE_SINGLE")

\* Where the issue about  \Alpha]  or  \A  ends; last is the look behind the name.
UnhandledEnd(name, last, start) ==
  [s |-> last.s,
   stop |-> IF last.c = Code["]"] /\ LongNameFound(name) THEN next(last.s.SrcLoc) ELSE start.SrcLoc]

\* Anything else behind a backslash; s has read it.
UnhandledEscape(escaped, s, after, policy) ==
  LET length == RunLength(s, AlphaOrDigits)
      report(last) == UnhandledCharacter(last.s, after, last.stop, policy)
  IN CASE escaped = CODEPOINT_ENDOFFILE \/ isMBUnsafeUTF8Sequence(escaped)
            \/ ENABLE_CHARACTER_DECODING_ISSUES \notin policy -> NotAnEscape(s, after)
       [] isUpper(escaped) /\ ENABLE_CHARACTER_DECODING_ISSUES \in policy ->
            NotAnEscape(report(UnhandledEnd(<<escaped>> \o Text(s, length),
                                            Peek(Skip(s, length), policy), s)), after)
       [] OTHER -> UnhandledUpTo(s, after, policy)

CharacterDecoder_handleUnhandledEscape(escaped, after, policy) ==
  UnhandledEscape(escaped.c, NextSource[escaped.s, policy].s, after, policy)

SimpleEscapes ==
  [point \in {Code["n"], Code["r"], Code["t"], Code["\""]} |->
     CASE point = Code["n"] -> CODEPOINT_STRINGMETA_LINEFEED
       [] point = Code["r"] -> CODEPOINT_STRINGMETA_CARRIAGERETURN
       [] point = Code["t"] -> CODEPOINT_STRINGMETA_TAB
       [] point = Code["\""] -> CODEPOINT_STRINGMETA_DOUBLEQUOTE]

\* Mutant of LineContinuations: none for a newline of two bytes.
LineContinuations_noCRLF ==
  [point \in {LF, CR} |-> IF point = LF THEN CODEPOINT_LINECONTINUATION_LINEFEED
                                       ELSE CODEPOINT_LINECONTINUATION_CARRIAGERETURN]

LineContinuations ==
  [point \in {LF, CR, CODEPOINT_CRLF} |->
     CASE point = LF -> CODEPOINT_LINECONTINUATION_LINEFEED
       [] point = CR -> CODEPOINT_LINECONTINUATION_CARRIAGERETURN
       [] point = CODEPOINT_CRLF -> CODEPOINT_LINECONTINUATION_CRLF]

----------------------------------------------------------------------------
(* One WL character. *)

\* What the backslash that after has read belongs to; escaped is the look behind it.
CharacterDecoder_handleEscape(escaped, after, policy) ==
  LET point == escaped.c
  IN CASE point \in DOMAIN LineContinuations ->
            Escape(NextSource[escaped.s, policy].s,
                   LineContinuations[point], "ESCAPE_SINGLE")
       [] point \in DOMAIN SimpleEscapes ->
            Escape(Skip(after, 1), SimpleEscapes[point], "ESCAPE_SINGLE")
       [] point \in DOMAIN LinearSyntax ->
            Escape(Skip(after, 1), LinearSyntax[point], "ESCAPE_SINGLE")
       [] point = Code["<"] -> CharacterDecoder_handleStringMetaOpen(after)
       [] point = Code[">"] -> CharacterDecoder_handleStringMetaClose(after)
       [] point = Code["b"] -> UnexpectedMeta(after, CODEPOINT_STRINGMETA_BACKSPACE)
       [] point = Code["f"] -> UnexpectedMeta(after, CODEPOINT_STRINGMETA_FORMFEED)
       [] point = Code["\\"] -> CharacterDecoder_handleStringMetaBackslash(after, policy)
       [] point = Code["["] -> CharacterDecoder_handleLongName(Skip(after, 1), after, policy)
       [] point = Code["."] -> CharacterDecoder_handle2Hex(after, policy)
       [] point = Code[":"] -> CharacterDecoder_handle4Hex(after, policy)
       [] point = Code["|"] -> CharacterDecoder_handle6Hex(after, policy)
       [] isOctal(point) -> CharacterDecoder_handleOctal(after, policy)
       [] OTHER -> CharacterDecoder_handleUnhandledEscape(escaped, after, policy)

Character(read, policy) ==
  IF read.c # Code["\\"]
  THEN Escape(read.s, read.c, "ESCAPE_NONE")
  ELSE CharacterDecoder_handleEscape(Peek(read.s, policy), read.s, policy)

CharacterDecoder_nextWLCharacter[s \in Sessions, policy \in NextPolicies] ==
  Character(NextSource[s, policy], policy)

=============================================================================
