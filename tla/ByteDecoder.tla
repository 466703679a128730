----------------------------- MODULE ByteDecoder -----------------------------
(***************************************************************************)
(* Bytes to source characters: UTF-8, with every way it can be malformed,  *)
(* and the three kinds of line ends.  A source character is its code       *)
(* point, or one of the negative code points of CodePoint.h.               *)
(***************************************************************************)
EXTENDS Session, Characters

----------------------------------------------------------------------------
(* Warnings. *)

\* Inside strings and comments a strange character is only remarked upon.
UnexpectedCharacter(s, src, strangeWhitespace, policy) ==
  IF STRING_OR_COMMENT \notin policy /\ strangeWhitespace
  THEN s
  ELSE addIssue(s, Issue("UNEXPECTEDCHARACTER",
                         IF STRING_OR_COMMENT \in policy THEN "REMARK" ELSE "WARNING", src))

ByteDecoder_strangeWarning(s, decoded, start, policy) ==
  UnexpectedCharacter(s, Source(start, s.SrcLoc),
                      isStrangeWhitespace(decoded) \/ isMBStrangeWhitespace(decoded), policy)

ByteDecoder_nonASCIIWarning(s, start) ==
  addIssue(s, Issue("NONASCIICHARACTER", "REMARK", Source(start, s.SrcLoc)))

ByteDecoder_validStrange(s, decoded, policy) ==
  [c |-> decoded,
   s |-> ByteDecoder_strangeWarning(increment(s), decoded, s.SrcLoc, policy)]

ByteDecoder_validMB(s, decoded, policy) ==
  [c |-> decoded,
   s |-> CASE isMBStrange(decoded) ->
                ByteDecoder_strangeWarning(increment(s), decoded, s.SrcLoc, policy)
           [] ~isMBStrange(decoded) /\ s.opts.encodingMode = "NORMAL" ->
                ByteDecoder_nonASCIIWarning(increment(s), s.SrcLoc)
           [] OTHER -> increment(s)]

\* Bytes that are no safe character: reported, remembered, and read as one
\* character that says how many bytes it stands for.
Unsafe(s, point, flag) ==
  LET after == increment(s)
  IN [c |-> point,
      s |-> setUnsafeCharacterEncodingFlag(
              addIssue(after, Issue(flag, "FATAL", Source(s.SrcLoc, after.SrcLoc))), flag)]

IncompletePoints ==
  <<CODEPOINT_UNSAFE_1_BYTE_UTF8_SEQUENCE, CODEPOINT_UNSAFE_2_BYTE_UTF8_SEQUENCE,
    CODEPOINT_UNSAFE_3_BYTE_UTF8_SEQUENCE>>

\* ByteDecoder_incomplete1ByteSequence, 2 and 3
ByteDecoder_incompleteSequence(s, n) ==
  Unsafe(s, IncompletePoints[n], "INCOMPLETEUTF8SEQUENCE")

ByteDecoder_straySurrogate(s) ==
  Unsafe(s, CODEPOINT_UNSAFE_3_BYTE_UTF8_SEQUENCE, "STRAYSURROGATE")

ByteDecoder_bom(s) == Unsafe(s, CODEPOINT_UNSAFE_3_BYTE_UTF8_SEQUENCE, "BOM")

----------------------------------------------------------------------------
(* Sequences of two, three and four bytes.  The session has read the first *)
(* byte; a byte that does not continue the sequence is not read.           *)

IsContinuation(b) == b \in 128..191

\* Mutant of IsSecondByte: the first byte is not considered.
IsSecondByte_loose(firstByte, b) == IsContinuation(b)

\* The second byte may say more than that it is one: no overlong sequences, and
\* nothing above U+10FFFF.
IsSecondByte(firstByte, b) ==
  CASE firstByte = 224 -> b \in 160..191                             \* E0
    [] firstByte = 240 -> b \in 144..191                             \* F0
    [] firstByte = 244 -> b \in 128..143                             \* F4
    [] OTHER -> IsContinuation(b)

\* The i-th byte that comes next, and whether it belongs to the sequence.
Following(s, i) == s.bytes[s.buffer + i]
Belongs(s, firstByte, i) ==
  IF i = 1 THEN IsSecondByte(firstByte, Following(s, 1)) ELSE IsContinuation(Following(s, i))

\* Bytes that the first byte asks for, and how many of them are there.
Wanted(firstByte) ==
  IF firstByte \in 194..223 THEN 1 ELSE IF firstByte \in 224..239 THEN 2 ELSE 3
Found(s, firstByte) ==
  IF ~Belongs(s, firstByte, 1) THEN 0
  ELSE IF Wanted(firstByte) = 1 \/ ~Belongs(s, firstByte, 2) THEN 1
  ELSE IF Wanted(firstByte) = 2 \/ ~Belongs(s, firstByte, 3) THEN 2
  ELSE 3

Decoded(s, firstByte) ==
  LET low(i) == Following(s, i) - 128
  IN IF Wanted(firstByte) = 1 THEN (firstByte - 192) * 64 + low(1)
     ELSE IF Wanted(firstByte) = 2 THEN (firstByte - 224) * 4096 + low(1) * 64 + low(2)
     ELSE (firstByte - 240) * 262144 + low(1) * 4096 + low(2) * 64 + low(3)

\* Past n bytes.
ByteBuffer_nextBytes(s, n) == [s EXCEPT !.buffer = @ + n]

\* What a whole sequence decodes to is a character, or unsafe.
ByteDecoder_multiByte(s, firstByte, policy) ==
  LET found == Found(s, firstByte)
      after == ByteBuffer_nextBytes(s, found)
      decoded == Decoded(s, firstByte)
  IN CASE found < Wanted(firstByte) -> ByteDecoder_incompleteSequence(after, found + 1)
       [] found = Wanted(firstByte) /\ isStraySurrogate(decoded) ->
            ByteDecoder_straySurrogate(after)
       [] found = Wanted(firstByte) /\ decoded = CODEPOINT_BOM -> ByteDecoder_bom(after)
       [] OTHER -> ByteDecoder_validMB(after, decoded, policy)

----------------------------------------------------------------------------
(* One source character. *)

CarriageReturn(s, policy) ==
  IF ByteBuffer_currentByte(s) = LF
  THEN [c |-> CODEPOINT_CRLF, s |-> windowsNewline(ByteBuffer_nextByte(s))]
  ELSE LET after == newline(s)
       IN [c |-> CR,
           s |-> IF ENABLE_CHARACTER_DECODING_ISSUES \in policy
                 THEN addIssue(after, Issue("UNEXPECTEDCARRIAGERETURN", "WARNING",
                                            Source(after.SrcLoc, after.SrcLoc)))
                 ELSE after]

\* Mutant of IsSentinel: any byte 255 ends the source.
IsSentinel_anywhere(s) == TRUE

\* The sentinel is also a byte that UTF-8 never has: only its place tells.
IsSentinel(s) == s.buffer = end(s)

ByteDecoder_nextSourceCharacter_uncommon(s0, policy) ==
  LET firstByte == ByteBuffer_currentByte(s0)
      s == ByteBuffer_nextByte(s0)
  IN CASE firstByte = TAB -> [c |-> TAB, s |-> tab(s)]
       [] firstByte = CR -> CarriageReturn(s, policy)
       [] firstByte \in (0..31) \ {TAB, LF, CR} \/ firstByte = 127 ->
            ByteDecoder_validStrange(s, firstByte, policy)
       [] firstByte \in 194..244 -> ByteDecoder_multiByte(s, firstByte, policy)
       [] firstByte = Sentinel /\ IsSentinel(s) ->
            [c |-> CODEPOINT_ENDOFFILE, s |-> s]
       [] OTHER -> ByteDecoder_incompleteSequence(s, 1)

ByteDecoder_nextSourceCharacter(s, policy) ==
  LET firstByte == ByteBuffer_currentByte(s)
  IN CASE IsPrintable(firstByte) ->
            [c |-> firstByte, s |-> increment(ByteBuffer_nextByte(s))]
       [] firstByte = LF -> [c |-> LF, s |-> newline(ByteBuffer_nextByte(s))]
       [] OTHER -> ByteDecoder_nextSourceCharacter_uncommon(s, policy)

ByteDecoder_currentSourceCharacter(s, policy) ==
  GivenBack(ByteDecoder_nextSourceCharacter(s, policy), s)

=============================================================================
