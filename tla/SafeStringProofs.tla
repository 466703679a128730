--------------------------- MODULE SafeStringProofs ---------------------------
(***************************************************************************)
(* What the byte decoder does with the bytes of any source, legal UTF-8 or *)
(* not: it reads on to the sentinel and never behind it, each character    *)
(* has a source location of its own, reading again changes nothing, unsafe *)
(* characters and no others are reported as fatal, and what is read is     *)
(* what the bytes encode.                                                  *)
(***************************************************************************)
EXTENDS SafeString, TLAPS

\* Columns begin with 1.
Good(s) == s \in Sessions /\ s.SrcLoc.second > 0

\* t is s with other issues or another flag.
Same(s, t) ==
  /\ Good(t)
  /\ t.bytes = s.bytes
  /\ t.buffer = s.buffer
  /\ t.opts = s.opts
  /\ t.SrcLoc = s.SrcLoc

\* t is s, n bytes and at least one column or line further on.
Further(s, t, n) ==
  /\ Good(t)
  /\ t.bytes = s.bytes
  /\ t.buffer = s.buffer + n
  /\ t.opts = s.opts
  /\ Before(s.SrcLoc, t.SrcLoc)

----------------------------------------------------------------------------
(* Operations on the session. *)

LEMMA IssueType ==
  ASSUME NEW Tag \in IssueTags, NEW Sev \in Severities,
         NEW start \in SourceLocations, NEW stop \in SourceLocations
  PROVE  Issue(Tag, Sev, Source(start, stop)) \in Issues
BY DEF Issue, Source, Issues

LEMMA addIssueSame ==
  ASSUME NEW s, Good(s), NEW I \in Issues
  PROVE  Same(s, addIssue(s, I))
<1>1. /\ s.fatalIssues \in Seq(Issues)
      /\ s.nonFatalIssues \in Seq(Issues)
  BY DEF Good, Sessions
<1>2. ASSUME NEW issues \in Seq(Issues)
      PROVE  /\ Same(s, [s EXCEPT !.fatalIssues = issues])
             /\ Same(s, [s EXCEPT !.nonFatalIssues = issues])
  BY DEF Good, Same, Sessions
<1>3. /\ Append(s.fatalIssues, I) \in Seq(Issues)
      /\ Append(s.nonFatalIssues, I) \in Seq(Issues)
  BY <1>1
<1> DEFINE fatal == IF Len(s.fatalIssues) >= MaxFatalIssues \/ Known(s.fatalIssues, I)
                    THEN s.fatalIssues ELSE Append(s.fatalIssues, I)
           nonFatal == IF Known(s.nonFatalIssues, I)
                       THEN s.nonFatalIssues ELSE Append(s.nonFatalIssues, I)
<1>4. fatal \in Seq(Issues) /\ nonFatal \in Seq(Issues)
  BY <1>1, <1>3
<1>5. addIssue(s, I) = IF I.Sev = "FATAL" THEN [s EXCEPT !.fatalIssues = fatal]
                                         ELSE [s EXCEPT !.nonFatalIssues = nonFatal]
  BY DEF addIssue
<1> HIDE DEF fatal, nonFatal
<1> QED
  BY <1>2, <1>4, <1>5

LEMMA setFlagSame ==
  ASSUME NEW s, Good(s), NEW flag \in UnsafeFlags
  PROVE  Same(s, setUnsafeCharacterEncodingFlag(s, flag))
BY DEF Good, Same, setUnsafeCharacterEncodingFlag, Sessions

LEMMA nextBytesFurther ==
  ASSUME NEW s, Good(s), NEW n \in Nat
  PROVE  LET t == ByteBuffer_nextBytes(s, n)
         IN /\ Good(t)
            /\ t.bytes = s.bytes
            /\ t.buffer = s.buffer + n
            /\ t.opts = s.opts
            /\ t.SrcLoc = s.SrcLoc
<1> DEFINE place == s.buffer + n
           t == [s EXCEPT !.buffer = place]
<1>1. s \in Sessions /\ s.buffer \in Nat
  BY DEF Good, Sessions
<1>2. place \in Nat
  BY <1>1
<1> HIDE DEF place
<1>3. t \in Sessions
  BY <1>1, <1>2 DEF Sessions
<1>4. /\ t.bytes = s.bytes
      /\ t.buffer = place
      /\ t.opts = s.opts
      /\ t.SrcLoc = s.SrcLoc
  BY <1>1 DEF Sessions
<1> QED
  BY <1>3, <1>4 DEF Good, ByteBuffer_nextBytes, place

LEMMA MovedFurther ==
  ASSUME NEW s, Good(s), NEW loc \in SourceLocations, loc.second > 0, Before(s.SrcLoc, loc)
  PROVE  Further(s, [s EXCEPT !.SrcLoc = loc], 0)
<1> DEFINE t == [s EXCEPT !.SrcLoc = loc]
<1>1. s \in Sessions /\ s.buffer \in Nat
  BY DEF Good, Sessions
<1>2. t \in Sessions
  BY <1>1 DEF Sessions
<1>3. /\ t.bytes = s.bytes
      /\ t.buffer = s.buffer
      /\ t.opts = s.opts
      /\ t.SrcLoc = loc
  BY <1>1 DEF Sessions
<1> QED
  BY <1>1, <1>2, <1>3 DEF Good, Further

LEMMA incrementFurther ==
  ASSUME NEW s, Good(s)
  PROVE  Further(s, increment(s), 0)
<1> DEFINE loc == [s.SrcLoc EXCEPT !.second = @ + 1]
<1>1. s.SrcLoc \in SourceLocations /\ s.SrcLoc.second > 0
  BY DEF Good, Sessions
<1>2. loc \in SourceLocations /\ loc.second > 0 /\ Before(s.SrcLoc, loc)
  BY <1>1 DEF SourceLocations, Before
<1>3. increment(s) = [s EXCEPT !.SrcLoc = loc]
  BY DEF increment
<1> QED
  BY <1>2, <1>3, MovedFurther

LEMMA NextLineFurther ==
  ASSUME NEW s, Good(s)
  PROVE  Further(s, NextLine(s), 0)
<1> DEFINE loc == SourceLocation(s.SrcLoc.first + 1, 1)
<1>1. s.SrcLoc \in SourceLocations
  BY DEF Good, Sessions
<1>2. loc \in SourceLocations /\ loc.second > 0 /\ Before(s.SrcLoc, loc)
  BY <1>1 DEF SourceLocations, SourceLocation, Before
<1>3. NextLine(s) = [s EXCEPT !.SrcLoc = loc]
  BY DEF NextLine
<1> QED
  BY <1>2, <1>3, MovedFurther

LEMMA newlineFurther ==
  ASSUME NEW s, Good(s)
  PROVE  Further(s, newline(s), 0)
BY incrementFurther, NextLineFurther DEF newline

LEMMA FurtherTwice ==
  ASSUME NEW s, NEW t, NEW u, Good(s), NEW n \in Nat, Further(s, t, n), Further(t, u, 0)
  PROVE  Further(s, u, n)
<1>1. /\ s.SrcLoc \in SourceLocations /\ t.SrcLoc \in SourceLocations
      /\ u.SrcLoc \in SourceLocations /\ s.buffer \in Nat
  BY DEF Good, Further, Sessions
<1>2. Before(s.SrcLoc, u.SrcLoc)
  BY <1>1 DEF Further, Before, SourceLocations
<1> QED
  BY <1>1, <1>2 DEF Further

LEMMA windowsNewlineFurther ==
  ASSUME NEW s, Good(s)
  PROVE  Further(s, windowsNewline(s), 0)
<1>1. Further(s, increment(s), 0)
  BY incrementFurther
<1>2. Further(increment(s), increment(increment(s)), 0)
  BY <1>1, incrementFurther DEF Further
<1> QED
  BY <1>1, <1>2, FurtherTwice, NextLineFurther DEF windowsNewline

\* The next tab stop is to the right of every column.
LEMMA TabStop ==
  ASSUME NEW w \in Nat \ {0}, NEW column \in Nat \ {0}
  PROVE  /\ w * ((column - 1) \div w) + 1 + w \in Nat
         /\ w * ((column - 1) \div w) + 1 + w > column
OBVIOUS

LEMMA tabFurther ==
  ASSUME NEW s, Good(s)
  PROVE  Further(s, tab(s), 0)
<1> DEFINE w == s.opts.tabWidth
           stop == w * ((s.SrcLoc.second - 1) \div w) + 1 + w
           loc == [s.SrcLoc EXCEPT !.second = stop]
<1>1. s.SrcLoc \in SourceLocations /\ s.SrcLoc.second \in Nat \ {0} /\ w \in Nat \ {0}
  BY DEF Good, Sessions, SourceLocations, Options
<1>2. stop \in Nat /\ stop > s.SrcLoc.second
  BY <1>1, TabStop
<1> HIDE DEF stop, w
<1>3. loc \in SourceLocations /\ loc.second > 0 /\ Before(s.SrcLoc, loc)
  BY <1>1, <1>2 DEF SourceLocations, Before
<1>4. Further(s, [s EXCEPT !.SrcLoc = loc], 0)
  BY <1>3, MovedFurther
<1>5. tab(s) = IF s.opts.srcConvention = "LINECOLUMN" THEN [s EXCEPT !.SrcLoc = loc]
                                                     ELSE increment(s)
  BY DEF tab, stop, w
<1> QED
  BY <1>4, <1>5, incrementFurther

LEMMA FurtherBytes ==
  ASSUME NEW s, Good(s), NEW n \in Nat, NEW t, Further(ByteBuffer_nextBytes(s, n), t, 0)
  PROVE  Further(s, t, n)
<1> DEFINE after == ByteBuffer_nextBytes(s, n)
<1>1. s.buffer \in Nat
  BY DEF Good, Sessions
<1>2. /\ after.bytes = s.bytes
      /\ after.buffer = s.buffer + n
      /\ after.opts = s.opts
      /\ after.SrcLoc = s.SrcLoc
  BY nextBytesFurther
<1>3. Further(after, t, 0)
  OBVIOUS
<1> HIDE DEF after
<1> QED
  BY <1>1, <1>2, <1>3 DEF Further

LEMMA SameFurther ==
  ASSUME NEW s, NEW t, NEW u, NEW n \in Nat, Further(s, t, n), Same(t, u)
  PROVE  Further(s, u, n)
BY DEF Further, Same

LEMMA Locations ==
  ASSUME NEW s, Good(s)
  PROVE  s.SrcLoc \in SourceLocations
BY DEF Good, Sessions

\* An issue that ends where the session is.
LEMMA IssueHere ==
  ASSUME NEW s, Good(s), NEW start \in SourceLocations,
         NEW Tag \in IssueTags, NEW Sev \in Severities
  PROVE  /\ Issue(Tag, Sev, Source(start, s.SrcLoc)) \in Issues
         /\ Same(s, addIssue(s, Issue(Tag, Sev, Source(start, s.SrcLoc))))
<1>1. s.SrcLoc \in SourceLocations
  BY Locations
<1>2. Issue(Tag, Sev, Source(start, s.SrcLoc)) \in Issues
  BY <1>1, IssueType
<1> QED
  BY <1>2, addIssueSame

----------------------------------------------------------------------------
(* Characters that are reported. *)

LEMMA strangeWarningSame ==
  ASSUME NEW s, Good(s), NEW start \in SourceLocations, NEW decoded, NEW policy
  PROVE  Same(s, ByteDecoder_strangeWarning(s, decoded, start, policy))
<1> DEFINE Sev == IF STRING_OR_COMMENT \in policy THEN "REMARK" ELSE "WARNING"
           I == Issue("UNEXPECTEDCHARACTER", Sev, Source(start, s.SrcLoc))
<1>1. Sev \in Severities
  BY DEF Severities
<1> HIDE DEF Sev
<1>2. "UNEXPECTEDCHARACTER" \in IssueTags
  BY DEF IssueTags
<1>3. Same(s, s) /\ Same(s, addIssue(s, I))
  BY <1>1, <1>2, IssueHere DEF Same
<1> QED
  BY <1>3 DEF ByteDecoder_strangeWarning, UnexpectedCharacter, I, Sev

LEMMA nonASCIIWarningSame ==
  ASSUME NEW s, Good(s), NEW start \in SourceLocations
  PROVE  Same(s, ByteDecoder_nonASCIIWarning(s, start))
<1>1. "NONASCIICHARACTER" \in IssueTags /\ "REMARK" \in Severities
  BY DEF Severities, IssueTags
<1> QED
  BY <1>1, IssueHere DEF ByteDecoder_nonASCIIWarning

LEMMA validStrangeFurther ==
  ASSUME NEW s, Good(s), NEW decoded, NEW policy
  PROVE  /\ ByteDecoder_validStrange(s, decoded, policy).c = decoded
         /\ Further(s, ByteDecoder_validStrange(s, decoded, policy).s, 0)
<1>1. Further(s, increment(s), 0)
  BY incrementFurther
<1>2. Same(increment(s), ByteDecoder_strangeWarning(increment(s), decoded, s.SrcLoc, policy))
  BY <1>1, strangeWarningSame, Locations DEF Further
<1> QED
  BY <1>1, <1>2, SameFurther DEF ByteDecoder_validStrange

LEMMA validMBFurther ==
  ASSUME NEW s, Good(s), NEW decoded, NEW policy
  PROVE  /\ ByteDecoder_validMB(s, decoded, policy).c = decoded
         /\ Further(s, ByteDecoder_validMB(s, decoded, policy).s, 0)
<1>1. Further(s, increment(s), 0)
  BY incrementFurther
<1>2. Same(increment(s), ByteDecoder_strangeWarning(increment(s), decoded, s.SrcLoc, policy))
  BY <1>1, strangeWarningSame, Locations DEF Further
<1>3. Same(increment(s), ByteDecoder_nonASCIIWarning(increment(s), s.SrcLoc))
  BY <1>1, nonASCIIWarningSame, Locations DEF Further
<1>4. /\ Further(s, ByteDecoder_strangeWarning(increment(s), decoded, s.SrcLoc, policy), 0)
      /\ Further(s, ByteDecoder_nonASCIIWarning(increment(s), s.SrcLoc), 0)
  BY <1>1, <1>2, <1>3, SameFurther
<1> QED
  BY <1>1, <1>4 DEF ByteDecoder_validMB

LEMMA UnsafeFurther ==
  ASSUME NEW s, Good(s), NEW point, NEW flag \in UnsafeFlags
  PROVE  /\ Unsafe(s, point, flag).c = point
         /\ Further(s, Unsafe(s, point, flag).s, 0)
<1> DEFINE after == increment(s)
           I == Issue(flag, "FATAL", Source(s.SrcLoc, after.SrcLoc))
<1>1. Further(s, after, 0)
  BY incrementFurther
<1>2. Good(after) /\ s.SrcLoc \in SourceLocations
  BY <1>1, Locations DEF Further
<1>3. flag \in IssueTags /\ "FATAL" \in Severities
  BY DEF IssueTags, Severities
<1>6. Same(after, addIssue(after, I))
  BY <1>2, <1>3, IssueHere
<1>4. Same(addIssue(after, I), setUnsafeCharacterEncodingFlag(addIssue(after, I), flag))
  BY <1>6, setFlagSame DEF Same
<1>5. Further(s, setUnsafeCharacterEncodingFlag(addIssue(after, I), flag), 0)
  BY <1>1, <1>6, <1>4, SameFurther
<1> QED
  BY <1>5 DEF Unsafe

----------------------------------------------------------------------------
(* Sequences of bytes. *)

\* The sentinel is behind the read position.
Ahead(s) == Good(s) /\ s.buffer < end(s) /\ s.bytes[end(s)] = Sentinel

LEMMA Buffer ==
  ASSUME NEW s, Good(s)
  PROVE  s.bytes \in Seq(Byte) /\ s.buffer \in Nat /\ end(s) \in Nat
BY DEF Good, Sessions, end

\* The sentinel continues no sequence, so nothing that does is the last byte.
LEMMA BelongsBefore ==
  ASSUME NEW s, Ahead(s), NEW firstByte, NEW i \in 1..3,
         s.buffer + i =< end(s), Belongs(s, firstByte, i)
  PROVE  s.buffer + i < end(s) /\ Following(s, i) \in 128..191
<1> DEFINE b == Following(s, i)
<1>0. IsSecondByte(firstByte, b) => b \in 128..191
  <2> HIDE DEF b
  <2>1. (b \in 160..191 \/ b \in 144..191 \/ b \in 128..143) => b \in 128..191
    OBVIOUS
  <2> QED
    BY <2>1, Zenon DEF IsSecondByte, IsContinuation
<1>1. b \in 128..191
  BY <1>0 DEF Belongs, IsContinuation
<1>2. s.bytes \in Seq(Byte) /\ s.buffer \in Nat /\ end(s) \in Nat
  BY Buffer DEF Ahead
<1>3. s.buffer + i # end(s)
  BY <1>1 DEF Following, Ahead, Sentinel
<1> QED
  BY <1>1, <1>2, <1>3

LEMMA FoundBefore ==
  ASSUME NEW s, Ahead(s), NEW firstByte \in 194..244
  PROVE  /\ Wanted(firstByte) \in 1..3
         /\ Found(s, firstByte) \in 0..Wanted(firstByte)
         /\ s.buffer + Found(s, firstByte) < end(s)
         /\ \A i \in 1..Found(s, firstByte) : Following(s, i) \in 128..191
<1> DEFINE B(i) == Belongs(s, firstByte, i)
           W == Wanted(firstByte)
<1>1. s.buffer \in Nat /\ end(s) \in Nat /\ s.buffer < end(s)
  BY Buffer DEF Ahead
<1>2. W \in 1..3
  BY DEF Wanted
<1>3. B(1) => s.buffer + 1 < end(s) /\ Following(s, 1) \in 128..191
  BY <1>1, BelongsBefore
<1>4. B(1) /\ B(2) => s.buffer + 2 < end(s) /\ Following(s, 2) \in 128..191
  BY <1>1, <1>3, BelongsBefore
<1>5. B(1) /\ B(2) /\ B(3) => s.buffer + 3 < end(s) /\ Following(s, 3) \in 128..191
  BY <1>1, <1>4, BelongsBefore
<1> HIDE DEF B, W
<1>6. Found(s, firstByte) = IF ~B(1) THEN 0 ELSE IF W = 1 \/ ~B(2) THEN 1
                            ELSE IF W = 2 \/ ~B(3) THEN 2 ELSE 3
  BY DEF Found, B, W
<1>7. CASE ~B(1)
  BY <1>1, <1>2, <1>6, <1>7 DEF W
<1>8. CASE B(1) /\ (W = 1 \/ ~B(2))
  <2>1. Found(s, firstByte) = 1
    BY <1>6, <1>8, <1>2
  <2> QED
    BY <2>1, <1>8, <1>1, <1>2, <1>3 DEF W
<1>9. CASE B(1) /\ W > 1 /\ B(2) /\ (W = 2 \/ ~B(3))
  <2>1. Found(s, firstByte) = 2
    BY <1>6, <1>9, <1>2
  <2> QED
    BY <2>1, <1>9, <1>1, <1>2, <1>3, <1>4 DEF W
<1>10. CASE B(1) /\ B(2) /\ B(3) /\ W = 3
  <2>1. Found(s, firstByte) = 3
    BY <1>6, <1>10, <1>2
  <2> QED
    BY <2>1, <1>10, <1>1, <1>2, <1>3, <1>4, <1>5 DEF W
<1> QED
  BY <1>2, <1>7, <1>8, <1>9, <1>10

\* What a whole sequence decodes to is none of the negative code points.
LEMMA DecodedType ==
  ASSUME NEW s, Ahead(s), NEW firstByte \in 194..244,
         Found(s, firstByte) = Wanted(firstByte)
  PROVE  Decoded(s, firstByte) \in Nat
<1> DEFINE low(i) == Following(s, i) - 128
<1>1. \A i \in 1..Wanted(firstByte) : low(i) \in 0..63
  BY FoundBefore
<1>2. CASE firstByte \in 194..223
  <2>1. Wanted(firstByte) = 1
    BY <1>2 DEF Wanted
  <2>2. low(1) \in 0..63
    BY <1>1, <2>1
  <2>3. Decoded(s, firstByte) = (firstByte - 192) * 64 + low(1)
    BY <2>1 DEF Decoded
  <2> HIDE DEF low
  <2> QED
    BY <1>2, <2>2, <2>3
<1>3. CASE firstByte \in 224..239
  <2>1. Wanted(firstByte) = 2
    BY <1>3 DEF Wanted
  <2>2. low(1) \in 0..63 /\ low(2) \in 0..63
    BY <1>1, <2>1
  <2>3. Decoded(s, firstByte) = (firstByte - 224) * 4096 + low(1) * 64 + low(2)
    BY <2>1 DEF Decoded
  <2> HIDE DEF low
  <2> QED
    BY <1>3, <2>2, <2>3, SMTT(30)
<1>4. CASE firstByte \in 240..244
  <2>1. Wanted(firstByte) = 3
    BY <1>4 DEF Wanted
  <2>2. low(1) \in 0..63 /\ low(2) \in 0..63 /\ low(3) \in 0..63
    BY <1>1, <2>1
  <2>3. Decoded(s, firstByte) = (firstByte - 240) * 262144 + low(1) * 4096 + low(2) * 64 + low(3)
    BY <2>1 DEF Decoded
  <2> HIDE DEF low
  <2>4. firstByte - 240 \in Nat /\ low(1) \in Nat /\ low(2) \in Nat /\ low(3) \in Nat
    BY <1>4, <2>2
  <2> QED
    BY <2>3, <2>4, SMT
<1> QED
  BY <1>2, <1>3, <1>4

----------------------------------------------------------------------------
(* One source character. *)

IsCharacter(c) == c \in Int /\ c # CODEPOINT_ENDOFFILE

\* A character was read, and the sentinel is still ahead.
ReadsOn(s, read) ==
  /\ IsCharacter(read.c)
  /\ \E n \in Nat : Further(s, read.s, n) /\ s.buffer + n < end(s)

\* What a read does: the end is where the sentinel was read, and only there.
Reads(s, read) ==
  \/ ReadsOn(s, read)
  \/ /\ read.c = CODEPOINT_ENDOFFILE
     /\ Good(read.s)
     /\ read.s.bytes = s.bytes
     /\ read.s.opts = s.opts
     /\ read.s.buffer = end(s)

LEMMA OneByte ==
  ASSUME NEW s, Ahead(s)
  PROVE  LET t == ByteBuffer_nextByte(s)
         IN /\ Good(t)
            /\ t.bytes = s.bytes
            /\ t.buffer = s.buffer + 1
            /\ t.opts = s.opts
            /\ t.SrcLoc = s.SrcLoc
            /\ end(t) = end(s)
            /\ ByteBuffer_currentByte(s) \in Byte
            /\ ~IsSentinel(t) => Ahead(t)
            /\ ByteBuffer_currentByte(s) # Sentinel => Ahead(t)
<1> DEFINE t == ByteBuffer_nextByte(s)
<1>1. t = ByteBuffer_nextBytes(s, 1)
  BY DEF ByteBuffer_nextByte, ByteBuffer_nextBytes
<1>2. Good(s) /\ s.buffer \in Nat /\ end(s) \in Nat
  BY Buffer DEF Ahead
<1> DEFINE u == ByteBuffer_nextBytes(s, 1)
<1>7. 1 \in Nat
  OBVIOUS
<1>8. /\ Good(u)
      /\ u.bytes = s.bytes
      /\ u.buffer = s.buffer + 1
      /\ u.opts = s.opts
      /\ u.SrcLoc = s.SrcLoc
  BY <1>2, <1>7, nextBytesFurther
<1>3. /\ Good(t)
      /\ t.bytes = s.bytes
      /\ t.buffer = s.buffer + 1
      /\ t.opts = s.opts
      /\ t.SrcLoc = s.SrcLoc
  BY <1>1, <1>8
<1>4. end(t) = end(s)
  BY <1>3 DEF end
<1> HIDE DEF t
<1>5. t.buffer # end(t) => Ahead(t)
  BY <1>2, <1>3, <1>4 DEF Ahead
<1>6. ByteBuffer_currentByte(s) # Sentinel => t.buffer # end(t)
  BY <1>2, <1>3, <1>4 DEF Ahead, ByteBuffer_currentByte
<1>9. ByteBuffer_currentByte(s) \in Byte
  BY <1>2, Buffer DEF Ahead, ByteBuffer_currentByte, end
<1> QED
  BY <1>3, <1>4, <1>5, <1>6, <1>9 DEF t, IsSentinel

\* A character that begins one byte earlier.
LEMMA AfterOneByte ==
  ASSUME NEW s, Ahead(s), NEW read, ReadsOn(ByteBuffer_nextByte(s), read)
  PROVE  ReadsOn(s, read)
<1> DEFINE t == ByteBuffer_nextByte(s)
<1>1. /\ t.bytes = s.bytes
      /\ t.buffer = s.buffer + 1
      /\ t.opts = s.opts
      /\ t.SrcLoc = s.SrcLoc
      /\ end(t) = end(s)
      /\ s.buffer \in Nat
  BY OneByte, Buffer DEF Ahead
<1>2. ReadsOn(t, read)
  OBVIOUS
<1> HIDE DEF t
<1>3. PICK n \in Nat : Further(t, read.s, n) /\ t.buffer + n < end(t)
  BY <1>2 DEF ReadsOn
<1>4. Further(s, read.s, n + 1) /\ s.buffer + (n + 1) < end(s)
  BY <1>1, <1>3 DEF Further
<1>5. n + 1 \in Nat
  OBVIOUS
<1> QED
  BY <1>2, <1>4, <1>5 DEF ReadsOn

\* A character that no more bytes belong to.
LEMMA NoMoreBytes ==
  ASSUME NEW s, Ahead(s), NEW read, Further(s, read.s, 0), IsCharacter(read.c)
  PROVE  ReadsOn(s, read)
<1>1. s.buffer \in Nat /\ s.buffer + 0 < end(s)
  BY Buffer DEF Ahead
<1>2. 0 \in Nat
  OBVIOUS
<1> QED
  BY <1>1, <1>2 DEF ReadsOn

LEMMA incompleteFurther ==
  ASSUME NEW s, Good(s), NEW n \in 1..3
  PROVE  /\ Further(s, ByteDecoder_incompleteSequence(s, n).s, 0)
         /\ IsCharacter(ByteDecoder_incompleteSequence(s, n).c)
<1>1. IsCharacter(IncompletePoints[n])
  BY DEF IsCharacter, IncompletePoints, CODEPOINT_ENDOFFILE, CODEPOINT_UNSAFE_1_BYTE_UTF8_SEQUENCE,
         CODEPOINT_UNSAFE_2_BYTE_UTF8_SEQUENCE, CODEPOINT_UNSAFE_3_BYTE_UTF8_SEQUENCE
<1>2. "INCOMPLETEUTF8SEQUENCE" \in UnsafeFlags
  BY DEF UnsafeFlags
<1> QED
  BY <1>1, <1>2, UnsafeFurther DEF ByteDecoder_incompleteSequence

LEMMA multiByteReads ==
  ASSUME NEW s, Ahead(s), NEW firstByte \in 194..244, NEW policy
  PROVE  ReadsOn(s, ByteDecoder_multiByte(s, firstByte, policy))
<1> DEFINE found == Found(s, firstByte)
           after == ByteBuffer_nextBytes(s, found)
           decoded == Decoded(s, firstByte)
           read == ByteDecoder_multiByte(s, firstByte, policy)
           W == Wanted(firstByte)
<1>1. W \in 1..3 /\ found \in 0..W /\ s.buffer + found < end(s) /\ Good(s)
  BY FoundBefore DEF Ahead
<1>2. found \in Nat
  BY <1>1
<1>3. Good(after)
  BY <1>1, <1>2, nextBytesFurther
<1>4. found = W => decoded \in Nat
  BY DecodedType
<1>5. "STRAYSURROGATE" \in UnsafeFlags /\ "BOM" \in UnsafeFlags
  BY DEF UnsafeFlags
<1> DEFINE incomplete == ByteDecoder_incompleteSequence(after, found + 1)
           surrogate == ByteDecoder_straySurrogate(after)
           bom == ByteDecoder_bom(after)
           valid == ByteDecoder_validMB(after, decoded, policy)
<1>6. read = CASE found < W -> incomplete
               [] found = W /\ isStraySurrogate(decoded) -> surrogate
               [] found = W /\ decoded = CODEPOINT_BOM -> bom
               [] OTHER -> valid
  BY Zenon DEF ByteDecoder_multiByte
<1>7. found < W => found + 1 \in 1..3
  BY <1>1
<1>8. found < W => Further(after, incomplete.s, 0) /\ IsCharacter(incomplete.c)
  BY <1>3, <1>7, incompleteFurther
<1>9. IsCharacter(CODEPOINT_UNSAFE_3_BYTE_UTF8_SEQUENCE)
  BY DEF IsCharacter, CODEPOINT_UNSAFE_3_BYTE_UTF8_SEQUENCE, CODEPOINT_ENDOFFILE
<1>10. /\ Further(after, surrogate.s, 0) /\ IsCharacter(surrogate.c)
       /\ Further(after, bom.s, 0) /\ IsCharacter(bom.c)
  BY <1>3, <1>5, <1>9, UnsafeFurther DEF ByteDecoder_straySurrogate, ByteDecoder_bom
<1>11. Further(after, valid.s, 0) /\ valid.c = decoded
  BY <1>3, validMBFurther
<1>12. found = W => IsCharacter(valid.c)
  BY <1>4, <1>11 DEF IsCharacter, CODEPOINT_ENDOFFILE
<1> HIDE DEF found, after, decoded, W, incomplete, surrogate, bom, valid, read
<1>13. found < W \/ found = W
  BY <1>1
<1>14. ~(found < W /\ found = W)
  BY <1>1
<1>15. Further(after, read.s, 0) /\ IsCharacter(read.c)
  BY <1>6, <1>8, <1>10, <1>11, <1>12, <1>13, <1>14, Zenon
<1>16. Further(s, read.s, found)
  BY <1>1, <1>2, <1>15, FurtherBytes DEF after
<1> QED
  BY <1>1, <1>2, <1>15, <1>16 DEF ReadsOn, read

LEMMA CarriageReturnReads ==
  ASSUME NEW s, Ahead(s), NEW policy
  PROVE  ReadsOn(s, CarriageReturn(s, policy))
<1> DEFINE read == CarriageReturn(s, policy)
<1>1. Good(s) /\ IsCharacter(CODEPOINT_CRLF) /\ IsCharacter(CR)
  BY DEF Ahead, IsCharacter, CODEPOINT_CRLF, CODEPOINT_ENDOFFILE, CR
<1>2. CASE ByteBuffer_currentByte(s) = LF
  <2> DEFINE t == ByteBuffer_nextByte(s)
  <2>1. ByteBuffer_currentByte(s) # Sentinel
    BY <1>2 DEF LF, Sentinel
  <2>2. Ahead(t)
    BY <2>1, OneByte
  <2>3. Further(t, windowsNewline(t), 0)
    BY <2>2, windowsNewlineFurther DEF Ahead
  <2>4. read = [c |-> CODEPOINT_CRLF, s |-> windowsNewline(t)]
    BY <1>2 DEF CarriageReturn
  <2>5. ReadsOn(t, read)
    BY <1>1, <2>2, <2>3, <2>4, NoMoreBytes
  <2> QED
    BY <2>5, AfterOneByte
<1>3. CASE ByteBuffer_currentByte(s) # LF
  <2> DEFINE after == newline(s)
             I == Issue("UNEXPECTEDCARRIAGERETURN", "WARNING",
                        Source(after.SrcLoc, after.SrcLoc))
  <2>1. Further(s, after, 0)
    BY <1>1, newlineFurther
  <2>2. Good(after) /\ after.SrcLoc \in SourceLocations
    BY <2>1, Locations DEF Further
  <2>3. "UNEXPECTEDCARRIAGERETURN" \in IssueTags /\ "WARNING" \in Severities
    BY DEF IssueTags, Severities
  <2>4. Same(after, addIssue(after, I))
    BY <2>2, <2>3, IssueHere
  <2>5. Further(s, addIssue(after, I), 0)
    BY <2>1, <2>4, SameFurther
  <2>6. read.c = CR /\ (read.s = after \/ read.s = addIssue(after, I))
    BY <1>3 DEF CarriageReturn
  <2> QED
    BY <1>1, <2>1, <2>5, <2>6, NoMoreBytes
<1> QED
  BY <1>2, <1>3

\* A byte that has an own line in the decoder's tables.
LEMMA CommonReads ==
  ASSUME NEW s, Ahead(s), NEW policy,
         IsPrintable(ByteBuffer_currentByte(s)) \/ ByteBuffer_currentByte(s) = LF
  PROVE  ReadsOn(s, ByteDecoder_nextSourceCharacter(s, policy))
<1> DEFINE firstByte == ByteBuffer_currentByte(s)
           t == ByteBuffer_nextByte(s)
           read == ByteDecoder_nextSourceCharacter(s, policy)
<1>1. firstByte # Sentinel /\ IsCharacter(firstByte)
  BY OneByte DEF IsPrintable, LF, Sentinel, Byte, IsCharacter, CODEPOINT_ENDOFFILE
<1>2. Ahead(t)
  BY <1>1, OneByte
<1>3. Further(t, increment(t), 0) /\ Further(t, newline(t), 0)
  BY <1>2, incrementFurther, newlineFurther DEF Ahead
<1>4. /\ read.c = firstByte
      /\ read.s = increment(t) \/ read.s = newline(t)
  <2>1. CASE IsPrintable(firstByte)
    <3>1. firstByte # LF
      BY <2>1 DEF IsPrintable, LF
    <3>2. read = [c |-> firstByte, s |-> increment(t)]
      BY <2>1, <3>1, Zenon DEF ByteDecoder_nextSourceCharacter
    <3> QED
      BY <3>2
  <2>2. CASE firstByte = LF
    <3>1. ~IsPrintable(firstByte)
      BY <2>2 DEF IsPrintable, LF
    <3>2. read = [c |-> LF, s |-> newline(t)]
      BY <2>2, <3>1, Zenon DEF ByteDecoder_nextSourceCharacter
    <3> QED
      BY <2>2, <3>2
  <2> QED
    BY <2>1, <2>2
<1>5. ReadsOn(t, read)
  BY <1>1, <1>2, <1>3, <1>4, NoMoreBytes
<1> QED
  BY <1>5, AfterOneByte

LEMMA UncommonReads ==
  ASSUME NEW s, Ahead(s), NEW policy
  PROVE  Reads(s, ByteDecoder_nextSourceCharacter_uncommon(s, policy))
<1> DEFINE firstByte == ByteBuffer_currentByte(s)
           t == ByteBuffer_nextByte(s)
           read == ByteDecoder_nextSourceCharacter_uncommon(s, policy)
           control == firstByte \in (0..31) \ {TAB, LF, CR} \/ firstByte = 127
           begins == firstByte \in 194..244
           ends == firstByte = Sentinel /\ IsSentinel(t)
<1>1. read = CASE firstByte = TAB -> [c |-> TAB, s |-> tab(t)]
               [] firstByte = CR -> CarriageReturn(t, policy)
               [] control -> ByteDecoder_validStrange(t, firstByte, policy)
               [] begins -> ByteDecoder_multiByte(t, firstByte, policy)
               [] ends -> [c |-> CODEPOINT_ENDOFFILE, s |-> t]
               [] OTHER -> ByteDecoder_incompleteSequence(t, 1)
  BY Zenon DEF ByteDecoder_nextSourceCharacter_uncommon
<1>2. /\ firstByte = TAB => firstByte # CR /\ ~control /\ ~begins /\ ~ends
      /\ firstByte = CR => ~control /\ ~begins /\ ~ends
      /\ control => ~begins /\ ~ends
      /\ begins => ~ends
  BY DEF TAB, LF, CR, Sentinel
<1>3. /\ firstByte = TAB => firstByte # Sentinel
      /\ firstByte = CR => firstByte # Sentinel
      /\ control => firstByte # Sentinel /\ IsCharacter(firstByte)
      /\ begins => firstByte # Sentinel
  BY OneByte DEF Byte, IsCharacter, TAB, CR, Sentinel, CODEPOINT_ENDOFFILE
<1>4. ~ends => Ahead(t)
  BY OneByte
<1> HIDE DEF control, begins, ends, firstByte
<1>5. CASE ends
  <2>1. read = [c |-> CODEPOINT_ENDOFFILE, s |-> t]
    BY <1>1, <1>2, <1>5, Zenon
  <2>2. t.buffer = end(s) /\ Good(t) /\ t.bytes = s.bytes /\ t.opts = s.opts
    BY <1>5, OneByte DEF ends, IsSentinel
  <2> QED
    BY <2>1, <2>2 DEF Reads
<1>6. CASE ~ends
  <2> SUFFICES ReadsOn(t, read)
    BY AfterOneByte DEF Reads
  <2>1. Ahead(t) /\ Good(t)
    BY <1>4, <1>6 DEF Ahead
  <2>2. CASE firstByte = TAB
    <3>1. read = [c |-> TAB, s |-> tab(t)]
      BY <1>1, <1>2, <2>2, Zenon
    <3>2. IsCharacter(TAB)
      BY DEF IsCharacter, TAB, CODEPOINT_ENDOFFILE
    <3>3. Further(t, read.s, 0) /\ IsCharacter(read.c)
      BY <2>1, <3>1, <3>2, tabFurther
    <3> QED
      BY <2>1, <3>3, NoMoreBytes
  <2>3. CASE firstByte = CR
    <3>1. read = CarriageReturn(t, policy)
      BY <1>1, <1>2, <2>3, Zenon
    <3> QED
      BY <2>1, <3>1, CarriageReturnReads
  <2>4. CASE control
    <3>1. read = ByteDecoder_validStrange(t, firstByte, policy)
      BY <1>1, <1>2, <2>4, Zenon
    <3>2. Further(t, read.s, 0) /\ read.c = firstByte
      BY <2>1, <3>1, validStrangeFurther
    <3> QED
      BY <1>3, <2>1, <2>4, <3>2, NoMoreBytes
  <2>5. CASE begins
    <3>1. read = ByteDecoder_multiByte(t, firstByte, policy)
      BY <1>1, <1>2, <2>5, Zenon
    <3> QED
      BY <2>1, <2>5, <3>1, multiByteReads DEF begins
  <2>6. CASE firstByte # TAB /\ firstByte # CR /\ ~control /\ ~begins
    <3>1. read = ByteDecoder_incompleteSequence(t, 1)
      BY <1>1, <1>6, <2>6, Zenon
    <3>2. Further(t, read.s, 0) /\ IsCharacter(read.c)
      BY <2>1, <3>1, incompleteFurther
    <3> QED
      BY <2>1, <3>2, NoMoreBytes
  <2> QED
    BY <2>2, <2>3, <2>4, <2>5, <2>6
<1> QED
  BY <1>5, <1>6

\* Whatever the bytes are, a read advances, and stops at the sentinel.
LEMMA NextCharacter ==
  ASSUME NEW s, Ahead(s), NEW policy
  PROVE  Reads(s, ByteDecoder_nextSourceCharacter(s, policy))
<1> DEFINE firstByte == ByteBuffer_currentByte(s)
<1>1. CASE IsPrintable(firstByte) \/ firstByte = LF
  BY <1>1, CommonReads DEF Reads
<1>2. CASE ~IsPrintable(firstByte) /\ firstByte # LF
  <2>1. ByteDecoder_nextSourceCharacter(s, policy)
          = ByteDecoder_nextSourceCharacter_uncommon(s, policy)
    BY <1>2, Zenon DEF ByteDecoder_nextSourceCharacter
  <2> QED
    BY <2>1, UncommonReads
<1> QED
  BY <1>1, <1>2

----------------------------------------------------------------------------
(* The inductive invariant: the session is one that reads on to the end.  *)

CharactersRead ==
  [c : Int, from : Nat, to : Nat, Src : [Start : SourceLocations, End : SourceLocations]]

IInv ==
  /\ Good(session)
  /\ end(session) > 0
  /\ session.bytes[end(session)] = Sentinel
  /\ EndNeverPassed
  /\ chars \in Seq(CharactersRead)
  /\ LocationsIncrease

LEMMA InitAhead ==
  ASSUME NEW Buf \in Sources, NEW opts \in SessionOptions, NEW sentinel \in BOOLEAN
  PROVE  Ahead(init(IF sentinel THEN Append(Buf, Sentinel) ELSE Buf, sentinel, opts))
<1> DEFINE s == init(IF sentinel THEN Append(Buf, Sentinel) ELSE Buf, sentinel, opts)
<1>1. Buf \in Seq(Byte) /\ Sentinel \in Byte /\ opts \in Options
  BY SourcesAssumption, SessionOptionsAssumption DEF Byte, Sentinel
<1>2. s.bytes = Append(Buf, Sentinel) /\ s.buffer = 0 /\ s.SrcLoc = newSourceLocation(opts)
  BY DEF init
<1>3. /\ Append(Buf, Sentinel) \in Seq(Byte)
      /\ Len(Append(Buf, Sentinel)) = Len(Buf) + 1
      /\ Append(Buf, Sentinel)[Len(Buf) + 1] = Sentinel
      /\ Len(Buf) \in Nat
  BY <1>1
<1>4. newSourceLocation(opts) \in SourceLocations /\ newSourceLocation(opts).second = 1
  BY DEF newSourceLocation, SourceLocation, SourceLocations
<1>5. <<>> \in Seq(Issues) /\ {} \in SUBSET SourceLocations /\ "OK" \in UnsafeFlags
  BY DEF UnsafeFlags
<1>6. s \in Sessions
  BY <1>1, <1>2, <1>3, <1>4, <1>5 DEF init, Sessions
<1> HIDE DEF s
<1>7. Ahead(s)
  BY <1>2, <1>3, <1>4, <1>6 DEF Ahead, Good, end
<1> QED
  BY <1>7 DEF s

LEMMA InitIInv == Init => IInv
<1> SUFFICES ASSUME Init PROVE IInv
  OBVIOUS
<1>1. Ahead(session) /\ chars = <<>> /\ result = NoResult
  BY InitAhead DEF Init
<1>2. session.buffer \in Nat /\ end(session) \in Nat
  BY <1>1, Buffer DEF Ahead
<1> QED
  BY <1>1, <1>2 DEF IInv, Ahead, EndNeverPassed, LocationsIncrease

LEMMA StepIInv == IInv /\ [Next]_vars => IInv'
<1> SUFFICES ASSUME IInv, [Next]_vars PROVE IInv'
  OBVIOUS
<1> DEFINE read == ByteDecoder_nextSourceCharacter(session, TOPLEVEL)
<1>1. result = NoResult => Reads(session, read)
  BY NextCharacter DEF IInv, EndNeverPassed, Ahead
<1>2. CASE safeString_read
  <2>1. ReadsOn(session, read) /\ session' = read.s /\ result' = NoResult /\ result = NoResult
    BY <1>1, <1>2 DEF safeString_read, Reads
  <2>2. PICK n \in Nat : Further(session, read.s, n) /\ session.buffer + n < end(session)
    BY <2>1 DEF ReadsOn
  <2> HIDE DEF read
  <2>3. /\ Good(session')
        /\ session'.bytes = session.bytes
        /\ session'.buffer = session.buffer + n
        /\ Before(session.SrcLoc, session'.SrcLoc)
    BY <2>1, <2>2 DEF Further
  <2>4. end(session') = end(session) /\ end(session) \in Nat /\ session.buffer \in Nat
    BY <2>3, Buffer DEF end, IInv
  <2>5. EndNeverPassed'
    BY <2>1, <2>2, <2>3, <2>4 DEF EndNeverPassed
  <2> DEFINE new == [c |-> read.c, from |-> session.buffer, to |-> read.s.buffer,
                     Src |-> Source(session.SrcLoc, read.s.SrcLoc)]
  <2>6. new \in CharactersRead /\ Before(new.Src.Start, new.Src.End)
    <3>1. session.SrcLoc \in SourceLocations /\ read.s.SrcLoc \in SourceLocations
      BY <2>1, <2>3, Locations DEF IInv
    <3>2. read.c \in Int /\ session.buffer \in Nat /\ read.s.buffer \in Nat
      BY <2>1, <2>3, <2>4 DEF ReadsOn, IsCharacter
    <3> QED
      BY <2>1, <2>3, <3>1, <3>2 DEF CharactersRead, Source
  <2>7. chars' = Append(chars, new)
    BY <1>2 DEF safeString_read, read
  <2> HIDE DEF new
  <2>8. chars' \in Seq(CharactersRead) /\ LocationsIncrease'
    BY <2>6, <2>7 DEF IInv, LocationsIncrease
  <2> QED
    BY <2>3, <2>4, <2>5, <2>8 DEF IInv
<1>3. CASE safeString_return
  <2>1. /\ result = NoResult
        /\ read.c = CODEPOINT_ENDOFFILE
        /\ session' = read.s
        /\ result' # NoResult
        /\ chars' = chars
    BY <1>3 DEF safeString_return, NoResult
  <2>2. /\ Good(session')
        /\ session'.bytes = session.bytes
        /\ session'.buffer = end(session)
    BY <1>1, <2>1 DEF Reads, ReadsOn, IsCharacter
  <2>3. end(session') = end(session) /\ end(session) \in Nat
    BY <2>2, Buffer DEF end, IInv
  <2>4. EndNeverPassed'
    BY <2>1, <2>2, <2>3 DEF EndNeverPassed
  <2>5. chars' \in Seq(CharactersRead) /\ LocationsIncrease'
    BY <2>1 DEF LocationsIncrease, IInv
  <2> QED
    BY <2>2, <2>3, <2>4, <2>5 DEF IInv
<1>4. CASE UNCHANGED vars
  BY <1>4 DEF vars, IInv, EndNeverPassed, LocationsIncrease, end
<1> QED
  BY <1>2, <1>3, <1>4 DEF Next, Terminated

LEMMA SpecIInv == Spec => []IInv
  BY InitIInv, StepIInv, PTL DEF Spec

(* The decoder reads no byte behind the sentinel, and takes no other byte  *)
(* for it, whatever bytes the source has.                                  *)
THEOREM EndIsKept == Spec => []EndNeverPassed
<1>1. IInv => EndNeverPassed
  BY DEF IInv
<1> QED
  BY <1>1, SpecIInv, PTL

(* Each character ends, in the order of lines and columns, after it begins, *)
(* for each tab width and both source conventions.                         *)
THEOREM LocationsAreOrdered == Spec => []LocationsIncrease
<1>1. IInv => LocationsIncrease
  BY DEF IInv
<1> QED
  BY <1>1, SpecIInv, PTL

----------------------------------------------------------------------------
(* What a read does depends only on the bytes and on where the session is. *)

\* t is where s is, with whatever issues and flag.
Alike(s, t) ==
  /\ t \in Sessions
  /\ t.bytes = s.bytes
  /\ t.buffer = s.buffer
  /\ t.opts = s.opts
  /\ t.SrcLoc = s.SrcLoc

Moved(s, place, loc) == [s EXCEPT !.buffer = place, !.SrcLoc = loc]

\* An outcome says which character is read, where that ends, and what is reported.
Outcomes ==
  [c : Int, place : Nat, loc : SourceLocations, kind : {"silent", "warned", "unsafe"}, I : Issues]

After(t, o) ==
  LET moved == Moved(t, o.place, o.loc)
  IN CASE o.kind = "silent" -> moved
       [] o.kind = "warned" -> addIssue(moved, o.I)
       [] o.kind = "unsafe" -> setUnsafeCharacterEncodingFlag(addIssue(moved, o.I), o.I.Tag)

\* Unsafe characters, and no others, are reported as fatal, and at their place.
Reported(s, o) ==
  /\ o \in Outcomes
  /\ o.kind = "warned" => o.I.Sev # "FATAL"
  /\ o.kind = "unsafe" => /\ o.I.Sev = "FATAL"
                          /\ o.I.Src = Source(s.SrcLoc, o.loc)
                          /\ o.I.Tag \in UnsafeFlags \ {"OK"}
  /\ o.kind = "unsafe" <=> o.c \in DOMAIN UnsafeLength

\* read is what o says of t.
Gives(t, read, o) == read.c = o.c /\ read.s = After(t, o)

LEMMA MovedType ==
  ASSUME NEW s \in Sessions, NEW place \in Nat, NEW loc \in SourceLocations
  PROVE  LET t == Moved(s, place, loc)
         IN /\ t \in Sessions
            /\ t.bytes = s.bytes
            /\ t.buffer = place
            /\ t.opts = s.opts
            /\ t.SrcLoc = loc
            /\ t.unsafeCharacterEncodingFlag = s.unsafeCharacterEncodingFlag
            /\ t.fatalIssues = s.fatalIssues
            /\ t.nonFatalIssues = s.nonFatalIssues
BY DEF Moved, Sessions

LEMMA MovedTwice ==
  ASSUME NEW s \in Sessions, NEW place \in Nat, NEW loc \in SourceLocations,
         NEW place2 \in Nat, NEW loc2 \in SourceLocations
  PROVE  Moved(Moved(s, place, loc), place2, loc2) = Moved(s, place2, loc2)
BY DEF Moved, Sessions

LEMMA AlikeMoved ==
  ASSUME NEW s \in Sessions, NEW t, Alike(s, t), NEW place \in Nat, NEW loc \in SourceLocations
  PROVE  Alike(Moved(s, place, loc), Moved(t, place, loc))
BY MovedType DEF Alike

LEMMA AlikeItself ==
  ASSUME NEW s \in Sessions
  PROVE  Alike(s, s)
BY DEF Alike

\* What is read from a place further on.
LEMMA GivesAfter ==
  ASSUME NEW t \in Sessions, NEW place \in Nat, NEW loc \in SourceLocations,
         NEW o \in Outcomes, NEW read, Gives(Moved(t, place, loc), read, o)
  PROVE  Gives(t, read, o)
<1>1. o.place \in Nat /\ o.loc \in SourceLocations
  BY DEF Outcomes
<1>2. Moved(Moved(t, place, loc), o.place, o.loc) = Moved(t, o.place, o.loc)
  BY <1>1, MovedTwice
<1> QED
  BY <1>2 DEF Gives, After

LEMMA nextBytesMoved ==
  ASSUME NEW t \in Sessions, NEW n \in Nat
  PROVE  /\ ByteBuffer_nextBytes(t, n) = Moved(t, t.buffer + n, t.SrcLoc)
         /\ t.buffer + n \in Nat /\ t.SrcLoc \in SourceLocations
<1>1. t.buffer \in Nat /\ t.SrcLoc \in SourceLocations
  BY DEF Sessions
<1>2. t.buffer + n \in Nat
  BY <1>1
<1> DEFINE place == t.buffer + n
<1>3. ByteBuffer_nextBytes(t, n) = [t EXCEPT !.buffer = place]
  BY DEF ByteBuffer_nextBytes
<1>4. place \in Nat
  BY <1>2
<1> HIDE DEF place
<1>5. [t EXCEPT !.buffer = place] = Moved(t, place, t.SrcLoc)
  BY <1>1, <1>4 DEF Moved, Sessions
<1> QED
  BY <1>1, <1>3, <1>4, <1>5 DEF place

LEMMA LocationMoved ==
  ASSUME NEW t \in Sessions, NEW loc \in SourceLocations
  PROVE  [t EXCEPT !.SrcLoc = loc] = Moved(t, t.buffer, loc)
BY DEF Moved, Sessions

LEMMA incrementMoved ==
  ASSUME NEW s \in Sessions
  PROVE  \E loc \in SourceLocations :
           /\ increment(s) = Moved(s, s.buffer, loc)
           /\ \A t : Alike(s, t) => increment(t) = Moved(t, t.buffer, loc)
<1> DEFINE loc == [s.SrcLoc EXCEPT !.second = @ + 1]
<1>1. loc \in SourceLocations
  BY DEF Sessions, SourceLocations
<1>2. ASSUME NEW t, Alike(s, t) PROVE increment(t) = Moved(t, t.buffer, loc)
  <2>1. increment(t) = [t EXCEPT !.SrcLoc = loc]
    BY <1>2 DEF increment, Alike
  <2> QED
    BY <1>1, <1>2, <2>1, LocationMoved DEF Alike
<1> QED
  BY <1>1, <1>2, AlikeItself

LEMMA newlineMoved ==
  ASSUME NEW s \in Sessions
  PROVE  \E loc \in SourceLocations :
           \A t : Alike(s, t) => newline(t) = Moved(t, t.buffer, loc)
<1>1. PICK one \in SourceLocations :
        \A t : Alike(s, t) => increment(t) = Moved(t, t.buffer, one)
  BY incrementMoved
<1> DEFINE loc == SourceLocation(s.SrcLoc.first + 1, 1)
<1>2. loc \in SourceLocations
  BY DEF Sessions, SourceLocations, SourceLocation
<1>3. ASSUME NEW t, Alike(s, t) PROVE NextLine(t) = Moved(t, t.buffer, loc)
  <2>1. NextLine(t) = [t EXCEPT !.SrcLoc = loc]
    BY <1>3 DEF NextLine, Alike
  <2> QED
    BY <1>2, <1>3, <2>1, LocationMoved DEF Alike
<1> HIDE DEF loc
<1>4. CASE s.opts.srcConvention = "LINECOLUMN"
  BY <1>2, <1>3, <1>4 DEF newline, Alike
<1>5. CASE s.opts.srcConvention # "LINECOLUMN"
  BY <1>1, <1>5 DEF newline, Alike
<1> QED
  BY <1>4, <1>5

LEMMA windowsNewlineMoved ==
  ASSUME NEW s \in Sessions
  PROVE  \E loc \in SourceLocations :
           \A t : Alike(s, t) => windowsNewline(t) = Moved(t, t.buffer, loc)
<1>1. PICK one \in SourceLocations :
        /\ increment(s) = Moved(s, s.buffer, one)
        /\ \A t : Alike(s, t) => increment(t) = Moved(t, t.buffer, one)
  BY incrementMoved
<1>2. s.buffer \in Nat
  BY DEF Sessions
<1> DEFINE s1 == Moved(s, s.buffer, one)
<1>3. s1 \in Sessions
  BY <1>2, MovedType
<1>4. PICK two \in SourceLocations :
        \A t : Alike(s1, t) => increment(t) = Moved(t, t.buffer, two)
  BY <1>3, incrementMoved
<1>5. ASSUME NEW t, Alike(s, t) PROVE increment(increment(t)) = Moved(t, t.buffer, two)
  <2> DEFINE t1 == Moved(t, t.buffer, one)
  <2>1. t \in Sessions /\ t.buffer = s.buffer /\ t.buffer \in Nat
    BY <1>2, <1>5 DEF Alike
  <2>2. Alike(s1, t1)
    BY <1>2, <1>5, <2>1, AlikeMoved
  <2>3. t1.buffer = t.buffer
    BY <2>1, MovedType
  <2>4. Moved(t1, t.buffer, two) = Moved(t, t.buffer, two)
    BY <2>1, MovedTwice
  <2>5. increment(t) = t1
    BY <1>1, <1>5
  <2> HIDE DEF t1, s1
  <2> QED
    BY <1>4, <2>2, <2>3, <2>4, <2>5
<1> DEFINE loc == SourceLocation(s.SrcLoc.first + 1, 1)
<1>6. loc \in SourceLocations
  BY DEF Sessions, SourceLocations, SourceLocation
<1>7. ASSUME NEW t, Alike(s, t) PROVE NextLine(t) = Moved(t, t.buffer, loc)
  <2>1. NextLine(t) = [t EXCEPT !.SrcLoc = loc]
    BY <1>7 DEF NextLine, Alike
  <2> QED
    BY <1>6, <1>7, <2>1, LocationMoved DEF Alike
<1> HIDE DEF loc
<1>8. CASE s.opts.srcConvention = "LINECOLUMN"
  BY <1>6, <1>7, <1>8 DEF windowsNewline, Alike
<1>9. CASE s.opts.srcConvention # "LINECOLUMN"
  BY <1>5, <1>9 DEF windowsNewline, Alike
<1> QED
  BY <1>8, <1>9

LEMMA tabMoved ==
  ASSUME NEW s, Good(s)
  PROVE  \E loc \in SourceLocations :
           \A t : Alike(s, t) => tab(t) = Moved(t, t.buffer, loc)
<1>1. s \in Sessions
  BY DEF Good
<1>2. PICK one \in SourceLocations :
        \A t : Alike(s, t) => increment(t) = Moved(t, t.buffer, one)
  BY <1>1, incrementMoved
<1> DEFINE w == s.opts.tabWidth
           stop == w * ((s.SrcLoc.second - 1) \div w) + 1 + w
           loc == [s.SrcLoc EXCEPT !.second = stop]
<1>3. s.SrcLoc \in SourceLocations /\ s.SrcLoc.second \in Nat \ {0} /\ w \in Nat \ {0}
  BY DEF Good, Sessions, SourceLocations, Options
<1>4. stop \in Nat
  BY <1>3, TabStop
<1>5. ASSUME NEW t, Alike(s, t), t.opts.srcConvention = "LINECOLUMN"
      PROVE  tab(t) = [t EXCEPT !.SrcLoc = loc]
  BY <1>5 DEF tab, Alike
<1> HIDE DEF stop, w
<1>6. loc \in SourceLocations
  BY <1>3, <1>4 DEF SourceLocations
<1> HIDE DEF loc
<1>7. CASE s.opts.srcConvention = "LINECOLUMN"
  <2>1. ASSUME NEW t, Alike(s, t) PROVE tab(t) = Moved(t, t.buffer, loc)
    BY <1>5, <1>6, <1>7, <2>1, LocationMoved DEF Alike
  <2> QED
    BY <1>6, <2>1
<1>8. CASE s.opts.srcConvention # "LINECOLUMN"
  BY <1>2, <1>8 DEF tab, Alike
<1> QED
  BY <1>7, <1>8

----------------------------------------------------------------------------
(* The outcomes of the handlers.                                           *)

\* F gives o wherever a session is like s.
NoIssue == Issue("NONASCIICHARACTER", "REMARK",
                 Source(SourceLocation(0, 0), SourceLocation(0, 0)))

LEMMA NoIssueType == NoIssue \in Issues
<1>1. SourceLocation(0, 0) \in SourceLocations
  BY DEF SourceLocation, SourceLocations
<1>2. "NONASCIICHARACTER" \in IssueTags /\ "REMARK" \in Severities
  BY DEF IssueTags, Severities
<1> QED
  BY <1>1, <1>2, IssueType DEF NoIssue

\* The code points of the characters that are safe.
Ordinary(c) == c \in Int /\ c \notin DOMAIN UnsafeLength

Outcome(c, place, loc, kind, I) == [c |-> c, place |-> place, loc |-> loc, kind |-> kind, I |-> I]

LEMMA SilentReported ==
  ASSUME NEW s, NEW c, Ordinary(c), NEW place \in Nat, NEW loc \in SourceLocations
  PROVE  LET o == Outcome(c, place, loc, "silent", NoIssue)
         IN /\ Reported(s, o)
            /\ \A t, read : read.c = c /\ read.s = Moved(t, place, loc) => Gives(t, read, o)
<1> DEFINE o == Outcome(c, place, loc, "silent", NoIssue)
<1>1. o.c = c /\ o.place = place /\ o.loc = loc /\ o.kind = "silent" /\ o \in Outcomes
  BY NoIssueType DEF Ordinary, Outcome, Outcomes
<1> HIDE DEF o
<1>2. Reported(s, o)
  BY <1>1 DEF Reported, Ordinary
<1>3. ASSUME NEW t, NEW read, read.c = c, read.s = Moved(t, place, loc) PROVE Gives(t, read, o)
  BY <1>1, <1>3 DEF Gives, After
<1> QED
  BY <1>2, <1>3 DEF o

LEMMA WarnedReported ==
  ASSUME NEW s, NEW c, Ordinary(c), NEW place \in Nat, NEW loc \in SourceLocations,
         NEW I \in Issues, I.Sev # "FATAL"
  PROVE  LET o == Outcome(c, place, loc, "warned", I)
         IN /\ Reported(s, o)
            /\ \A t, read : read.c = c /\ read.s = addIssue(Moved(t, place, loc), I)
                              => Gives(t, read, o)
<1> DEFINE o == Outcome(c, place, loc, "warned", I)
<1>1. /\ o.c = c /\ o.place = place /\ o.loc = loc /\ o.kind = "warned" /\ o.I = I
      /\ o \in Outcomes
  BY DEF Ordinary, Outcome, Outcomes
<1> HIDE DEF o
<1>2. Reported(s, o)
  BY <1>1 DEF Reported, Ordinary
<1>3. ASSUME NEW t, NEW read, read.c = c, read.s = addIssue(Moved(t, place, loc), I)
      PROVE  Gives(t, read, o)
  BY <1>1, <1>3 DEF Gives, After
<1> QED
  BY <1>2, <1>3 DEF o

LEMMA UnsafeReported ==
  ASSUME NEW s \in Sessions, NEW c \in DOMAIN UnsafeLength, NEW flag \in UnsafeFlags \ {"OK"}
  PROVE  \E o : /\ Reported(s, o)
                /\ \A t : Alike(s, t) => Gives(t, Unsafe(t, c, flag), o)
<1>1. PICK loc \in SourceLocations :
        \A t : Alike(s, t) => increment(t) = Moved(t, t.buffer, loc)
  BY incrementMoved
<1> DEFINE I == Issue(flag, "FATAL", Source(s.SrcLoc, loc))
           o == Outcome(c, s.buffer, loc, "unsafe", I)
<1>2. c \in Int
  BY DEF UnsafeLength, CODEPOINT_UNSAFE_1_BYTE_UTF8_SEQUENCE,
         CODEPOINT_UNSAFE_2_BYTE_UTF8_SEQUENCE, CODEPOINT_UNSAFE_3_BYTE_UTF8_SEQUENCE
<1>3. s.buffer \in Nat /\ s.SrcLoc \in SourceLocations
  BY DEF Sessions
<1>4. flag \in IssueTags /\ "FATAL" \in Severities
  BY DEF IssueTags, Severities
<1>5. I \in Issues
  BY <1>3, <1>4, IssueType
<1>6. I.Sev = "FATAL" /\ I.Src = Source(s.SrcLoc, loc) /\ I.Tag = flag
  BY DEF Issue
<1> HIDE DEF I
<1>7. /\ o.c = c /\ o.place = s.buffer /\ o.loc = loc /\ o.kind = "unsafe" /\ o.I = I
      /\ o \in Outcomes
  BY <1>2, <1>3, <1>5 DEF Outcome, Outcomes
<1> HIDE DEF o
<1>8. Reported(s, o)
  BY <1>6, <1>7 DEF Reported
<1>9. ASSUME NEW t, Alike(s, t) PROVE Gives(t, Unsafe(t, c, flag), o)
  <2> DEFINE moved == Moved(t, t.buffer, loc)
  <2>1. t.buffer = s.buffer /\ t.SrcLoc = s.SrcLoc /\ t \in Sessions /\ increment(t) = moved
    BY <1>1, <1>9 DEF Alike
  <2>2. moved.SrcLoc = loc
    BY <1>3, <2>1, MovedType
  <2> HIDE DEF moved
  <2>3. Issue(flag, "FATAL", Source(t.SrcLoc, increment(t).SrcLoc)) = I
    BY <2>1, <2>2 DEF I
  <2>4. /\ Unsafe(t, c, flag).c = c
        /\ Unsafe(t, c, flag).s = setUnsafeCharacterEncodingFlag(addIssue(moved, I), flag)
    BY <2>1, <2>3 DEF Unsafe
  <2>5. moved = Moved(t, o.place, o.loc)
    BY <1>7, <2>1 DEF moved
  <2> QED
    BY <1>6, <1>7, <2>4, <2>5 DEF Gives, After
<1> QED
  BY <1>8, <1>9

LEMMA CharactersAreOrdinary ==
  /\ \A c \in Nat : Ordinary(c)
  /\ Ordinary(CODEPOINT_CRLF) /\ Ordinary(CODEPOINT_ENDOFFILE)
  /\ Ordinary(LF) /\ Ordinary(CR) /\ Ordinary(TAB)
BY DEF Ordinary, UnsafeLength, CODEPOINT_UNSAFE_1_BYTE_UTF8_SEQUENCE,
       CODEPOINT_UNSAFE_2_BYTE_UTF8_SEQUENCE, CODEPOINT_UNSAFE_3_BYTE_UTF8_SEQUENCE,
       CODEPOINT_CRLF, CODEPOINT_ENDOFFILE, LF, CR, TAB

\* A character that may be strange.
LEMMA WarningOutcome ==
  ASSUME NEW s \in Sessions, NEW c, Ordinary(c), NEW policy, NEW strange \in BOOLEAN
  PROVE  \E o : /\ Reported(s, o)
                /\ \A t, read :
                     /\ Alike(s, t)
                     /\ read.c = c
                     /\ read.s = UnexpectedCharacter(increment(t),
                                   Source(t.SrcLoc, increment(t).SrcLoc), strange, policy)
                     => Gives(t, read, o)
<1>1. PICK loc \in SourceLocations :
        \A t : Alike(s, t) => increment(t) = Moved(t, t.buffer, loc)
  BY incrementMoved
<1>2. s.buffer \in Nat /\ s.SrcLoc \in SourceLocations
  BY DEF Sessions
<1> DEFINE Sev == IF STRING_OR_COMMENT \in policy THEN "REMARK" ELSE "WARNING"
           I == Issue("UNEXPECTEDCHARACTER", Sev, Source(s.SrcLoc, loc))
<1>3. Sev \in Severities /\ Sev # "FATAL"
  BY DEF Severities
<1> HIDE DEF Sev
<1>4. "UNEXPECTEDCHARACTER" \in IssueTags
  BY DEF IssueTags
<1>5. I \in Issues /\ I.Sev # "FATAL"
  BY <1>2, <1>3, <1>4, IssueType DEF Issue
<1>6. ASSUME NEW t, Alike(s, t)
      PROVE  /\ t.buffer = s.buffer
             /\ increment(t) = Moved(t, s.buffer, loc)
             /\ Source(t.SrcLoc, increment(t).SrcLoc) = Source(s.SrcLoc, loc)
  <2>1. t \in Sessions /\ t.buffer = s.buffer /\ t.SrcLoc = s.SrcLoc
    BY <1>6 DEF Alike
  <2>2. increment(t) = Moved(t, s.buffer, loc)
    BY <1>1, <1>6, <2>1
  <2>3. increment(t).SrcLoc = loc
    BY <1>2, <2>1, <2>2, MovedType
  <2> QED
    BY <2>1, <2>2, <2>3
<1>7. CASE STRING_OR_COMMENT \notin policy /\ strange
  <2> DEFINE o == Outcome(c, s.buffer, loc, "silent", NoIssue)
  <2>1. Reported(s, o) /\ \A t, read : read.c = c /\ read.s = Moved(t, s.buffer, loc)
                                         => Gives(t, read, o)
    BY <1>2, SilentReported
  <2> HIDE DEF o
  <2>2. ASSUME NEW t, Alike(s, t)
        PROVE  UnexpectedCharacter(increment(t), Source(t.SrcLoc, increment(t).SrcLoc),
                                   strange, policy) = Moved(t, s.buffer, loc)
    BY <1>6, <1>7, <2>2 DEF UnexpectedCharacter
  <2> QED
    BY <2>1, <2>2, Zenon
<1>8. CASE ~(STRING_OR_COMMENT \notin policy /\ strange)
  <2> DEFINE o == Outcome(c, s.buffer, loc, "warned", I)
  <2>1. Reported(s, o) /\ \A t, read : read.c = c /\ read.s = addIssue(Moved(t, s.buffer, loc), I)
                                         => Gives(t, read, o)
    BY <1>2, <1>5, WarnedReported
  <2> HIDE DEF o
  <2>2. ASSUME NEW t, Alike(s, t)
        PROVE  UnexpectedCharacter(increment(t), Source(t.SrcLoc, increment(t).SrcLoc),
                                   strange, policy) = addIssue(Moved(t, s.buffer, loc), I)
    BY <1>6, <1>8, <2>2, Zenon DEF UnexpectedCharacter, I, Sev
  <2> QED
    BY <2>1, <2>2, Zenon
<1> QED
  BY <1>7, <1>8

LEMMA nonASCIIOutcome ==
  ASSUME NEW s \in Sessions, NEW c, Ordinary(c)
  PROVE  \E o : /\ Reported(s, o)
                /\ \A t, read :
                     /\ Alike(s, t)
                     /\ read.c = c
                     /\ read.s = ByteDecoder_nonASCIIWarning(increment(t), t.SrcLoc)
                     => Gives(t, read, o)
<1>1. PICK loc \in SourceLocations :
        \A t : Alike(s, t) => increment(t) = Moved(t, t.buffer, loc)
  BY incrementMoved
<1>2. s.buffer \in Nat /\ s.SrcLoc \in SourceLocations
  BY DEF Sessions
<1> DEFINE I == Issue("NONASCIICHARACTER", "REMARK", Source(s.SrcLoc, loc))
<1>3. "REMARK" \in Severities /\ "NONASCIICHARACTER" \in IssueTags
  BY DEF Severities, IssueTags
<1>4. I \in Issues /\ I.Sev # "FATAL"
  BY <1>2, <1>3, IssueType DEF Issue
<1>5. ASSUME NEW t, Alike(s, t)
      PROVE  ByteDecoder_nonASCIIWarning(increment(t), t.SrcLoc)
               = addIssue(Moved(t, s.buffer, loc), I)
  <2>1. t \in Sessions /\ t.buffer = s.buffer /\ t.SrcLoc = s.SrcLoc
    BY <1>5 DEF Alike
  <2>2. increment(t) = Moved(t, s.buffer, loc)
    BY <1>1, <1>5, <2>1
  <2>3. increment(t).SrcLoc = loc
    BY <1>2, <2>1, <2>2, MovedType
  <2> QED
    BY <2>1, <2>2, <2>3 DEF ByteDecoder_nonASCIIWarning
<1> DEFINE o == Outcome(c, s.buffer, loc, "warned", I)
<1>6. Reported(s, o) /\ \A t, read : read.c = c /\ read.s = addIssue(Moved(t, s.buffer, loc), I)
                                       => Gives(t, read, o)
  BY <1>2, <1>4, WarnedReported
<1> HIDE DEF o
<1> QED
  BY <1>5, <1>6, Zenon

\* A character that is read as c, and leaves the session at loc.
LEMMA SilentOutcome ==
  ASSUME NEW s \in Sessions, NEW c, Ordinary(c), NEW loc \in SourceLocations
  PROVE  \E o : /\ Reported(s, o)
                /\ \A t, read :
                     Alike(s, t) /\ read.c = c /\ read.s = Moved(t, t.buffer, loc)
                       => Gives(t, read, o)
<1>1. s.buffer \in Nat
  BY DEF Sessions
<1> DEFINE o == Outcome(c, s.buffer, loc, "silent", NoIssue)
<1>2. Reported(s, o) /\ \A t, read : read.c = c /\ read.s = Moved(t, s.buffer, loc)
                                       => Gives(t, read, o)
  BY <1>1, SilentReported
<1> HIDE DEF o
<1>3. \A t : Alike(s, t) => t.buffer = s.buffer
  BY DEF Alike
<1> QED
  BY <1>2, <1>3

LEMMA incrementOutcome ==
  ASSUME NEW s \in Sessions, NEW c, Ordinary(c)
  PROVE  \E o : /\ Reported(s, o)
                /\ \A t, read :
                     Alike(s, t) /\ read.c = c /\ read.s = increment(t) => Gives(t, read, o)
<1>1. PICK loc \in SourceLocations :
        \A t : Alike(s, t) => increment(t) = Moved(t, t.buffer, loc)
  BY incrementMoved
<1> QED
  BY <1>1, SilentOutcome

LEMMA validStrangeOutcome ==
  ASSUME NEW s \in Sessions, NEW c, Ordinary(c), NEW policy
  PROVE  \E o : /\ Reported(s, o)
                /\ \A t : Alike(s, t) => Gives(t, ByteDecoder_validStrange(t, c, policy), o)
<1> DEFINE strange == isStrangeWhitespace(c) \/ isMBStrangeWhitespace(c)
<1>1. strange \in BOOLEAN
  OBVIOUS
<1>2. \A t : /\ ByteDecoder_validStrange(t, c, policy).c = c
             /\ ByteDecoder_validStrange(t, c, policy).s
                  = UnexpectedCharacter(increment(t), Source(t.SrcLoc, increment(t).SrcLoc),
                                        strange, policy)
  BY DEF ByteDecoder_validStrange, ByteDecoder_strangeWarning
<1> HIDE DEF strange
<1>3. PICK o : /\ Reported(s, o)
               /\ \A t, read :
                    /\ Alike(s, t)
                    /\ read.c = c
                    /\ read.s = UnexpectedCharacter(increment(t),
                                  Source(t.SrcLoc, increment(t).SrcLoc), strange, policy)
                    => Gives(t, read, o)
  BY <1>1, WarningOutcome, SMTT(30)
<1> QED
  BY <1>2, <1>3, Zenon

LEMMA validMBOutcome ==
  ASSUME NEW s \in Sessions, NEW c, Ordinary(c), NEW policy
  PROVE  \E o : /\ Reported(s, o)
                /\ \A t : Alike(s, t) => Gives(t, ByteDecoder_validMB(t, c, policy), o)
<1> DEFINE read(t) == ByteDecoder_validMB(t, c, policy)
           normal(t) == t.opts.encodingMode = "NORMAL"
<1>1. CASE isMBStrange(c)
  <2>1. \A t : /\ read(t).c = c
               /\ read(t).s = ByteDecoder_strangeWarning(increment(t), c, t.SrcLoc, policy)
    BY <1>1 DEF ByteDecoder_validMB
  <2> DEFINE strange == isStrangeWhitespace(c) \/ isMBStrangeWhitespace(c)
  <2>2. strange \in BOOLEAN
    OBVIOUS
  <2>3. \A t : ByteDecoder_strangeWarning(increment(t), c, t.SrcLoc, policy)
                 = UnexpectedCharacter(increment(t), Source(t.SrcLoc, increment(t).SrcLoc),
                                       strange, policy)
    BY DEF ByteDecoder_strangeWarning
  <2> HIDE DEF strange, read
  <2>4. PICK o : /\ Reported(s, o)
                 /\ \A t, r :
                      /\ Alike(s, t)
                      /\ r.c = c
                      /\ r.s = UnexpectedCharacter(increment(t),
                                 Source(t.SrcLoc, increment(t).SrcLoc), strange, policy)
                      => Gives(t, r, o)
    BY <2>2, WarningOutcome
  <2>5. \A t : Alike(s, t) => Gives(t, read(t), o)
    BY <2>1, <2>3, <2>4, Zenon
  <2> QED
    BY <2>4, <2>5 DEF read
<1>2. CASE ~isMBStrange(c) /\ normal(s)
  <2>1. \A t : Alike(s, t) =>
          /\ read(t).c = c
          /\ read(t).s = ByteDecoder_nonASCIIWarning(increment(t), t.SrcLoc)
    BY <1>2 DEF ByteDecoder_validMB, Alike
  <2> HIDE DEF read
  <2>2. PICK o : /\ Reported(s, o)
                 /\ \A t, r : /\ Alike(s, t)
                              /\ r.c = c
                              /\ r.s = ByteDecoder_nonASCIIWarning(increment(t), t.SrcLoc)
                              => Gives(t, r, o)
    BY nonASCIIOutcome
  <2>3. \A t : Alike(s, t) => Gives(t, read(t), o)
    BY <2>1, <2>2, Zenon
  <2> QED
    BY <2>2, <2>3 DEF read
<1>3. CASE ~isMBStrange(c) /\ ~normal(s)
  <2>1. \A t : Alike(s, t) => read(t).c = c /\ read(t).s = increment(t)
    BY <1>3 DEF ByteDecoder_validMB, Alike
  <2> HIDE DEF read
  <2>2. PICK o : /\ Reported(s, o)
                 /\ \A t, r : Alike(s, t) /\ r.c = c /\ r.s = increment(t) => Gives(t, r, o)
    BY incrementOutcome
  <2>3. \A t : Alike(s, t) => Gives(t, read(t), o)
    BY <2>1, <2>2, Zenon
  <2> QED
    BY <2>2, <2>3 DEF read
<1> QED
  BY <1>1, <1>2, <1>3

LEMMA AlikeBytes ==
  ASSUME NEW s, NEW t, Alike(s, t)
  PROVE  /\ ByteBuffer_currentByte(t) = ByteBuffer_currentByte(s)
         /\ IsSentinel(t) <=> IsSentinel(s)
         /\ \A f : Found(t, f) = Found(s, f) /\ Decoded(t, f) = Decoded(s, f)
<1>1. t.bytes = s.bytes /\ t.buffer = s.buffer
  BY DEF Alike
<1>2. \A i : Following(t, i) = Following(s, i)
  BY <1>1 DEF Following
<1>3. \A f, i : Belongs(t, f, i) = Belongs(s, f, i)
  BY <1>2 DEF Belongs
<1>4. \A f : Found(t, f) = Found(s, f)
  BY <1>3 DEF Found
<1>5. \A f : Decoded(t, f) = Decoded(s, f)
  BY <1>2 DEF Decoded
<1> QED
  BY <1>1, <1>4, <1>5 DEF ByteBuffer_currentByte, IsSentinel, end

\* What is reported of a character whose first bytes have been read before.
LEMMA ReportedAfter ==
  ASSUME NEW s \in Sessions, NEW n \in Nat, NEW o, Reported(ByteBuffer_nextBytes(s, n), o)
  PROVE  Reported(s, o)
<1>1. ByteBuffer_nextBytes(s, n).SrcLoc = s.SrcLoc
  BY nextBytesMoved, MovedType
<1> QED
  BY <1>1 DEF Reported

LEMMA AlikeAfter ==
  ASSUME NEW s \in Sessions, NEW t, Alike(s, t), NEW n \in Nat
  PROVE  /\ ByteBuffer_nextBytes(s, n) \in Sessions
         /\ Alike(ByteBuffer_nextBytes(s, n), ByteBuffer_nextBytes(t, n))
         /\ \A read, o : o \in Outcomes /\ Gives(ByteBuffer_nextBytes(t, n), read, o)
                           => Gives(t, read, o)
<1>1. t \in Sessions /\ t.buffer = s.buffer /\ t.SrcLoc = s.SrcLoc
  BY DEF Alike
<1> DEFINE place == s.buffer + n
<1>2. /\ ByteBuffer_nextBytes(s, n) = Moved(s, place, s.SrcLoc)
      /\ place \in Nat /\ s.SrcLoc \in SourceLocations
  BY nextBytesMoved
<1>3. ByteBuffer_nextBytes(t, n) = Moved(t, place, s.SrcLoc)
  BY <1>1, nextBytesMoved
<1> HIDE DEF place
<1> QED
  BY <1>1, <1>2, <1>3, AlikeMoved, MovedType, GivesAfter

LEMMA multiByteOutcome ==
  ASSUME NEW s, Ahead(s), NEW firstByte \in 194..244, NEW policy
  PROVE  \E o : /\ Reported(s, o)
                /\ \A t : Alike(s, t) => Gives(t, ByteDecoder_multiByte(t, firstByte, policy), o)
<1> DEFINE found == Found(s, firstByte)
           decoded == Decoded(s, firstByte)
           W == Wanted(firstByte)
           after(t) == ByteBuffer_nextBytes(t, found)
           read(t) == ByteDecoder_multiByte(t, firstByte, policy)
<1>1. /\ W \in 1..3 /\ found \in 0..W /\ s \in Sessions
      /\ found \in Nat /\ (found < W => found + 1 \in 1..3) /\ (~(found < W) => found = W)
      /\ ~(found < W /\ found = W)
  BY FoundBefore, SMTT(30) DEF Ahead, Good
<1>2. \A t : Alike(s, t) =>
        read(t) = CASE found < W -> ByteDecoder_incompleteSequence(after(t), found + 1)
                    [] found = W /\ isStraySurrogate(decoded) -> ByteDecoder_straySurrogate(after(t))
                    [] found = W /\ decoded = CODEPOINT_BOM -> ByteDecoder_bom(after(t))
                    [] OTHER -> ByteDecoder_validMB(after(t), decoded, policy)
  <2>1. ASSUME NEW t, NEW f, NEW d, f = Found(t, firstByte), d = Decoded(t, firstByte)
        PROVE  LET u == ByteBuffer_nextBytes(t, f)
               IN read(t) = CASE f < W -> ByteDecoder_incompleteSequence(u, f + 1)
                              [] f = W /\ isStraySurrogate(d) -> ByteDecoder_straySurrogate(u)
                              [] f = W /\ d = CODEPOINT_BOM -> ByteDecoder_bom(u)
                              [] OTHER -> ByteDecoder_validMB(u, d, policy)
    BY <2>1, Zenon DEF ByteDecoder_multiByte
  <2>2. \A t : Alike(s, t) => found = Found(t, firstByte) /\ decoded = Decoded(t, firstByte)
    BY AlikeBytes
  <2> HIDE DEF found, decoded, W, read
  <2> QED
    BY <2>1, <2>2, Zenon
<1>3. \A t : Alike(s, t) => /\ Alike(after(s), after(t))
                            /\ \A r, o : o \in Outcomes /\ Gives(after(t), r, o) => Gives(t, r, o)
  BY <1>1, AlikeAfter
<1>4. after(s) \in Sessions
  BY <1>1, AlikeAfter, AlikeItself
<1>5. \A o : Reported(after(s), o) => Reported(s, o) /\ o \in Outcomes
  BY <1>1, ReportedAfter DEF Reported
<1>6. found = W => decoded \in Nat /\ Ordinary(decoded)
  BY DecodedType, CharactersAreOrdinary
<1> HIDE DEF found, W, decoded, read, after
<1>7. CASE found < W
  <2>1. /\ IncompletePoints[found + 1] \in DOMAIN UnsafeLength
        /\ "INCOMPLETEUTF8SEQUENCE" \in UnsafeFlags \ {"OK"}
    BY <1>1, <1>7 DEF IncompletePoints, UnsafeLength, UnsafeFlags
  <2>2. PICK o : /\ Reported(after(s), o)
                 /\ \A t : Alike(after(s), t) =>
                      Gives(t, Unsafe(t, IncompletePoints[found + 1], "INCOMPLETEUTF8SEQUENCE"), o)
    BY <1>4, <2>1, UnsafeReported
  <2>3. ASSUME NEW t, Alike(s, t) PROVE Gives(t, read(t), o)
    <3>1. read(t) = ByteDecoder_incompleteSequence(after(t), found + 1)
      BY <1>1, <1>2, <1>7, <2>3, Zenon
    <3> QED
      BY <1>3, <1>5, <2>2, <2>3, <3>1, ZenonT(30) DEF ByteDecoder_incompleteSequence
  <2> QED
    BY <1>5, <2>2, <2>3 DEF read
<1> DEFINE P == CODEPOINT_UNSAFE_3_BYTE_UTF8_SEQUENCE
<1>8. P \in DOMAIN UnsafeLength /\ {"STRAYSURROGATE", "BOM"} \subseteq UnsafeFlags \ {"OK"}
  BY DEF UnsafeLength, UnsafeFlags
<1>12. isStraySurrogate(decoded) => decoded # CODEPOINT_BOM
  BY DEF isStraySurrogate, CODEPOINT_BOM
<1>9. CASE found = W /\ isStraySurrogate(decoded)
  <2>1. PICK o : /\ Reported(after(s), o)
                 /\ \A t : Alike(after(s), t) => Gives(t, Unsafe(t, P, "STRAYSURROGATE"), o)
    BY <1>4, <1>8, UnsafeReported
  <2>2. ASSUME NEW t, Alike(s, t) PROVE Gives(t, read(t), o)
    <3>1. read(t) = ByteDecoder_straySurrogate(after(t))
      BY <1>1, <1>2, <1>9, <1>12, <2>2, Zenon
    <3> QED
      BY <1>3, <1>5, <2>1, <2>2, <3>1, ZenonT(30) DEF ByteDecoder_straySurrogate
  <2> QED
    BY <1>5, <2>1, <2>2 DEF read
<1>10. CASE found = W /\ ~isStraySurrogate(decoded) /\ decoded = CODEPOINT_BOM
  <2>1. PICK o : /\ Reported(after(s), o)
                 /\ \A t : Alike(after(s), t) => Gives(t, Unsafe(t, P, "BOM"), o)
    BY <1>4, <1>8, UnsafeReported
  <2>2. ASSUME NEW t, Alike(s, t) PROVE Gives(t, read(t), o)
    <3>1. read(t) = ByteDecoder_bom(after(t))
      BY <1>1, <1>2, <1>10, <2>2, Zenon
    <3> QED
      BY <1>3, <1>5, <2>1, <2>2, <3>1, ZenonT(30) DEF ByteDecoder_bom
  <2> QED
    BY <1>5, <2>1, <2>2 DEF read
<1>11. CASE found = W /\ ~isStraySurrogate(decoded) /\ decoded # CODEPOINT_BOM
  <2>1. PICK o : /\ Reported(after(s), o)
                 /\ \A t : Alike(after(s), t) => Gives(t, ByteDecoder_validMB(t, decoded, policy), o)
    BY <1>4, <1>6, <1>11, validMBOutcome
  <2>2. ASSUME NEW t, Alike(s, t) PROVE Gives(t, read(t), o)
    <3>1. read(t) = ByteDecoder_validMB(after(t), decoded, policy)
      BY <1>1, <1>2, <1>11, <2>2, Zenon
    <3> QED
      BY <1>3, <1>5, <2>1, <2>2, <3>1, ZenonT(30)
  <2> QED
    BY <1>5, <2>1, <2>2 DEF read
<1> QED
  BY <1>1, <1>7, <1>9, <1>10, <1>11, Zenon DEF read

LEMMA CarriageReturnOutcome ==
  ASSUME NEW s, Ahead(s), NEW policy
  PROVE  \E o : /\ Reported(s, o)
                /\ \A t : Alike(s, t) => Gives(t, CarriageReturn(t, policy), o)
<1>1. s \in Sessions /\ s.buffer \in Nat
  BY DEF Ahead, Good, Sessions
<1>2. \A t : Alike(s, t) => ByteBuffer_currentByte(t) = ByteBuffer_currentByte(s)
  BY AlikeBytes
<1>3. \A t : ByteBuffer_nextByte(t) = ByteBuffer_nextBytes(t, 1)
  BY DEF ByteBuffer_nextByte, ByteBuffer_nextBytes
<1>4. CASE ByteBuffer_currentByte(s) = LF
  <2> DEFINE s1 == ByteBuffer_nextBytes(s, 1)
  <2>1. s1 \in Sessions
    BY <1>1, AlikeAfter, AlikeItself
  <2>2. PICK loc \in SourceLocations :
          \A t : Alike(s1, t) => windowsNewline(t) = Moved(t, t.buffer, loc)
    BY <2>1, windowsNewlineMoved
  <2>3. PICK o : /\ Reported(s1, o)
                 /\ \A t, r : Alike(s1, t) /\ r.c = CODEPOINT_CRLF /\ r.s = Moved(t, t.buffer, loc)
                                => Gives(t, r, o)
    BY <2>1, SilentOutcome, CharactersAreOrdinary
  <2>4. Reported(s, o) /\ o \in Outcomes
    BY <1>1, <2>3, ReportedAfter DEF Reported
  <2>5. ASSUME NEW t, Alike(s, t) PROVE Gives(t, CarriageReturn(t, policy), o)
    <3> DEFINE t1 == ByteBuffer_nextBytes(t, 1)
               read == CarriageReturn(t, policy)
    <3>1. Alike(s1, t1) /\ (Gives(t1, read, o) => Gives(t, read, o))
      BY <1>1, <2>4, <2>5, AlikeAfter
    <3>2. read.c = CODEPOINT_CRLF /\ read.s = windowsNewline(t1)
      BY <1>2, <1>3, <1>4, <2>5 DEF CarriageReturn
    <3> HIDE DEF t1, read, s1
    <3>3. Gives(t1, read, o)
      BY <2>2, <2>3, <3>1, <3>2
    <3> QED
      BY <3>1, <3>3 DEF read
  <2> QED
    BY <2>4, <2>5
<1>5. CASE ByteBuffer_currentByte(s) # LF
  <2>1. PICK loc \in SourceLocations :
          \A t : Alike(s, t) => newline(t) = Moved(t, t.buffer, loc)
    BY <1>1, newlineMoved
  <2>2. ASSUME NEW t, Alike(s, t)
        PROVE  newline(t) = Moved(t, s.buffer, loc) /\ newline(t).SrcLoc = loc
    <3>1. t \in Sessions /\ t.buffer = s.buffer
      BY <2>2 DEF Alike
    <3> QED
      BY <1>1, <2>1, <2>2, <3>1, MovedType
  <2>3. CASE ENABLE_CHARACTER_DECODING_ISSUES \in policy
    <3> DEFINE I == Issue("UNEXPECTEDCARRIAGERETURN", "WARNING", Source(loc, loc))
    <3>1. "UNEXPECTEDCARRIAGERETURN" \in IssueTags /\ "WARNING" \in Severities
      BY DEF IssueTags, Severities
    <3>2. I \in Issues /\ I.Sev # "FATAL"
      BY <3>1, IssueType DEF Issue
    <3>3. \A t : Alike(s, t) =>
            /\ CarriageReturn(t, policy).c = CR
            /\ CarriageReturn(t, policy).s = addIssue(Moved(t, s.buffer, loc), I)
      BY <1>2, <1>5, <2>2, <2>3 DEF CarriageReturn
    <3> DEFINE o == Outcome(CR, s.buffer, loc, "warned", I)
    <3>4. Reported(s, o) /\ \A t, read : read.c = CR /\ read.s = addIssue(Moved(t, s.buffer, loc), I)
                                           => Gives(t, read, o)
      BY <1>1, <3>2, WarnedReported, CharactersAreOrdinary
    <3> HIDE DEF o, I
    <3> QED
      BY <3>3, <3>4, Zenon
  <2>4. CASE ENABLE_CHARACTER_DECODING_ISSUES \notin policy
    <3>1. \A t : Alike(s, t) =>
            /\ CarriageReturn(t, policy).c = CR
            /\ CarriageReturn(t, policy).s = Moved(t, s.buffer, loc)
      BY <1>2, <1>5, <2>2, <2>4 DEF CarriageReturn
    <3> DEFINE o == Outcome(CR, s.buffer, loc, "silent", NoIssue)
    <3>2. Reported(s, o) /\ \A t, read : read.c = CR /\ read.s = Moved(t, s.buffer, loc)
                                           => Gives(t, read, o)
      BY <1>1, SilentReported, CharactersAreOrdinary
    <3> HIDE DEF o
    <3> QED
      BY <3>1, <3>2, Zenon
  <2> QED
    BY <2>3, <2>4
<1> QED
  BY <1>4, <1>5

\* Every read has an outcome, the same wherever a session is like s.
LEMMA NextOutcome ==
  ASSUME NEW s, Ahead(s), NEW policy
  PROVE  \E o : /\ Reported(s, o)
                /\ \A t : Alike(s, t) =>
                     Gives(t, ByteDecoder_nextSourceCharacter(t, policy), o)
<1> DEFINE b == ByteBuffer_currentByte(s)
           s1 == ByteBuffer_nextByte(s)
           read(t) == ByteDecoder_nextSourceCharacter(t, policy)
           one(t) == ByteBuffer_nextByte(t)
           control == b \in (0..31) \ {TAB, LF, CR} \/ b = 127
           begins == b \in 194..244
           ends == b = Sentinel /\ IsSentinel(s1)
<1> SUFFICES \E o : Reported(s, o) /\ \A t : Alike(s, t) => Gives(t, read(t), o)
  OBVIOUS
<1>1. s \in Sessions /\ b \in Byte /\ Ordinary(b)
  BY OneByte, CharactersAreOrdinary DEF Ahead, Good, Byte
<1>2. \A t : ByteBuffer_nextByte(t) = ByteBuffer_nextBytes(t, 1)
  BY DEF ByteBuffer_nextByte, ByteBuffer_nextBytes
<1>3. s1 \in Sessions /\ Good(s1) /\ (~ends => Ahead(s1))
  BY OneByte DEF Good
<1>4. \A t : Alike(s, t) =>
        /\ ByteBuffer_currentByte(t) = b
        /\ Alike(s1, one(t))
        /\ \A r, o : o \in Outcomes /\ Gives(one(t), r, o) => Gives(t, r, o)
  BY <1>1, <1>2, AlikeBytes, AlikeAfter
<1>5. \A o : Reported(s1, o) => Reported(s, o) /\ o \in Outcomes
  BY <1>1, <1>2, ReportedAfter DEF Reported
<1>6. ASSUME NEW o, Reported(s1, o), \A t : Alike(s, t) => Gives(one(t), read(t), o)
      PROVE  \E oo : Reported(s, oo) /\ \A t : Alike(s, t) => Gives(t, read(t), oo)
  BY <1>4, <1>5, <1>6, Zenon
<1>7. \A t : read(t) = CASE IsPrintable(ByteBuffer_currentByte(t)) ->
                              [c |-> ByteBuffer_currentByte(t), s |-> increment(one(t))]
                         [] ByteBuffer_currentByte(t) = LF -> [c |-> LF, s |-> newline(one(t))]
                         [] OTHER -> ByteDecoder_nextSourceCharacter_uncommon(t, policy)
  BY Zenon DEF ByteDecoder_nextSourceCharacter
<1>8. \A t : ByteDecoder_nextSourceCharacter_uncommon(t, policy) =
               LET f == ByteBuffer_currentByte(t)
               IN CASE f = TAB -> [c |-> TAB, s |-> tab(one(t))]
                    [] f = CR -> CarriageReturn(one(t), policy)
                    [] f \in (0..31) \ {TAB, LF, CR} \/ f = 127 ->
                         ByteDecoder_validStrange(one(t), f, policy)
                    [] f \in 194..244 -> ByteDecoder_multiByte(one(t), f, policy)
                    [] f = Sentinel /\ IsSentinel(one(t)) ->
                         [c |-> CODEPOINT_ENDOFFILE, s |-> one(t)]
                    [] OTHER -> ByteDecoder_incompleteSequence(one(t), 1)
  BY Zenon DEF ByteDecoder_nextSourceCharacter_uncommon
<1>9. \A t : Alike(s1, t) => (IsSentinel(t) <=> IsSentinel(s1))
  BY AlikeBytes
<1>10. ASSUME NEW t, Alike(s, t)
       PROVE  read(t) = CASE IsPrintable(b) -> [c |-> b, s |-> increment(one(t))]
                          [] b = LF -> [c |-> LF, s |-> newline(one(t))]
                          [] OTHER -> ByteDecoder_nextSourceCharacter_uncommon(t, policy)
  <2> HIDE DEF read, b, one
  <2> QED
    BY <1>4, <1>7, <1>10, Zenon
<1>11. ASSUME NEW t, Alike(s, t)
       PROVE  ByteDecoder_nextSourceCharacter_uncommon(t, policy) =
                CASE b = TAB -> [c |-> TAB, s |-> tab(one(t))]
                  [] b = CR -> CarriageReturn(one(t), policy)
                  [] control -> ByteDecoder_validStrange(one(t), b, policy)
                  [] begins -> ByteDecoder_multiByte(one(t), b, policy)
                  [] ends -> [c |-> CODEPOINT_ENDOFFILE, s |-> one(t)]
                  [] OTHER -> ByteDecoder_incompleteSequence(one(t), 1)
  <2>1. IsSentinel(one(t)) <=> IsSentinel(s1)
    BY <1>4, <1>9, <1>11
  <2>2. ByteBuffer_currentByte(t) = b
    BY <1>4, <1>11
  <2> DEFINE ended == IsSentinel(one(t))
  <2>3. ByteDecoder_nextSourceCharacter_uncommon(t, policy) =
          CASE b = TAB -> [c |-> TAB, s |-> tab(one(t))]
            [] b = CR -> CarriageReturn(one(t), policy)
            [] b \in (0..31) \ {TAB, LF, CR} \/ b = 127 ->
                 ByteDecoder_validStrange(one(t), b, policy)
            [] b \in 194..244 -> ByteDecoder_multiByte(one(t), b, policy)
            [] b = Sentinel /\ ended -> [c |-> CODEPOINT_ENDOFFILE, s |-> one(t)]
            [] OTHER -> ByteDecoder_incompleteSequence(one(t), 1)
    <3> HIDE DEF b, one
    <3> QED
      BY <1>8, <2>2
  <2>4. (b = Sentinel /\ ended) <=> ends
    BY <2>1
  <2> HIDE DEF read, b, one, s1, ended, ends
  <2> QED
    BY <2>3, <2>4 DEF control, begins
<1>12. /\ b = TAB => b # CR /\ ~control /\ ~begins /\ ~ends
       /\ b = CR => ~control /\ ~begins /\ ~ends
       /\ control => ~begins /\ ~ends
       /\ begins => ~ends
       /\ b = LF => ~IsPrintable(b)
  BY DEF TAB, LF, CR, Sentinel, IsPrintable
<1> HIDE DEF control, begins, ends, read, b, one
<1>13. CASE IsPrintable(b)
  <2>1. PICK o : /\ Reported(s1, o)
                 /\ \A t, r : Alike(s1, t) /\ r.c = b /\ r.s = increment(t) => Gives(t, r, o)
    BY <1>1, <1>3, incrementOutcome
  <2>2. ASSUME NEW t, Alike(s, t) PROVE Gives(one(t), read(t), o)
    <3>1. read(t) = [c |-> b, s |-> increment(one(t))]
      BY <1>10, <1>12, <1>13, <2>2, Zenon
    <3>2. read(t).c = b /\ read(t).s = increment(one(t))
      BY <3>1
    <3> QED
      BY <1>4, <2>1, <2>2, <3>2, Zenon
  <2> QED
    BY <1>6, <2>1, <2>2, Zenon
<1>14. CASE b = LF
  <2>1. PICK loc \in SourceLocations :
          \A t : Alike(s1, t) => newline(t) = Moved(t, t.buffer, loc)
    BY <1>3, newlineMoved
  <2>2. PICK o : /\ Reported(s1, o)
                 /\ \A t, r : Alike(s1, t) /\ r.c = LF /\ r.s = Moved(t, t.buffer, loc)
                                => Gives(t, r, o)
    BY <1>3, SilentOutcome, CharactersAreOrdinary
  <2>3. ASSUME NEW t, Alike(s, t) PROVE Gives(one(t), read(t), o)
    <3>1. read(t) = [c |-> LF, s |-> newline(one(t))]
      BY <1>10, <1>12, <1>14, <2>3, Zenon
    <3>2. read(t).c = LF /\ read(t).s = newline(one(t))
      BY <3>1
    <3> QED
      BY <1>4, <2>1, <2>2, <2>3, <3>2, Zenon
  <2> QED
    BY <1>6, <2>2, <2>3, Zenon
<1>15. CASE ~IsPrintable(b) /\ b # LF
  <2>1. \A t : Alike(s, t) => read(t) = ByteDecoder_nextSourceCharacter_uncommon(t, policy)
    BY <1>10, <1>15, Zenon
  <2>2. CASE b = TAB
    <3>1. PICK loc \in SourceLocations :
            \A t : Alike(s1, t) => tab(t) = Moved(t, t.buffer, loc)
      BY <1>3, tabMoved
    <3>2. PICK o : /\ Reported(s1, o)
                   /\ \A t, r : Alike(s1, t) /\ r.c = TAB /\ r.s = Moved(t, t.buffer, loc)
                                  => Gives(t, r, o)
      BY <1>3, SilentOutcome, CharactersAreOrdinary
    <3>3. ASSUME NEW t, Alike(s, t) PROVE Gives(one(t), read(t), o)
      <4>1. read(t) = [c |-> TAB, s |-> tab(one(t))]
        BY <1>11, <1>12, <2>1, <2>2, <3>3, Zenon
      <4>2. read(t).c = TAB /\ read(t).s = tab(one(t))
        BY <4>1
      <4> QED
        BY <1>4, <3>1, <3>2, <3>3, <4>2, Zenon
    <3> QED
      BY <1>6, <3>2, <3>3, Zenon
  <2>3. CASE b = CR
    <3>1. Ahead(s1)
      BY <1>3, <1>12, <2>3
    <3>2. PICK o : /\ Reported(s1, o)
                   /\ \A t : Alike(s1, t) => Gives(t, CarriageReturn(t, policy), o)
      BY <3>1, CarriageReturnOutcome
    <3>3. \A t : Alike(s, t) => read(t) = CarriageReturn(one(t), policy)
      BY <1>11, <1>12, <2>1, <2>3, Zenon
    <3>9. \A t : Alike(s, t) => Gives(one(t), read(t), o)
      BY <1>4, <3>2, <3>3, Zenon
    <3> QED
      BY <1>6, <3>2, <3>9, Zenon
  <2>4. CASE control
    <3>1. PICK o : /\ Reported(s1, o)
                   /\ \A t : Alike(s1, t) => Gives(t, ByteDecoder_validStrange(t, b, policy), o)
      BY <1>1, <1>3, validStrangeOutcome
    <3>2. \A t : Alike(s, t) => read(t) = ByteDecoder_validStrange(one(t), b, policy)
      BY <1>11, <1>12, <2>1, <2>4, Zenon
    <3>9. \A t : Alike(s, t) => Gives(one(t), read(t), o)
      BY <1>4, <3>1, <3>2, Zenon
    <3> QED
      BY <1>6, <3>1, <3>9, Zenon
  <2>5. CASE begins
    <3>1. Ahead(s1) /\ b \in 194..244
      BY <1>3, <1>12, <2>5 DEF begins
    <3>2. PICK o : /\ Reported(s1, o)
                   /\ \A t : Alike(s1, t) => Gives(t, ByteDecoder_multiByte(t, b, policy), o)
      BY <3>1, multiByteOutcome
    <3>3. \A t : Alike(s, t) => read(t) = ByteDecoder_multiByte(one(t), b, policy)
      BY <1>11, <1>12, <2>1, <2>5, Zenon
    <3>9. \A t : Alike(s, t) => Gives(one(t), read(t), o)
      BY <1>4, <3>2, <3>3, Zenon
    <3> QED
      BY <1>6, <3>2, <3>9, Zenon
  <2>6. CASE ends
    <3>1. s1.SrcLoc \in SourceLocations
      BY <1>3 DEF Sessions
    <3>2. PICK o : /\ Reported(s1, o)
                   /\ \A t, r : /\ Alike(s1, t) /\ r.c = CODEPOINT_ENDOFFILE
                                /\ r.s = Moved(t, t.buffer, s1.SrcLoc)
                                => Gives(t, r, o)
      BY <1>3, <3>1, SilentOutcome, CharactersAreOrdinary
    <3>3. ASSUME NEW t, Alike(s1, t) PROVE t = Moved(t, t.buffer, s1.SrcLoc)
      BY <3>3 DEF Alike, Moved, Sessions
    <3>4. ASSUME NEW t, Alike(s, t) PROVE Gives(one(t), read(t), o)
      <4>1. read(t) = [c |-> CODEPOINT_ENDOFFILE, s |-> one(t)]
        BY <1>11, <1>12, <2>1, <2>6, <3>4, Zenon
      <4>2. read(t).c = CODEPOINT_ENDOFFILE /\ read(t).s = one(t)
        BY <4>1
      <4>3. Alike(s1, one(t))
        BY <1>4, <3>4
      <4>4. one(t) = Moved(one(t), one(t).buffer, s1.SrcLoc)
        BY <3>3, <4>3
      <4> QED
        BY <3>2, <4>2, <4>3, <4>4, Zenon
    <3> QED
      BY <1>6, <3>2, <3>4, Zenon
  <2>7. CASE b # TAB /\ b # CR /\ ~control /\ ~begins /\ ~ends
    <3>1. /\ IncompletePoints[1] \in DOMAIN UnsafeLength
          /\ "INCOMPLETEUTF8SEQUENCE" \in UnsafeFlags \ {"OK"}
      BY DEF IncompletePoints, UnsafeLength, UnsafeFlags
    <3>2. PICK o : /\ Reported(s1, o)
                   /\ \A t : Alike(s1, t) =>
                        Gives(t, Unsafe(t, IncompletePoints[1], "INCOMPLETEUTF8SEQUENCE"), o)
      BY <1>3, <3>1, UnsafeReported
    <3>3. ASSUME NEW t, Alike(s, t)
          PROVE  read(t) = Unsafe(one(t), IncompletePoints[1], "INCOMPLETEUTF8SEQUENCE")
      <4>1. read(t) = ByteDecoder_incompleteSequence(one(t), 1)
        BY <1>11, <2>1, <2>7, <3>3, Zenon
      <4> QED
        BY <4>1, Zenon DEF ByteDecoder_incompleteSequence
    <3>9. \A t : Alike(s, t) => Gives(one(t), read(t), o)
      BY <1>4, <3>2, <3>3, Zenon
    <3> QED
      BY <1>6, <3>2, <3>9, Zenon
  <2> QED
    BY <2>2, <2>3, <2>4, <2>5, <2>6, <2>7
<1> QED
  BY <1>13, <1>14, <1>15

----------------------------------------------------------------------------
(* Reading twice.                                                          *)

LEMMA KnownAfterwards ==
  ASSUME NEW issues \in Seq(Issues), NEW I
  PROVE  Known(Append(issues, I), I)
<1>1. /\ DOMAIN Append(issues, I) = 1..(Len(issues) + 1)
      /\ Append(issues, I)[Len(issues) + 1] = I
      /\ Len(issues) + 1 \in 1..(Len(issues) + 1)
  OBVIOUS
<1> QED
  BY <1>1 DEF Known, SameIssue

\* Giving back keeps nothing but the issues and the flag, and reporting them
\* again adds nothing.
LEMMA AfterTwice ==
  ASSUME NEW s \in Sessions, NEW o, Reported(s, o)
  PROVE  /\ Alike(s, Reset(After(s, o), s))
         /\ After(Reset(After(s, o), s), o) = After(s, o)
<1> DEFINE moved == Moved(s, o.place, o.loc)
<1>1. o.place \in Nat /\ o.loc \in SourceLocations /\ o.kind \in {"silent", "warned", "unsafe"}
      /\ o.I \in Issues
  BY DEF Reported, Outcomes
<1>2. /\ s.buffer \in Nat /\ s.SrcLoc \in SourceLocations
      /\ s.fatalIssues \in Seq(Issues) /\ s.nonFatalIssues \in Seq(Issues)
      /\ s.unsafeCharacterEncodingFlag \in UnsafeFlags
  BY DEF Sessions
<1>3. /\ moved \in Sessions /\ moved.fatalIssues = s.fatalIssues
      /\ moved.nonFatalIssues = s.nonFatalIssues
  BY <1>1, MovedType
<1>6. CASE o.kind = "silent"
  <2>1. \A t : After(t, o) = Moved(t, o.place, o.loc)
    BY <1>6 DEF After
  <2> DEFINE u == Reset(moved, s)
  <2>2. Alike(s, u) /\ Moved(u, o.place, o.loc) = moved
    BY <1>1, <1>2 DEF Alike, Reset, Moved, Sessions
  <2> QED
    BY <2>1, <2>2
<1>7. CASE o.kind = "warned"
  <2>1. o.I.Sev # "FATAL"
    BY <1>7 DEF Reported
  <2>2. \A t : After(t, o) = addIssue(Moved(t, o.place, o.loc), o.I)
    BY <1>7 DEF After
  <2> DEFINE N == s.nonFatalIssues
             M == IF Known(N, o.I) THEN N ELSE Append(N, o.I)
             w == [moved EXCEPT !.nonFatalIssues = M]
             u == Reset(w, s)
  <2>3. After(s, o) = w
    BY <1>3, <2>1, <2>2 DEF addIssue
  <2>4. M \in Seq(Issues) /\ Known(M, o.I)
    BY <1>1, <1>2, KnownAfterwards
  <2> HIDE DEF M
  <2>5. Alike(s, u) /\ u.nonFatalIssues = M /\ Moved(u, o.place, o.loc) = w
    BY <1>1, <1>2, <2>4 DEF Alike, Reset, Moved, Sessions
  <2>6. w \in Sessions /\ w.nonFatalIssues = M
    BY <1>1, <1>2, <2>4 DEF Moved, Sessions
  <2> HIDE DEF u, w
  <2>7. addIssue(w, o.I) = [w EXCEPT !.nonFatalIssues = M]
    BY <2>1, <2>4, <2>6 DEF addIssue
  <2>8. [w EXCEPT !.nonFatalIssues = M] = w
    BY <2>6 DEF Sessions
  <2> QED
    BY <2>2, <2>3, <2>5, <2>7, <2>8 DEF u
<1>8. CASE o.kind = "unsafe"
  <2>1. o.I.Sev = "FATAL" /\ o.I.Tag \in UnsafeFlags
    BY <1>8 DEF Reported
  <2>2. \A t : After(t, o)
                 = setUnsafeCharacterEncodingFlag(addIssue(Moved(t, o.place, o.loc), o.I), o.I.Tag)
    BY <1>8 DEF After
  <2> DEFINE F == s.fatalIssues
             tag == o.I.Tag
             M == IF Len(F) >= MaxFatalIssues \/ Known(F, o.I) THEN F ELSE Append(F, o.I)
             a == [moved EXCEPT !.fatalIssues = M]
             w == [a EXCEPT !.unsafeCharacterEncodingFlag = tag]
             u == Reset(w, s)
  <2>3. After(s, o) = w
    BY <1>3, <2>1, <2>2 DEF addIssue, setUnsafeCharacterEncodingFlag
  <2>4. M \in Seq(Issues) /\ (Len(M) >= MaxFatalIssues \/ Known(M, o.I))
    BY <1>1, <1>2, KnownAfterwards
  <2> HIDE DEF M
  <2>5. Alike(s, u) /\ Moved(u, o.place, o.loc) = w
    BY <1>1, <1>2, <2>1, <2>4 DEF Alike, Reset, Moved, Sessions
  <2>6. w \in Sessions /\ w.fatalIssues = M /\ w.unsafeCharacterEncodingFlag = tag
    BY <1>1, <1>2, <2>1, <2>4 DEF Moved, Sessions
  <2> HIDE DEF u, w, a
  <2>7. addIssue(w, o.I) = [w EXCEPT !.fatalIssues = M]
    BY <2>1, <2>4, <2>6 DEF addIssue
  <2>8. [w EXCEPT !.fatalIssues = M] = w
    BY <2>6 DEF Sessions
  <2>9. setUnsafeCharacterEncodingFlag(w, tag) = w
    BY <2>6 DEF setUnsafeCharacterEncodingFlag, Sessions
  <2> QED
    BY <2>2, <2>3, <2>5, <2>7, <2>8, <2>9 DEF u
<1> QED
  BY <1>1, <1>6, <1>7, <1>8

LEMMA StillAhead == IInv /\ result = NoResult => Ahead(session)
BY DEF IInv, EndNeverPassed, Ahead

\* Nothing but a character and a session is read.
IsRead(read) == read = [c |-> read.c, s |-> read.s]

LEMMA NextIsRead ==
  ASSUME NEW s, NEW policy
  PROVE  IsRead(ByteDecoder_nextSourceCharacter(s, policy))
<1>1. \A c, t : IsRead([c |-> c, s |-> t])
  BY DEF IsRead
<1>2. \A t, c, flag : IsRead(Unsafe(t, c, flag))
  BY <1>1 DEF Unsafe
<1>3. \A t, c : /\ IsRead(ByteDecoder_validStrange(t, c, policy))
                /\ IsRead(ByteDecoder_validMB(t, c, policy))
  BY <1>1 DEF ByteDecoder_validStrange, ByteDecoder_validMB
<1>4. \A t : IsRead(CarriageReturn(t, policy))
  BY <1>1 DEF CarriageReturn
<1>5. \A t, n : IsRead(ByteDecoder_incompleteSequence(t, n))
  BY <1>2 DEF ByteDecoder_incompleteSequence
<1>6. ASSUME NEW t, NEW f, f \in 194..244 PROVE IsRead(ByteDecoder_multiByte(t, f, policy))
  BY <1>2, <1>3, <1>5 DEF ByteDecoder_multiByte, ByteDecoder_straySurrogate, ByteDecoder_bom
<1>7. IsRead(ByteDecoder_nextSourceCharacter_uncommon(s, policy))
  BY <1>1, <1>3, <1>4, <1>5, <1>6 DEF ByteDecoder_nextSourceCharacter_uncommon
<1> QED
  BY <1>1, <1>7 DEF ByteDecoder_nextSourceCharacter

(* Looking ahead changes nothing: a character that is read, given back and *)
(* read again is the same character, and is reported once, at every place  *)
(* of every source.                                                        *)
THEOREM LookingIsHarmless == Spec => []ReadingAgainChangesNothing
<1>1. ASSUME IInv PROVE ReadingAgainChangesNothing
  <2> SUFFICES ASSUME result = NoResult PROVE ReadingAgainChangesNothing
    BY DEF ReadingAgainChangesNothing
  <2> DEFINE read(t) == ByteDecoder_nextSourceCharacter(t, TOPLEVEL)
             u == Reset(read(session).s, session)
  <2>1. Ahead(session) /\ session \in Sessions
    BY <1>1, StillAhead DEF Ahead, Good
  <2>2. PICK o : Reported(session, o) /\ \A t : Alike(session, t) => Gives(t, read(t), o)
    BY <2>1, NextOutcome
  <2>3. read(session).c = o.c /\ read(session).s = After(session, o)
    BY <2>1, <2>2, AlikeItself DEF Gives
  <2>4. Alike(session, u) /\ After(u, o) = After(session, o)
    BY <2>1, <2>2, <2>3, AfterTwice
  <2>5. read(u).c = read(session).c /\ read(u).s = read(session).s
    BY <2>2, <2>3, <2>4 DEF Gives
  <2>6. IsRead(read(u)) /\ IsRead(read(session))
    BY NextIsRead
  <2>7. read(u) = read(session)
    BY <2>5, <2>6 DEF IsRead
  <2> QED
    BY <2>7 DEF ReadingAgainChangesNothing
<1> QED
  BY <1>1, SpecIInv, PTL

----------------------------------------------------------------------------
(* What is reported.                                                       *)

\* What a report leaves of the fatal issues and the flag.
LEMMA AfterReport ==
  ASSUME NEW s \in Sessions, NEW o, Reported(s, o)
  PROVE  LET t == After(s, o)
             full == Len(s.fatalIssues) >= MaxFatalIssues
         IN /\ t.SrcLoc = o.loc
            /\ o.kind # "unsafe" =>
                 /\ t.fatalIssues = s.fatalIssues
                 /\ t.unsafeCharacterEncodingFlag = s.unsafeCharacterEncodingFlag
            /\ o.kind = "unsafe" =>
                 /\ t.unsafeCharacterEncodingFlag # "OK"
                 /\ t.fatalIssues = IF full \/ Known(s.fatalIssues, o.I)
                                    THEN s.fatalIssues ELSE Append(s.fatalIssues, o.I)
<1> DEFINE moved == Moved(s, o.place, o.loc)
           F == s.fatalIssues
           M == IF Len(F) >= MaxFatalIssues \/ Known(F, o.I) THEN F ELSE Append(F, o.I)
<1>1. /\ o.kind \in {"silent", "warned", "unsafe"} /\ o.I \in Issues
      /\ o.place \in Nat /\ o.loc \in SourceLocations
  BY DEF Reported, Outcomes
<1>2. /\ moved \in Sessions /\ moved.fatalIssues = F /\ moved.SrcLoc = o.loc
      /\ moved.unsafeCharacterEncodingFlag = s.unsafeCharacterEncodingFlag
  BY <1>1, MovedType
<1> HIDE DEF moved
<1>3. CASE o.kind = "silent"
  BY <1>2, <1>3 DEF After, moved
<1>4. CASE o.kind = "warned"
  <2>1. After(s, o) = addIssue(moved, o.I) /\ o.I.Sev # "FATAL"
    BY <1>4 DEF After, Reported, moved
  <2> DEFINE N == IF Known(moved.nonFatalIssues, o.I) THEN moved.nonFatalIssues
                  ELSE Append(moved.nonFatalIssues, o.I)
  <2>2. After(s, o) = [moved EXCEPT !.nonFatalIssues = N]
    BY <2>1 DEF addIssue
  <2> HIDE DEF N
  <2> QED
    BY <1>2, <1>4, <2>2 DEF Sessions
<1>5. CASE o.kind = "unsafe"
  <2>1. /\ After(s, o) = setUnsafeCharacterEncodingFlag(addIssue(moved, o.I), o.I.Tag)
        /\ o.I.Sev = "FATAL" /\ o.I.Tag # "OK"
    BY <1>5 DEF After, Reported, moved
  <2>2. After(s, o) = [[moved EXCEPT !.fatalIssues = M]
                         EXCEPT !.unsafeCharacterEncodingFlag = o.I.Tag]
    BY <1>2, <2>1 DEF addIssue, setUnsafeCharacterEncodingFlag
  <2> HIDE DEF M
  <2>3. /\ After(s, o).SrcLoc = o.loc
        /\ After(s, o).fatalIssues = M
        /\ After(s, o).unsafeCharacterEncodingFlag = o.I.Tag
    BY <1>2, <2>2 DEF Sessions
  <2> QED
    BY <1>5, <2>1, <2>3 DEF M
<1> QED
  BY <1>1, <1>3, <1>4, <1>5


UnsafeOf(C) == {i \in 1..Len(C) : IsUnsafe(C[i])}

\* UnsafeIsReported of any characters and any issues.
ReportedOf(C, F, flag) ==
  /\ (flag = "OK") <=> (UnsafeOf(C) = {})
  /\ \A i \in UnsafeOf(C) :
       Len(F) = MaxFatalIssues \/ \E j \in 1..Len(F) : F[j].Src = C[i].Src
  /\ \A j \in 1..Len(F) : \E i \in UnsafeOf(C) : F[j].Src = C[i].Src
  /\ Len(F) =< MaxFatalIssues

LEMMA SafeAdded ==
  ASSUME NEW C \in Seq(CharactersRead), NEW ch \in CharactersRead, ~IsUnsafe(ch),
         NEW F, NEW flag, ReportedOf(C, F, flag)
  PROVE  ReportedOf(Append(C, ch), F, flag)
<1> DEFINE D == Append(C, ch)
<1>1. /\ Len(D) = Len(C) + 1 /\ D[Len(C) + 1] = ch /\ Len(C) \in Nat
      /\ \A i \in 1..Len(C) : D[i] = C[i]
  OBVIOUS
<1> HIDE DEF D
<1>2. UnsafeOf(D) = UnsafeOf(C)
  BY <1>1 DEF UnsafeOf
<1>3. \A i \in UnsafeOf(C) : D[i] = C[i]
  BY <1>1 DEF UnsafeOf
<1>4. ASSUME NEW i \in UnsafeOf(D)
      PROVE  Len(F) = MaxFatalIssues \/ \E j \in 1..Len(F) : F[j].Src = D[i].Src
  <2>1. i \in UnsafeOf(C) /\ D[i] = C[i]
    BY <1>2, <1>3
  <2> QED
    BY <2>1, Zenon DEF ReportedOf
<1>5. ASSUME NEW j \in 1..Len(F) PROVE \E i \in UnsafeOf(D) : F[j].Src = D[i].Src
  <2>1. PICK i \in UnsafeOf(C) : F[j].Src = C[i].Src
    BY Zenon DEF ReportedOf
  <2> QED
    BY <1>2, <1>3, <2>1
<1>6. ReportedOf(D, F, flag)
  BY <1>2, <1>4, <1>5, Zenon DEF ReportedOf
<1> QED
  BY <1>6 DEF D

LEMMA UnsafeAdded ==
  ASSUME NEW C \in Seq(CharactersRead), NEW ch \in CharactersRead, IsUnsafe(ch),
         NEW F \in Seq(Issues), NEW I \in Issues, I.Src = ch.Src,
         NEW flag, NEW flag2, flag2 # "OK", ReportedOf(C, F, flag)
  PROVE  ReportedOf(Append(C, ch),
                    IF Len(F) >= MaxFatalIssues \/ Known(F, I) THEN F ELSE Append(F, I), flag2)
<1> DEFINE D == Append(C, ch)
           n == Len(C) + 1
<1>1. /\ Len(D) = n /\ D[n] = ch /\ Len(C) \in Nat
      /\ \A i \in 1..Len(C) : D[i] = C[i]
  OBVIOUS
<1> HIDE DEF D
<1>2. UnsafeOf(D) = UnsafeOf(C) \union {n}
  BY <1>1 DEF UnsafeOf
<1>3. \A i \in UnsafeOf(C) : D[i] = C[i]
  BY <1>1 DEF UnsafeOf
<1>4. Len(F) \in Nat /\ Len(F) =< MaxFatalIssues /\ MaxFatalIssues \in Nat
  BY DEF ReportedOf, MaxFatalIssues
<1>5. CASE Len(F) >= MaxFatalIssues \/ Known(F, I)
  <2>1. Len(F) = MaxFatalIssues \/ \E j \in 1..Len(F) : F[j].Src = D[n].Src
    BY <1>1, <1>4, <1>5 DEF Known, SameIssue
  <2>2. ASSUME NEW i \in UnsafeOf(D)
        PROVE  Len(F) = MaxFatalIssues \/ \E j \in 1..Len(F) : F[j].Src = D[i].Src
    <3>1. CASE i = n
      BY <2>1, <3>1, Zenon
    <3>2. CASE i \in UnsafeOf(C)
      BY <1>3, <3>2, ZenonT(30) DEF ReportedOf
    <3> QED
      BY <1>2, <3>1, <3>2
  <2>3. ASSUME NEW j \in 1..Len(F) PROVE \E i \in UnsafeOf(D) : F[j].Src = D[i].Src
    <3>1. PICK i \in UnsafeOf(C) : F[j].Src = C[i].Src
      BY Zenon DEF ReportedOf
    <3> QED
      BY <1>2, <1>3, <3>1
  <2>4. UnsafeOf(D) # {} /\ flag2 # "OK"
    BY <1>2
  <2>5. ReportedOf(D, F, flag2)
    BY <1>4, <2>2, <2>3, <2>4, Zenon DEF ReportedOf
  <2> QED
    BY <1>5, <2>5 DEF D
<1>6. CASE ~(Len(F) >= MaxFatalIssues \/ Known(F, I))
  <2> DEFINE G == Append(F, I)
             m == Len(F) + 1
  <2>1. /\ Len(G) = m /\ G[m] = I /\ m \in 1..Len(G)
        /\ \A j \in 1..Len(F) : G[j] = F[j] /\ j \in 1..Len(G)
        /\ \A j \in 1..Len(G) : j = m \/ j \in 1..Len(F)
    BY <1>4
  <2>2. Len(G) =< MaxFatalIssues /\ Len(F) # MaxFatalIssues
    BY <1>4, <1>6, <2>1
  <2> HIDE DEF G, m
  <2>3. \A i \in UnsafeOf(D) : \E j \in 1..Len(G) : G[j].Src = D[i].Src
    <3>1. \E j \in 1..Len(G) : G[j].Src = D[n].Src
      BY <1>1, <2>1
    <3>2. ASSUME NEW i \in UnsafeOf(C) PROVE \E j \in 1..Len(G) : G[j].Src = D[i].Src
      <4>1. PICK j \in 1..Len(F) : F[j].Src = C[i].Src
        BY <2>2 DEF ReportedOf
      <4> QED
        BY <1>3, <2>1, <4>1
    <3> QED
      BY <1>2, <3>1, <3>2
  <2>4. \A j \in 1..Len(G) : \E i \in UnsafeOf(D) : G[j].Src = D[i].Src
    <3>1. \E i \in UnsafeOf(D) : G[m].Src = D[i].Src
      BY <1>1, <1>2, <2>1
    <3>2. ASSUME NEW j \in 1..Len(F) PROVE \E i \in UnsafeOf(D) : G[j].Src = D[i].Src
      <4>1. PICK i \in UnsafeOf(C) : F[j].Src = C[i].Src
        BY DEF ReportedOf
      <4> QED
        BY <1>2, <1>3, <2>1, <4>1
    <3> QED
      BY <2>1, <3>1, <3>2
  <2>5. ReportedOf(D, G, flag2)
    BY <1>2, <2>2, <2>3, <2>4 DEF ReportedOf
  <2> QED
    BY <1>6, <2>5 DEF D, G
<1> QED
  BY <1>5, <1>6


LEMMA UnsafeIsReportedOf ==
  UnsafeIsReported <=>
    ReportedOf(chars, session.fatalIssues, session.unsafeCharacterEncodingFlag)
BY Zenon DEF UnsafeIsReported, ReportedOf, UnsafeOf

LEMMA InitReported == Init => UnsafeIsReported
<1> SUFFICES ASSUME Init PROVE UnsafeIsReported
  OBVIOUS
<1>1. /\ chars = <<>> /\ session.fatalIssues = <<>>
      /\ session.unsafeCharacterEncodingFlag = "OK"
  BY DEF Init, init
<1> QED
  BY <1>1 DEF UnsafeIsReported, MaxFatalIssues

LEMMA StepReported == IInv /\ IInv' /\ UnsafeIsReported /\ [Next]_vars => UnsafeIsReported'
<1> SUFFICES ASSUME IInv, IInv', UnsafeIsReported, [Next]_vars PROVE UnsafeIsReported'
  OBVIOUS
<1> DEFINE read == ByteDecoder_nextSourceCharacter(session, TOPLEVEL)
           F == session.fatalIssues
           flag == session.unsafeCharacterEncodingFlag
<1>1. /\ session \in Sessions /\ F \in Seq(Issues)
      /\ chars \in Seq(CharactersRead) /\ chars' \in Seq(CharactersRead)
  BY DEF IInv, Good, Sessions
<1>2. ReportedOf(chars, F, flag)
  BY UnsafeIsReportedOf
<1>3. ASSUME result = NoResult
      PROVE  \E o : Reported(session, o) /\ read.c = o.c /\ read.s = After(session, o)
  <2>1. Ahead(session)
    BY <1>3, StillAhead
  <2> QED
    BY <1>1, <2>1, NextOutcome, AlikeItself DEF Gives
<1> HIDE DEF read
<1>7. UnsafeIsReported' <=>
        ReportedOf(chars', session'.fatalIssues, session'.unsafeCharacterEncodingFlag)
  BY Zenon DEF UnsafeIsReported, ReportedOf, UnsafeOf
<1>4. CASE safeString_read
  <2> DEFINE ch == [c |-> read.c, from |-> session.buffer, to |-> read.s.buffer,
                    Src |-> Source(session.SrcLoc, read.s.SrcLoc)]
  <2>1. result = NoResult /\ session' = read.s /\ chars' = Append(chars, ch)
    BY <1>4 DEF safeString_read, read
  <2>2. PICK o : Reported(session, o) /\ read.c = o.c /\ read.s = After(session, o)
    BY <1>3, <2>1
  <2>3. ch.c = o.c /\ ch.Src = Source(session.SrcLoc, read.s.SrcLoc)
    BY <2>2
  <2> HIDE DEF ch
  <2>4. ch \in CharactersRead
    <3>1. Len(chars') \in 1..Len(chars') /\ chars'[Len(chars')] = ch
      BY <1>1, <2>1
    <3> QED
      BY <1>1, <3>1
  <2>5. CASE o.kind # "unsafe"
    <3>1. ~IsUnsafe(ch)
      BY <2>2, <2>3, <2>5 DEF Reported, IsUnsafe
    <3>2. session'.fatalIssues = F /\ session'.unsafeCharacterEncodingFlag = flag
      BY <1>1, <2>1, <2>2, <2>5, AfterReport
    <3>3. ReportedOf(chars', F, flag)
      BY <1>1, <1>2, <2>1, <2>4, <3>1, SafeAdded
    <3> QED
      BY <3>2, <3>3, <1>7
  <2>6. CASE o.kind = "unsafe"
    <3>1. IsUnsafe(ch)
      BY <2>2, <2>3, <2>6 DEF Reported, IsUnsafe
    <3>2. /\ session'.unsafeCharacterEncodingFlag # "OK"
          /\ session'.fatalIssues = IF Len(F) >= MaxFatalIssues \/ Known(F, o.I)
                                    THEN F ELSE Append(F, o.I)
          /\ read.s.SrcLoc = o.loc
      BY <1>1, <2>1, <2>2, <2>6, AfterReport
    <3>3. o.I \in Issues /\ o.I.Src = ch.Src
      BY <2>2, <2>3, <2>6, <3>2 DEF Reported, Outcomes
    <3> DEFINE flag2 == session'.unsafeCharacterEncodingFlag
               G == IF Len(F) >= MaxFatalIssues \/ Known(F, o.I) THEN F ELSE Append(F, o.I)
    <3>4. flag2 # "OK"
      BY <3>2
    <3> HIDE DEF flag2, flag, F
    <3>5. ReportedOf(Append(chars, ch), G, flag2)
      BY <1>1, <1>2, <2>4, <3>1, <3>3, <3>4, UnsafeAdded
    <3> QED
      BY <1>7, <2>1, <3>2, <3>5 DEF flag2, F
  <2> QED
    BY <2>5, <2>6
<1>5. CASE safeString_return
  <2>1. /\ result = NoResult /\ session' = read.s /\ chars' = chars
        /\ read.c = CODEPOINT_ENDOFFILE
    BY <1>5 DEF safeString_return, read
  <2>2. PICK o : Reported(session, o) /\ read.c = o.c /\ read.s = After(session, o)
    BY <1>3, <2>1
  <2>3. o.kind # "unsafe"
    BY <2>1, <2>2, CharactersAreOrdinary DEF Reported, Ordinary
  <2>4. session'.fatalIssues = F /\ session'.unsafeCharacterEncodingFlag = flag
    BY <1>1, <2>1, <2>2, <2>3, AfterReport
  <2> QED
    BY <1>2, <1>7, <2>1, <2>4
<1>6. CASE UNCHANGED vars
  BY <1>6 DEF vars, UnsafeIsReported
<1> QED
  BY <1>4, <1>5, <1>6 DEF Next, Terminated

(* Bytes that are no safe character are always reported: a result is       *)
(* withheld exactly when there was one, each has a fatal issue at its      *)
(* place until there are ten, and no other place has one.                  *)
THEOREM UnsafeAlwaysReported == Spec => []UnsafeIsReported
<1> QED
  BY InitReported, StepReported, SpecIInv, PTL DEF Spec

----------------------------------------------------------------------------
(* UTF-8: the sequences that encode a character.                           *)

IsTrail(b) == b \in 128..191

\* What two, three and four bytes stand for.
Two(a, b) == (a - 192) * 64 + b - 128
Three(a, b, c) == (a - 224) * 4096 + (b - 128) * 64 + c - 128
Four(a, b, c, d) == (a - 240) * 262144 + (b - 128) * 4096 + (c - 128) * 64 + d - 128

IsTwo(a, b) == a \in 194..223 /\ IsTrail(b)
IsThree(a, b, c) ==
  /\ a \in 224..239 /\ IsTrail(b) /\ IsTrail(c)
  /\ a = 224 => b >= 160
IsFour(a, b, c, d) ==
  /\ a \in 240..244 /\ IsTrail(b) /\ IsTrail(c) /\ IsTrail(d)
  /\ a = 240 => b >= 144
  /\ a = 244 => b =< 143

\* The digits of a character, to the base of 64.
LEMMA TwoDigits ==
  ASSUME NEW p \in Nat, p < 2048
  PROVE  p \div 64 \in 0..31 /\ p % 64 \in 0..63 /\ p = (p \div 64) * 64 + (p % 64)
BY SMT

LEMMA ThreeDigits ==
  ASSUME NEW p \in Nat, p < 65536
  PROVE  /\ p \div 4096 \in 0..15 /\ (p \div 64) % 64 \in 0..63 /\ p % 64 \in 0..63
         /\ p = (p \div 4096) * 4096 + ((p \div 64) % 64) * 64 + (p % 64)
BY SMT

LEMMA FourDigits ==
  ASSUME NEW p \in Nat, p =< 1114111
  PROVE  /\ p \div 262144 \in 0..4 /\ (p \div 4096) % 64 \in 0..63
         /\ (p \div 64) % 64 \in 0..63 /\ p % 64 \in 0..63
         /\ p = (p \div 262144) * 262144 + ((p \div 4096) % 64) * 4096
                  + ((p \div 64) % 64) * 64 + (p % 64)
BY SMT

\* What legal bytes stand for is encoded in them.
LEMMA TwoBytes ==
  ASSUME NEW a, NEW b, IsTwo(a, b)
  PROVE  LET p == Two(a, b)
         IN p \in Nat /\ 128 =< p /\ p < 2048 /\ Encoding(p) = <<a, b>>
<1> DEFINE p == Two(a, b)
<1>1. /\ p \in Nat /\ 128 =< p /\ p < 2048
      /\ p \div 64 = a - 192 /\ p % 64 = b - 128
  BY SMT DEF IsTwo, IsTrail, Two
<1>2. a \in Nat /\ b \in Nat
  BY SMT DEF IsTwo, IsTrail
<1> HIDE DEF p
<1>3. Encoding(p) = <<192 + (p \div 64), 128 + (p % 64)>>
  BY <1>1, SMT DEF Encoding
<1>4. 192 + (p \div 64) = a /\ 128 + (p % 64) = b
  BY <1>1, <1>2, SMT
<1> QED
  BY <1>1, <1>3, <1>4, SMT DEF p

LEMMA ThreeBytes ==
  ASSUME NEW a, NEW b, NEW c, IsThree(a, b, c)
  PROVE  LET p == Three(a, b, c)
         IN p \in Nat /\ 2048 =< p /\ p < 65536 /\ Encoding(p) = <<a, b, c>>
<1> DEFINE p == Three(a, b, c)
<1>1. /\ p \in Nat /\ 2048 =< p /\ p < 65536
      /\ p \div 4096 = a - 224 /\ (p \div 64) % 64 = b - 128 /\ p % 64 = c - 128
  BY SMT DEF IsThree, IsTrail, Three
<1>2. a \in Nat /\ b \in Nat /\ c \in Nat
  BY SMT DEF IsThree, IsTrail
<1> HIDE DEF p
<1>3. Encoding(p) = <<224 + (p \div 4096), 128 + ((p \div 64) % 64), 128 + (p % 64)>>
  BY <1>1, SMT DEF Encoding
<1>4. 224 + (p \div 4096) = a /\ 128 + ((p \div 64) % 64) = b /\ 128 + (p % 64) = c
  BY <1>1, <1>2, SMT
<1> QED
  BY <1>1, <1>3, <1>4, SMT DEF p

LEMMA FourBytes ==
  ASSUME NEW a, NEW b, NEW c, NEW d, IsFour(a, b, c, d)
  PROVE  LET p == Four(a, b, c, d)
         IN p \in Nat /\ 65536 =< p /\ p =< 1114111 /\ Encoding(p) = <<a, b, c, d>>
<1> DEFINE p == Four(a, b, c, d)
<1>1. /\ p \in Nat /\ 65536 =< p /\ p =< 1114111
      /\ p \div 262144 = a - 240 /\ (p \div 4096) % 64 = b - 128
      /\ (p \div 64) % 64 = c - 128 /\ p % 64 = d - 128
  <2> DEFINE A == a - 240
             B == b - 128
             C == c - 128
             D == d - 128
  <2>1. /\ A \in 0..4 /\ B \in 0..63 /\ C \in 0..63 /\ D \in 0..63
        /\ A = 0 => B >= 16
        /\ A = 4 => B =< 15
        /\ p = A * 262144 + B * 4096 + C * 64 + D
    BY SMT DEF IsFour, IsTrail, Four
  <2> HIDE DEF A, B, C, D, p
  <2>2. p \in Nat /\ 65536 =< p /\ p =< 1114111
    BY <2>1, SMT
  <2>3. p % 64 = D
    BY <2>1, SMT
  <2>4. p \div 64 = A * 4096 + B * 64 + C
    BY <2>1, SMT
  <2>5. (A * 4096 + B * 64 + C) % 64 = C
    BY <2>1, SMT
  <2>6. p \div 4096 = A * 64 + B
    BY <2>1, SMT
  <2>7. (A * 64 + B) % 64 = B
    BY <2>1, SMT
  <2>8. p \div 262144 = A
    BY <2>1, SMT
  <2> QED
    BY <2>2, <2>3, <2>4, <2>5, <2>6, <2>7, <2>8, SMT DEF A, B, C, D
<1>2. a \in Nat /\ b \in Nat /\ c \in Nat /\ d \in Nat
  BY SMT DEF IsFour, IsTrail
<1> HIDE DEF p
<1>3. Encoding(p) = <<240 + (p \div 262144), 128 + ((p \div 4096) % 64),
                      128 + ((p \div 64) % 64), 128 + (p % 64)>>
  <2>1. ~(p < 128) /\ ~(128 =< p /\ p < 2048) /\ ~(2048 =< p /\ p < 65536)
    BY <1>1, SMT
  <2> QED
    BY <2>1, SMT DEF Encoding
<1>4. /\ 240 + (p \div 262144) = a /\ 128 + ((p \div 4096) % 64) = b
      /\ 128 + ((p \div 64) % 64) = c /\ 128 + (p % 64) = d
  BY <1>1, <1>2, SMT
<1> QED
  BY <1>1, <1>3, <1>4, SMT DEF p

\* And a character is encoded in legal bytes that stand for it.
LEMMA EncodingShape ==
  ASSUME NEW p, IsScalar(p)
  PROVE  LET e == Encoding(p)
         IN \/ p < 128 /\ e = <<p>>
            \/ \E a, b : IsTwo(a, b) /\ e = <<a, b>>
            \/ \E a, b, c : IsThree(a, b, c) /\ e = <<a, b, c>>
            \/ \E a, b, c, d : IsFour(a, b, c, d) /\ e = <<a, b, c, d>>
<1> DEFINE e == Encoding(p)
<1>1. p \in Nat /\ p =< 1114111
  BY SMT DEF IsScalar
<1>2. CASE p < 128
  <2>1. e = <<p>>
    BY <1>1, <1>2, SMT DEF Encoding
  <2> QED
    BY <1>2, <2>1, SMT
<1>3. CASE 128 =< p /\ p < 2048
  <2> DEFINE a == p \div 64
             b == p % 64
  <2>1. e = <<192 + a, 128 + b>>
    <3>1. ~(p < 128)
      BY <1>1, <1>3, SMT
    <3> QED
      BY <1>1, <1>3, <3>1, SMT DEF Encoding
  <2>2. a \in 0..31 /\ b \in 0..63 /\ p = a * 64 + b
    BY <1>3, <1>1, TwoDigits, SMT
  <2> HIDE DEF a, b, e
  <2>3. IsTwo(192 + a, 128 + b)
    BY <1>1, <1>3, <2>2, SMT DEF IsTwo, IsTrail
  <2> QED
    BY <2>1, <2>3, Zenon DEF e
<1>4. CASE 2048 =< p /\ p < 65536
  <2> DEFINE a == p \div 4096
             b == (p \div 64) % 64
             c == p % 64
  <2>1. e = <<224 + a, 128 + b, 128 + c>>
    <3>1. ~(p < 128) /\ ~(128 =< p /\ p < 2048)
      BY <1>1, <1>4, SMT
    <3> QED
      BY <1>1, <1>4, <3>1, SMT DEF Encoding
  <2>2. a \in 0..15 /\ b \in 0..63 /\ c \in 0..63 /\ p = a * 4096 + b * 64 + c
    BY <1>4, <1>1, ThreeDigits, SMT
  <2> HIDE DEF a, b, c, e
  <2>3. IsThree(224 + a, 128 + b, 128 + c)
    BY <1>1, <1>4, <2>2, SMT DEF IsThree, IsTrail
  <2> QED
    BY <2>1, <2>3, ZenonT(30) DEF e
<1>5. CASE 65536 =< p
  <2> DEFINE a == p \div 262144
             b == (p \div 4096) % 64
             c == (p \div 64) % 64
             d == p % 64
  <2>1. e = <<240 + a, 128 + b, 128 + c, 128 + d>>
    <3>1. ~(p < 128) /\ ~(128 =< p /\ p < 2048) /\ ~(2048 =< p /\ p < 65536)
      BY <1>1, <1>5, SMT
    <3> QED
      BY <3>1, SMT DEF Encoding
  <2>2. /\ a \in 0..4 /\ b \in 0..63 /\ c \in 0..63 /\ d \in 0..63
        /\ p = a * 262144 + b * 4096 + c * 64 + d
    BY <1>5, <1>1, FourDigits, SMT
  <2> HIDE DEF a, b, c, d, e
  <2>3. IsFour(240 + a, 128 + b, 128 + c, 128 + d)
    BY <1>1, <1>5, <2>2, SMT DEF IsFour, IsTrail
  <2> QED
    BY <2>1, <2>3, ZenonT(30) DEF e
<1> HIDE DEF e
<1> QED
  BY <1>1, <1>2, <1>3, <1>4, <1>5, SMT

----------------------------------------------------------------------------
(* Which sequences the decoder takes. *)

LEMMA SliceLen ==
  ASSUME NEW bytes \in Seq(Byte), NEW i \in 1..Len(bytes), NEW n \in 1..4, i + n - 1 =< Len(bytes)
  PROVE  /\ Len(SubSeq(bytes, i, i + n - 1)) = n
         /\ \A k \in 1..n : SubSeq(bytes, i, i + n - 1)[k] = bytes[i + k - 1]
BY SMT

LEMMA SeqOf ==
  ASSUME NEW e \in Seq(Byte)
  PROVE  /\ Len(e) = 1 => e = <<e[1]>>
         /\ Len(e) = 2 => e = <<e[1], e[2]>>
         /\ Len(e) = 3 => e = <<e[1], e[2], e[3]>>
         /\ Len(e) = 4 => e = <<e[1], e[2], e[3], e[4]>>
<1>1. CASE Len(e) = 1
  BY <1>1, SMT
<1>2. CASE Len(e) = 2
  BY <1>2, SMT
<1>3. CASE Len(e) = 3
  BY <1>3, SMT
<1>4. CASE Len(e) = 4
  BY <1>4, SMT
<1> QED
  BY <1>1, <1>2, <1>3, <1>4

LEMMA Slices ==
  ASSUME NEW bytes \in Seq(Byte), NEW i \in 1..Len(bytes)
  PROVE  /\ SubSeq(bytes, i, i) = <<bytes[i]>>
         /\ i + 1 =< Len(bytes) => SubSeq(bytes, i, i + 1) = <<bytes[i], bytes[i + 1]>>
         /\ i + 2 =< Len(bytes) =>
              SubSeq(bytes, i, i + 2) = <<bytes[i], bytes[i + 1], bytes[i + 2]>>
         /\ i + 3 =< Len(bytes) =>
              SubSeq(bytes, i, i + 3) = <<bytes[i], bytes[i + 1], bytes[i + 2], bytes[i + 3]>>
<1> DEFINE e(n) == SubSeq(bytes, i, i + n - 1)
<1>1. ASSUME NEW n \in 1..4, i + n - 1 =< Len(bytes)
      PROVE  e(n) \in Seq(Byte) /\ Len(e(n)) = n /\ \A k \in 1..n : e(n)[k] = bytes[i + k - 1]
  BY <1>1, SliceLen, SMT
<1> HIDE DEF e
<1>2. e(1) = <<bytes[i]>>
  <2>1. e(1) \in Seq(Byte) /\ Len(e(1)) = 1 /\ e(1)[1] = bytes[i]
    BY <1>1, SMT
  <2> QED
    BY <2>1, SeqOf
<1>3. ASSUME i + 1 =< Len(bytes) PROVE e(2) = <<bytes[i], bytes[i + 1]>>
  <2>1. e(2) \in Seq(Byte) /\ Len(e(2)) = 2 /\ e(2)[1] = bytes[i] /\ e(2)[2] = bytes[i + 1]
    BY <1>1, <1>3, SMT
  <2> QED
    BY <2>1, SeqOf
<1>4. ASSUME i + 2 =< Len(bytes) PROVE e(3) = <<bytes[i], bytes[i + 1], bytes[i + 2]>>
  <2>1. /\ e(3) \in Seq(Byte) /\ Len(e(3)) = 3 /\ e(3)[1] = bytes[i] /\ e(3)[2] = bytes[i + 1]
        /\ e(3)[3] = bytes[i + 2]
    BY <1>1, <1>4, SMT
  <2> QED
    BY <2>1, SeqOf
<1>5. ASSUME i + 3 =< Len(bytes)
      PROVE  e(4) = <<bytes[i], bytes[i + 1], bytes[i + 2], bytes[i + 3]>>
  <2>1. /\ e(4) \in Seq(Byte) /\ Len(e(4)) = 4 /\ e(4)[1] = bytes[i] /\ e(4)[2] = bytes[i + 1]
        /\ e(4)[3] = bytes[i + 2] /\ e(4)[4] = bytes[i + 3]
    BY <1>1, <1>5, SMTT(30)
  <2> QED
    BY <2>1, SeqOf
<1>6. i + 1 - 1 = i /\ i + 2 - 1 = i + 1 /\ i + 3 - 1 = i + 2 /\ i + 4 - 1 = i + 3
  OBVIOUS
<1> QED
  BY <1>2, <1>3, <1>4, <1>5, <1>6 DEF e

\* What is encoded at a place is what the decoder's table lists.
LEMMA EncodedShape ==
  ASSUME NEW bytes \in Seq(Byte), NEW i \in 1..Len(bytes), EncodedAt(bytes, i)
  PROVE  \/ bytes[i] < 128
         \/ /\ i + 1 =< Len(bytes)
            /\ IsTwo(bytes[i], bytes[i + 1])
            /\ IsSafe(Two(bytes[i], bytes[i + 1]))
         \/ /\ i + 2 =< Len(bytes)
            /\ IsThree(bytes[i], bytes[i + 1], bytes[i + 2])
            /\ IsSafe(Three(bytes[i], bytes[i + 1], bytes[i + 2]))
         \/ /\ i + 3 =< Len(bytes)
            /\ IsFour(bytes[i], bytes[i + 1], bytes[i + 2], bytes[i + 3])
            /\ IsSafe(Four(bytes[i], bytes[i + 1], bytes[i + 2], bytes[i + 3]))
<1>1. PICK n \in 1..4 :
        /\ i + n - 1 =< Len(bytes)
        /\ IsSafe(PointAt(bytes, i, n))
        /\ SubSeq(bytes, i, i + n - 1) = Encoding(PointAt(bytes, i, n))
  BY Zenon DEF EncodedAt
<1> DEFINE p == PointAt(bytes, i, n)
           e == SubSeq(bytes, i, i + n - 1)
<1>2. Len(e) = n /\ \A k \in 1..n : e[k] = bytes[i + k - 1]
  BY <1>1, SliceLen, Zenon
<1>3. IsScalar(p) /\ e = Encoding(p)
  BY <1>1, Zenon DEF IsSafe
<1>4. /\ n = 2 => p = Two(bytes[i], bytes[i + 1])
      /\ n = 3 => p = Three(bytes[i], bytes[i + 1], bytes[i + 2])
      /\ n = 4 => p = Four(bytes[i], bytes[i + 1], bytes[i + 2], bytes[i + 3])
  BY SMT DEF PointAt, Two, Three, Four
<1> HIDE DEF p, e
<1>5. \/ p < 128 /\ e = <<p>>
      \/ \E a, b : IsTwo(a, b) /\ e = <<a, b>>
      \/ \E a, b, c : IsThree(a, b, c) /\ e = <<a, b, c>>
      \/ \E a, b, c, d : IsFour(a, b, c, d) /\ e = <<a, b, c, d>>
  BY <1>3, EncodingShape, Zenon
<1>6. CASE p < 128 /\ e = <<p>>
  <2>1. n = 1 /\ e[1] = p
    BY <1>2, <1>6, SMT
  <2>2. e[1] = bytes[i]
    BY <1>2, <2>1, SMT
  <2> QED
    BY <1>6, <2>1, <2>2
<1>7. ASSUME NEW a, NEW b, IsTwo(a, b), e = <<a, b>>
      PROVE  /\ i + 1 =< Len(bytes)
             /\ IsTwo(bytes[i], bytes[i + 1])
             /\ IsSafe(Two(bytes[i], bytes[i + 1]))
  <2>1. n = 2 /\ e[1] = a /\ e[2] = b
    BY <1>2, <1>7, SMT
  <2>2. bytes[i] = a /\ bytes[i + 1] = b /\ i + 1 =< Len(bytes)
    BY <1>1, <1>2, <2>1, SMT
  <2> QED
    BY <1>1, <1>4, <1>7, <2>1, <2>2, Zenon DEF p
<1>8. ASSUME NEW a, NEW b, NEW c, IsThree(a, b, c), e = <<a, b, c>>
      PROVE  /\ i + 2 =< Len(bytes)
             /\ IsThree(bytes[i], bytes[i + 1], bytes[i + 2])
             /\ IsSafe(Three(bytes[i], bytes[i + 1], bytes[i + 2]))
  <2>1. n = 3 /\ e[1] = a /\ e[2] = b /\ e[3] = c
    BY <1>2, <1>8, SMT
  <2>2. bytes[i] = a /\ bytes[i + 1] = b /\ bytes[i + 2] = c /\ i + 2 =< Len(bytes)
    BY <1>1, <1>2, <2>1, SMT
  <2> QED
    BY <1>1, <1>4, <1>8, <2>1, <2>2, Zenon DEF p
<1>9. ASSUME NEW a, NEW b, NEW c, NEW d, IsFour(a, b, c, d), e = <<a, b, c, d>>
      PROVE  /\ i + 3 =< Len(bytes)
             /\ IsFour(bytes[i], bytes[i + 1], bytes[i + 2], bytes[i + 3])
             /\ IsSafe(Four(bytes[i], bytes[i + 1], bytes[i + 2], bytes[i + 3]))
  <2>1. n = 4 /\ e[1] = a /\ e[2] = b /\ e[3] = c /\ e[4] = d
    BY <1>2, <1>9, SMT
  <2>2. /\ bytes[i] = a /\ bytes[i + 1] = b /\ bytes[i + 2] = c /\ bytes[i + 3] = d
        /\ i + 3 =< Len(bytes)
    BY <1>1, <1>2, <2>1, SMT
  <2> QED
    BY <1>1, <1>4, <1>9, <2>1, <2>2, Zenon DEF p
<1> QED
  BY <1>5, <1>6, <1>7, <1>8, <1>9, Zenon

\* The sequences found whole, and what they are decoded to.
LEMMA TwoFound ==
  ASSUME NEW t, NEW f \in 194..223
  PROVE  LET b == Following(t, 1)
         IN /\ Wanted(f) = 1 /\ Found(t, f) \in 0..1
            /\ Found(t, f) = 1 <=> IsTwo(f, b)
            /\ IsTwo(f, b) => Decoded(t, f) = Two(f, b)
<1>1. Wanted(f) = 1
  BY SMT DEF Wanted
<1> DEFINE b == Following(t, 1)
<1>2. Belongs(t, f, 1) <=> IsTrail(b)
  BY SMT DEF Belongs, IsSecondByte, IsContinuation, IsTrail
<1>3. Found(t, f) = IF IsTrail(b) THEN 1 ELSE 0
  BY <1>1, <1>2, SMT DEF Found
<1>4. Decoded(t, f) = (f - 192) * 64 + (b - 128)
  BY <1>1, SMT DEF Decoded
<1> HIDE DEF b
<1>5. IsTwo(f, b) <=> IsTrail(b)
  BY SMT DEF IsTwo
<1>6. IsTwo(f, b) => Decoded(t, f) = Two(f, b)
  BY <1>4, SMT DEF IsTwo, IsTrail, Two
<1> QED
  BY <1>1, <1>3, <1>5, <1>6, SMT DEF b

LEMMA ThreeFound ==
  ASSUME NEW t, NEW f \in 224..239
  PROVE  LET b == Following(t, 1)
             c == Following(t, 2)
         IN /\ Wanted(f) = 2 /\ Found(t, f) \in 0..2
            /\ Found(t, f) = 2 <=> IsThree(f, b, c)
            /\ IsThree(f, b, c) => Decoded(t, f) = Three(f, b, c)
<1>1. Wanted(f) = 2
  BY SMT DEF Wanted
<1> DEFINE b == Following(t, 1)
           c == Following(t, 2)
<1>2. /\ Belongs(t, f, 1) <=> IsSecondByte(f, b)
      /\ Belongs(t, f, 2) <=> IsTrail(c)
  BY SMT DEF Belongs, IsContinuation, IsTrail
<1>3. Found(t, f) = IF ~IsSecondByte(f, b) THEN 0 ELSE IF ~IsTrail(c) THEN 1 ELSE 2
  BY <1>1, <1>2, SMT DEF Found
<1>4. Decoded(t, f) = (f - 224) * 4096 + (b - 128) * 64 + (c - 128)
  BY <1>1, SMT DEF Decoded
<1> HIDE DEF b, c
<1>5. IsThree(f, b, c) <=> IsSecondByte(f, b) /\ IsTrail(c)
  <2>1. IsSecondByte(f, b) <=> IsTrail(b) /\ (f = 224 => b >= 160)
    BY SMT DEF IsSecondByte, IsContinuation, IsTrail
  <2> QED
    BY <2>1, SMT DEF IsThree
<1>6. IsThree(f, b, c) => Decoded(t, f) = Three(f, b, c)
  BY <1>4, SMT DEF IsThree, IsTrail, Three
<1> QED
  BY <1>1, <1>3, <1>5, <1>6, SMT DEF b, c

LEMMA FourFound ==
  ASSUME NEW t, NEW f \in 240..244
  PROVE  LET b == Following(t, 1)
             c == Following(t, 2)
             d == Following(t, 3)
         IN /\ Wanted(f) = 3 /\ Found(t, f) \in 0..3
            /\ Found(t, f) = 3 <=> IsFour(f, b, c, d)
            /\ IsFour(f, b, c, d) => Decoded(t, f) = Four(f, b, c, d)
<1>1. Wanted(f) = 3
  BY SMT DEF Wanted
<1> DEFINE b == Following(t, 1)
           c == Following(t, 2)
           d == Following(t, 3)
<1>2. /\ Belongs(t, f, 1) <=> IsSecondByte(f, b)
      /\ Belongs(t, f, 2) <=> IsTrail(c)
      /\ Belongs(t, f, 3) <=> IsTrail(d)
  BY SMT DEF Belongs, IsContinuation, IsTrail
<1>3. Found(t, f) = IF ~IsSecondByte(f, b) THEN 0 ELSE IF ~IsTrail(c) THEN 1
                    ELSE IF ~IsTrail(d) THEN 2 ELSE 3
  BY <1>1, <1>2, SMT DEF Found
<1>4. Decoded(t, f) = (f - 240) * 262144 + (b - 128) * 4096 + (c - 128) * 64 + (d - 128)
  BY <1>1, SMT DEF Decoded
<1> HIDE DEF b, c, d
<1>5. IsFour(f, b, c, d) <=> IsSecondByte(f, b) /\ IsTrail(c) /\ IsTrail(d)
  <2>1. IsSecondByte(f, b)
          <=> IsTrail(b) /\ (f = 240 => b >= 144) /\ (f = 244 => b =< 143)
    BY SMT DEF IsSecondByte, IsContinuation, IsTrail
  <2> QED
    BY <2>1, SMT DEF IsFour
<1>6. IsFour(f, b, c, d) => Decoded(t, f) = Four(f, b, c, d)
  BY <1>4, SMT DEF IsFour, IsTrail, Four
<1> QED
  BY <1>1, <1>3, <1>5, <1>6, SMT DEF b, c, d

\* The points that the decoder refuses have three bytes.
LEMMA FarFromSpecial ==
  ASSUME NEW p \in Nat, p < 2048 \/ 65536 =< p
  PROVE  ~isStraySurrogate(p) /\ p # CODEPOINT_BOM
BY SMT DEF isStraySurrogate, CODEPOINT_BOM

\* The points that Unicode has.
IsPoint(p) == p \in Nat /\ p =< 1114111

\* Whether the sequence behind a first byte is whole, what it is decoded to,
\* and that nothing else is encoded there.
LEMMA WholeSequence ==
  ASSUME NEW t, Ahead(t), t.buffer > 0, NEW f \in 194..244, f = t.bytes[t.buffer]
  PROVE  LET W == Wanted(f)
             p == Decoded(t, f)
         IN /\ W \in 1..3 /\ Found(t, f) \in 0..W
            /\ Found(t, f) = W =>
                 /\ IsPoint(p)
                 /\ SubSeq(t.bytes, t.buffer, t.buffer + W) = Encoding(p)
                 /\ isStraySurrogate(p) \/ p = CODEPOINT_BOM => W = 2
            /\ EncodedAt(t.bytes, t.buffer) => Found(t, f) = W /\ IsSafe(p)
<1> DEFINE W == Wanted(f)
           p == Decoded(t, f)
           bytes == t.bytes
           i == t.buffer
           n == Found(t, f)
           b == Following(t, 1)
           c == Following(t, 2)
           d == Following(t, 3)
<1> SUFFICES /\ W \in 1..3 /\ n \in 0..W
             /\ n = W => /\ IsPoint(p)
                         /\ SubSeq(bytes, i, i + W) = Encoding(p)
                         /\ isStraySurrogate(p) \/ p = CODEPOINT_BOM => W = 2
             /\ EncodedAt(bytes, i) => n = W /\ IsSafe(p)
  BY Zenon
<1>1. W \in 1..3 /\ n \in 0..W /\ i + n < end(t)
  BY FoundBefore, SMTT(30)
<1>2. bytes \in Seq(Byte) /\ i \in Nat /\ end(t) = Len(bytes)
  BY Buffer DEF Ahead, end
<1>3. i \in 1..Len(bytes) /\ i + n =< Len(bytes)
  BY <1>1, <1>2, SMT
<1>4. b = bytes[i + 1] /\ c = bytes[i + 2] /\ d = bytes[i + 3] /\ f = bytes[i]
  BY DEF Following
<1> HIDE DEF bytes, i, b, c, d, n, W, p
<1>5. ASSUME EncodedAt(bytes, i)
      PROVE  \/ IsTwo(f, b) /\ IsSafe(Two(f, b))
             \/ IsThree(f, b, c) /\ IsSafe(Three(f, b, c))
             \/ IsFour(f, b, c, d) /\ IsSafe(Four(f, b, c, d))
  <2>1. ~(f < 128)
    BY SMT
  <2>2. \/ bytes[i] < 128
        \/ IsTwo(bytes[i], bytes[i + 1]) /\ IsSafe(Two(bytes[i], bytes[i + 1]))
        \/ /\ IsThree(bytes[i], bytes[i + 1], bytes[i + 2])
           /\ IsSafe(Three(bytes[i], bytes[i + 1], bytes[i + 2]))
        \/ /\ IsFour(bytes[i], bytes[i + 1], bytes[i + 2], bytes[i + 3])
           /\ IsSafe(Four(bytes[i], bytes[i + 1], bytes[i + 2], bytes[i + 3]))
    BY <1>2, <1>3, <1>5, EncodedShape, Zenon
  <2> QED
    BY <1>4, <2>1, <2>2, SMT
<1>6. CASE f \in 194..223
  <2>1. W = 1 /\ (n = 1 <=> IsTwo(f, b)) /\ (IsTwo(f, b) => p = Two(f, b))
    BY <1>6, TwoFound, SMT DEF n, W, p, b
  <2>2. EncodedAt(bytes, i) => IsTwo(f, b) /\ IsSafe(Two(f, b))
    <3>1. ~IsThree(f, b, c) /\ ~IsFour(f, b, c, d)
      BY <1>6, SMT DEF IsThree, IsFour
    <3> QED
      BY <1>5, <3>1, Zenon
  <2>3. ASSUME n = 1
        PROVE  /\ IsPoint(p) /\ SubSeq(bytes, i, i + 1) = Encoding(p)
               /\ ~isStraySurrogate(p) /\ p # CODEPOINT_BOM
    <3>1. p \in Nat /\ p < 2048 /\ Encoding(p) = <<f, b>>
      BY <2>1, <2>3, TwoBytes, SMT
    <3>2. SubSeq(bytes, i, i + 1) = <<f, b>>
      <4>1. i + 1 =< Len(bytes)
        BY <1>3, <2>3, SMT
      <4>2. SubSeq(bytes, i, i + 1)
              = <<bytes[i], bytes[i + 1]>>
        BY <1>2, <1>3, <4>1, Slices, Zenon
      <4> QED
        BY <1>4, <4>2, Zenon
    <3>3. IsPoint(p)
      BY <3>1, SMT DEF IsPoint
    <3>4. ~isStraySurrogate(p) /\ p # CODEPOINT_BOM
      BY <3>1, FarFromSpecial, SMT
    <3> QED
      BY <3>1, <3>2, <3>3, <3>4, SMT
  <2> QED
    BY <1>1, <2>1, <2>2, <2>3, SMT
<1>7. CASE f \in 224..239
  <2>1. W = 2 /\ (n = 2 <=> IsThree(f, b, c)) /\ (IsThree(f, b, c) => p = Three(f, b, c))
    BY <1>7, ThreeFound, SMT DEF n, W, p, b, c
  <2>2. EncodedAt(bytes, i) => IsThree(f, b, c) /\ IsSafe(Three(f, b, c))
    <3>1. ~IsTwo(f, b) /\ ~IsFour(f, b, c, d)
      BY <1>7, SMT DEF IsTwo, IsFour
    <3> QED
      BY <1>5, <3>1, Zenon
  <2>3. ASSUME n = 2
        PROVE  IsPoint(p) /\ SubSeq(bytes, i, i + 2) = Encoding(p)
    <3>1. p \in Nat /\ p < 65536 /\ Encoding(p) = <<f, b, c>>
      BY <2>1, <2>3, ThreeBytes, SMT
    <3>2. SubSeq(bytes, i, i + 2) = <<f, b, c>>
      <4>1. i + 2 =< Len(bytes)
        BY <1>3, <2>3, SMT
      <4>2. SubSeq(bytes, i, i + 2)
              = <<bytes[i], bytes[i + 1], bytes[i + 2]>>
        BY <1>2, <1>3, <4>1, Slices, Zenon
      <4> QED
        BY <1>4, <4>2, Zenon
    <3> QED
      BY <3>1, <3>2, SMT DEF IsPoint
  <2> QED
    BY <1>1, <2>1, <2>2, <2>3, SMT
<1>8. CASE f \in 240..244
  <2>1. /\ W = 3 /\ (n = 3 <=> IsFour(f, b, c, d))
        /\ IsFour(f, b, c, d) => p = Four(f, b, c, d)
    BY <1>8, FourFound, SMT DEF n, W, p, b, c, d
  <2>2. EncodedAt(bytes, i) => IsFour(f, b, c, d) /\ IsSafe(Four(f, b, c, d))
    <3>1. ~IsTwo(f, b) /\ ~IsThree(f, b, c)
      BY <1>8, SMT DEF IsTwo, IsThree
    <3> QED
      BY <1>5, <3>1, Zenon
  <2>3. ASSUME n = 3
        PROVE  /\ IsPoint(p) /\ SubSeq(bytes, i, i + 3) = Encoding(p)
               /\ ~isStraySurrogate(p) /\ p # CODEPOINT_BOM
    <3>1. p \in Nat /\ 65536 =< p /\ p =< 1114111 /\ Encoding(p) = <<f, b, c, d>>
      BY <2>1, <2>3, FourBytes, SMT
    <3>2. SubSeq(bytes, i, i + 3) = <<f, b, c, d>>
      <4>1. i + 3 =< Len(bytes)
        BY <1>3, <2>3, SMT
      <4>2. SubSeq(bytes, i, i + 3)
              = <<bytes[i], bytes[i + 1], bytes[i + 2], bytes[i + 3]>>
        BY <1>2, <1>3, <4>1, Slices, Zenon
      <4> QED
        BY <1>4, <4>2, Zenon
    <3>3. IsPoint(p)
      BY <3>1, SMT DEF IsPoint
    <3>4. ~isStraySurrogate(p) /\ p # CODEPOINT_BOM
      BY <3>1, FarFromSpecial, SMT
    <3>5. Encoding(p) = <<f, b, c, d>>
      BY <3>1, SMT
    <3> QED
      BY <3>2, <3>3, <3>4, <3>5, SMT
  <2> QED
    BY <1>1, <2>1, <2>2, <2>3, SMT
<1>9. f \in 194..223 \/ f \in 224..239 \/ f \in 240..244
  BY SMT
<1> QED
  BY <1>6, <1>7, <1>8, <1>9, Zenon

----------------------------------------------------------------------------
(* What is read is exact. *)

\* Exact, of a character read from the bytes between two places.
ExactIn(bytes, c, from, to) ==
  \/ c = CODEPOINT_CRLF /\ SubSeq(bytes, from + 1, to) = <<CR, LF>>
  \/ IsSafe(c) /\ SubSeq(bytes, from + 1, to) = Encoding(c)
  \/ /\ c \in DOMAIN UnsafeLength
     /\ to - from = UnsafeLength[c]
     /\ ~EncodedAt(bytes, from + 1)

UnsafeThree == CODEPOINT_UNSAFE_3_BYTE_UTF8_SEQUENCE

LEMMA UnsafeLengths ==
  /\ \A n \in 0..2 : /\ IncompletePoints[n + 1] \in DOMAIN UnsafeLength
                    /\ UnsafeLength[IncompletePoints[n + 1]] = n + 1
  /\ UnsafeThree \in DOMAIN UnsafeLength
  /\ UnsafeLength[UnsafeThree] = 3
<1>1. /\ IncompletePoints[1] = -14 /\ IncompletePoints[2] = -15 /\ IncompletePoints[3] = -16
      /\ UnsafeThree = -16
  BY DEF IncompletePoints, UnsafeThree, CODEPOINT_UNSAFE_1_BYTE_UTF8_SEQUENCE,
         CODEPOINT_UNSAFE_2_BYTE_UTF8_SEQUENCE, CODEPOINT_UNSAFE_3_BYTE_UTF8_SEQUENCE
<1>2. UnsafeLength = [c \in {-14, -15, -16} |-> -13 - c]
  BY DEF UnsafeLength, CODEPOINT_UNSAFE_1_BYTE_UTF8_SEQUENCE,
         CODEPOINT_UNSAFE_2_BYTE_UTF8_SEQUENCE, CODEPOINT_UNSAFE_3_BYTE_UTF8_SEQUENCE
<1>3. UnsafeLength[-14] = 1 /\ UnsafeLength[-15] = 2 /\ UnsafeLength[-16] = 3
  BY <1>2
<1>4. DOMAIN UnsafeLength = {-14, -15, -16}
  BY <1>2
<1>5. ASSUME NEW n \in 0..2
      PROVE  /\ IncompletePoints[n + 1] \in DOMAIN UnsafeLength
             /\ UnsafeLength[IncompletePoints[n + 1]] = n + 1
  <2>1. n = 0 \/ n = 1 \/ n = 2
    OBVIOUS
  <2> QED
    BY <1>1, <1>3, <1>4, <2>1
<1> QED
  BY <1>1, <1>3, <1>4, <1>5

\* Where a sequence ends that begins with the byte before t.
LEMMA multiByteEnds ==
  ASSUME NEW t, Ahead(t), NEW f \in 194..244, NEW policy
  PROVE  LET W == Wanted(f)
             n == Found(t, f)
             p == Decoded(t, f)
             read == ByteDecoder_multiByte(t, f, policy)
         IN /\ read.s.buffer = t.buffer + n
            /\ n < W => read.c = IncompletePoints[n + 1]
            /\ n = W /\ (isStraySurrogate(p) \/ p = CODEPOINT_BOM) => read.c = UnsafeThree
            /\ n = W /\ ~isStraySurrogate(p) /\ p # CODEPOINT_BOM => read.c = p
<1> DEFINE W == Wanted(f)
           n == Found(t, f)
           p == Decoded(t, f)
           after == ByteBuffer_nextBytes(t, n)
           read == ByteDecoder_multiByte(t, f, policy)
           incomplete == ByteDecoder_incompleteSequence(after, n + 1)
           surrogate == ByteDecoder_straySurrogate(after)
           bom == ByteDecoder_bom(after)
           valid == ByteDecoder_validMB(after, p, policy)
<1>1. W \in 1..3 /\ n \in 0..W /\ Good(t)
  BY FoundBefore DEF Ahead
<1>2. n \in Nat /\ t.buffer \in Nat
  BY <1>1, Buffer
<1>3. Good(after) /\ after.buffer = t.buffer + n
  BY <1>1, <1>2, nextBytesFurther
<1>4. read = CASE n < W -> incomplete
               [] n = W /\ isStraySurrogate(p) -> surrogate
               [] n = W /\ p = CODEPOINT_BOM -> bom
               [] OTHER -> valid
  BY Zenon DEF ByteDecoder_multiByte
<1>5. \A u : Further(after, u, 0) => u.buffer = t.buffer + n
  <2>1. t.buffer + n + 0 = t.buffer + n
    BY <1>2
  <2> QED
    BY <1>3, <2>1 DEF Further
<1>6. {"INCOMPLETEUTF8SEQUENCE", "STRAYSURROGATE", "BOM"} \subseteq UnsafeFlags
  BY DEF UnsafeFlags
<1>7. incomplete.c = IncompletePoints[n + 1] /\ Further(after, incomplete.s, 0)
  BY <1>3, <1>6, UnsafeFurther DEF ByteDecoder_incompleteSequence
<1>8. surrogate.c = UnsafeThree /\ Further(after, surrogate.s, 0)
  BY <1>3, <1>6, UnsafeFurther DEF ByteDecoder_straySurrogate, UnsafeThree
<1>9. bom.c = UnsafeThree /\ Further(after, bom.s, 0)
  BY <1>3, <1>6, UnsafeFurther DEF ByteDecoder_bom, UnsafeThree
<1>10. valid.c = p /\ Further(after, valid.s, 0)
  BY <1>3, validMBFurther
<1>11. isStraySurrogate(p) => p # CODEPOINT_BOM
  BY SMT DEF isStraySurrogate, CODEPOINT_BOM
<1>12. n < W \/ n = W
  BY <1>1
<1>13. ~(n < W /\ n = W)
  BY <1>1
<1> SUFFICES /\ read.s.buffer = t.buffer + n
             /\ n < W => read.c = IncompletePoints[n + 1]
             /\ n = W /\ (isStraySurrogate(p) \/ p = CODEPOINT_BOM) => read.c = UnsafeThree
             /\ n = W /\ ~isStraySurrogate(p) /\ p # CODEPOINT_BOM => read.c = p
  BY Zenon
<1> HIDE DEF n, after, p, W, incomplete, surrogate, bom, valid, read
<1>14. CASE n < W
  <2>1. read = incomplete
    BY <1>4, <1>13, <1>14, Zenon
  <2> QED
    BY <1>5, <1>7, <1>13, <1>14, <2>1, Zenon
<1>15. CASE n = W /\ isStraySurrogate(p)
  <2>1. read = surrogate
    BY <1>4, <1>11, <1>13, <1>15, Zenon
  <2> QED
    BY <1>5, <1>8, <1>13, <1>15, <2>1, Zenon
<1>16. CASE n = W /\ ~isStraySurrogate(p) /\ p = CODEPOINT_BOM
  <2>1. read = bom
    BY <1>4, <1>13, <1>16, Zenon
  <2> QED
    BY <1>5, <1>9, <1>13, <1>16, <2>1, Zenon
<1>17. CASE n = W /\ ~isStraySurrogate(p) /\ p # CODEPOINT_BOM
  <2>1. read = valid
    BY <1>4, <1>13, <1>17, Zenon
  <2> QED
    BY <1>5, <1>10, <1>13, <1>17, <2>1, Zenon
<1> QED
  BY <1>12, <1>14, <1>15, <1>16, <1>17, Zenon

LEMMA multiByteExact ==
  ASSUME NEW t, Ahead(t), t.buffer > 0, NEW f \in 194..244, f = t.bytes[t.buffer], NEW policy
  PROVE  LET read == ByteDecoder_multiByte(t, f, policy)
         IN ExactIn(t.bytes, read.c, t.buffer - 1, read.s.buffer)
<1> DEFINE W == Wanted(f)
           p == Decoded(t, f)
           n == Found(t, f)
           bytes == t.bytes
           i == t.buffer
           read == ByteDecoder_multiByte(t, f, policy)
<1>1. /\ W \in 1..3 /\ n \in 0..W
      /\ n = W =>
           /\ IsPoint(p)
           /\ SubSeq(bytes, i, i + W) = Encoding(p)
           /\ isStraySurrogate(p) \/ p = CODEPOINT_BOM => W = 2
      /\ EncodedAt(bytes, i) => n = W /\ IsSafe(p)
  BY WholeSequence, ZenonT(30)
<1>2. /\ read.s.buffer = i + n
      /\ n < W => read.c = IncompletePoints[n + 1]
      /\ n = W /\ (isStraySurrogate(p) \/ p = CODEPOINT_BOM) => read.c = UnsafeThree
      /\ n = W /\ ~isStraySurrogate(p) /\ p # CODEPOINT_BOM => read.c = p
  BY multiByteEnds, SMTT(30)
<1>3. i \in Nat /\ i - 1 + 1 = i
  <2>1. i \in Nat
    BY Buffer, Zenon DEF Ahead
  <2> QED
    BY <2>1, SMT
<1> SUFFICES ExactIn(bytes, read.c, i - 1, read.s.buffer)
  BY Zenon
<1> HIDE DEF W, p, n, bytes, i, read
<1>4. CASE n < W
  <2>1. n \in 0..2
    BY <1>1, <1>4, SMT
  <2>2. read.c \in DOMAIN UnsafeLength /\ UnsafeLength[read.c] = n + 1
    BY <1>2, <1>4, <2>1, UnsafeLengths, Zenon
  <2>3. (i + n) - (i - 1) = n + 1
    BY <1>3, <2>1, SMT
  <2>4. n # W
    BY <1>1, <1>4, SMT
  <2> QED
    <3>1. read.s.buffer - (i - 1) = UnsafeLength[read.c]
      BY <1>2, <2>2, <2>3, Zenon
    <3>2. ~EncodedAt(bytes, i - 1 + 1)
      BY <1>1, <1>3, <2>4, Zenon
    <3> QED
      BY <2>2, <3>1, <3>2, Zenon DEF ExactIn
<1>5. CASE n = W /\ (isStraySurrogate(p) \/ p = CODEPOINT_BOM)
  <2>1. n = 2 /\ read.c = UnsafeThree /\ ~IsSafe(p)
    <3>1. IsSafe(p) => ~isStraySurrogate(p) /\ p # CODEPOINT_BOM
      BY SMT DEF IsSafe, IsScalar
    <3> QED
      BY <1>1, <1>2, <1>5, <3>1, Zenon
  <2>2. (i + n) - (i - 1) = 3
    BY <1>3, <2>1, SMT
  <2> QED
    <3>1. read.s.buffer - (i - 1) = UnsafeLength[read.c] /\ read.c \in DOMAIN UnsafeLength
      BY <1>2, <2>1, <2>2, UnsafeLengths, Zenon
    <3>2. ~EncodedAt(bytes, i - 1 + 1)
      BY <1>1, <1>3, <2>1, Zenon
    <3> QED
      BY <3>1, <3>2, Zenon DEF ExactIn
<1>6. CASE n = W /\ ~isStraySurrogate(p) /\ p # CODEPOINT_BOM
  <2>1. IsSafe(p)
    BY <1>1, <1>6, SMT DEF IsSafe, IsScalar, IsPoint
  <2> QED
    BY <1>1, <1>2, <1>3, <1>6, <2>1, Zenon DEF ExactIn
<1>7. n < W \/ n = W
  BY <1>1, SMT
<1> QED
  BY <1>4, <1>5, <1>6, <1>7, Zenon

\* A byte of its own is a character if it is ASCII, and else encodes none.
LEMMA SingleByte ==
  ASSUME NEW s, Ahead(s)
  PROVE  LET b == ByteBuffer_currentByte(s)
         IN /\ b < 128 => ExactIn(s.bytes, b, s.buffer, s.buffer + 1)
            /\ ~(b < 128) /\ b \notin 194..244 => ~EncodedAt(s.bytes, s.buffer + 1)
<1> DEFINE bytes == s.bytes
           i == s.buffer + 1
           b == ByteBuffer_currentByte(s)
<1>1. bytes \in Seq(Byte) /\ s.buffer \in Nat /\ i \in 1..Len(bytes)
  <2>1. bytes \in Seq(Byte) /\ s.buffer \in Nat /\ s.buffer < Len(bytes)
    BY Buffer, Zenon DEF Ahead, end
  <2> QED
    BY <2>1, SMT
<1>2. b = bytes[i] /\ b \in Byte
  BY OneByte, Zenon DEF ByteBuffer_currentByte
<1> SUFFICES /\ b < 128 => ExactIn(bytes, b, s.buffer, i)
             /\ ~(b < 128) /\ b \notin 194..244 => ~EncodedAt(bytes, i)
  BY Zenon
<1> HIDE DEF b, bytes
<1>3. ASSUME b < 128 PROVE ExactIn(bytes, b, s.buffer, i)
  <2>1. IsSafe(b)
    <3>1. b \in Nat
      BY <1>2, SMT DEF Byte
    <3>2. b < 2048 /\ b =< 1114111
      BY <1>3, <3>1, SMT
    <3> QED
      BY <3>1, <3>2, FarFromSpecial, SMT DEF IsSafe, IsScalar
  <2>2. Encoding(b) = <<b>>
    BY <1>2, <1>3, SMT DEF Byte, Encoding
  <2>3. SubSeq(bytes, i, i) = <<b>>
    BY <1>1, <1>2, Slices, Zenon
  <2> QED
    BY <2>1, <2>2, <2>3, Zenon DEF ExactIn
<1>4. ASSUME ~(b < 128), b \notin 194..244, EncodedAt(bytes, i) PROVE FALSE
  <2>1. \/ IsTwo(b, bytes[i + 1])
        \/ IsThree(b, bytes[i + 1], bytes[i + 2])
        \/ IsFour(b, bytes[i + 1], bytes[i + 2], bytes[i + 3])
    <3> HIDE DEF i
    <3> QED
      BY <1>1, <1>2, <1>4, EncodedShape, Zenon
  <2> HIDE DEF i
  <2> QED
    BY <1>4, <2>1, SMT DEF IsTwo, IsThree, IsFour
<1> QED
  BY <1>3, <1>4, Zenon

LEMMA FurtherBuffer ==
  ASSUME NEW s, Good(s), NEW u, Further(s, u, 0)
  PROVE  u.buffer = s.buffer
<1>1. s.buffer \in Nat
  BY Buffer
<1> QED
  BY <1>1 DEF Further

LEMMA CarriageReturnExact ==
  ASSUME NEW s, Ahead(s), ByteBuffer_currentByte(s) = CR, NEW policy
  PROVE  LET read == CarriageReturn(ByteBuffer_nextByte(s), policy)
         IN ExactIn(s.bytes, read.c, s.buffer, read.s.buffer)
<1> DEFINE t == ByteBuffer_nextByte(s)
           read == CarriageReturn(t, policy)
<1>1. Ahead(t) /\ t.bytes = s.bytes /\ t.buffer = s.buffer + 1 /\ Good(t)
  <2>1. ByteBuffer_currentByte(s) # Sentinel
    BY DEF CR, Sentinel
  <2> QED
    BY <2>1, OneByte DEF Ahead
<1>2. s.bytes \in Seq(Byte) /\ s.buffer \in Nat /\ end(s) \in Nat
  BY Buffer DEF Ahead
<1>3. CASE ByteBuffer_currentByte(t) = LF
  <2> DEFINE u == ByteBuffer_nextByte(t)
  <2>1. ByteBuffer_currentByte(t) # Sentinel
    BY <1>3 DEF LF, Sentinel
  <2>2. Good(u) /\ u.buffer = t.buffer + 1
    BY <1>1, <2>1, OneByte
  <2>3. read = [c |-> CODEPOINT_CRLF, s |-> windowsNewline(u)]
    BY <1>3, Zenon DEF CarriageReturn
  <2>4. windowsNewline(u).buffer = u.buffer
    BY <2>2, windowsNewlineFurther, FurtherBuffer
  <2>5. read.c = CODEPOINT_CRLF /\ read.s.buffer = s.buffer + 2
    <3>1. s.buffer + 1 + 1 = s.buffer + 2
      BY <1>2
    <3> QED
      BY <1>1, <2>2, <2>3, <2>4, <3>1
  <2>6. SubSeq(s.bytes, s.buffer + 1, s.buffer + 2) = <<CR, LF>>
    <3> DEFINE i == s.buffer + 1
    <3>1. i \in 1..Len(s.bytes) /\ i + 1 =< Len(s.bytes) /\ s.buffer + 2 = i + 1
      BY <1>1, <1>2 DEF Ahead, end
    <3>2. s.bytes[i] = CR /\ s.bytes[i + 1] = LF
      BY <1>1, <1>2, <1>3 DEF ByteBuffer_currentByte
    <3> HIDE DEF i
    <3>3. SubSeq(s.bytes, i, i + 1) = <<s.bytes[i], s.bytes[i + 1]>>
      BY <1>2, <3>1, Slices, Zenon
    <3> QED
      BY <3>1, <3>2, <3>3, Zenon DEF i
  <2> QED
    BY <2>5, <2>6, Zenon DEF ExactIn
<1>4. CASE ByteBuffer_currentByte(t) # LF
  <2> DEFINE after == newline(t)
             I == Issue("UNEXPECTEDCARRIAGERETURN", "WARNING",
                        Source(after.SrcLoc, after.SrcLoc))
  <2>1. Good(after) /\ after.buffer = t.buffer
    BY <1>1, newlineFurther, FurtherBuffer DEF Further
  <2>2. "UNEXPECTEDCARRIAGERETURN" \in IssueTags /\ "WARNING" \in Severities
    BY DEF IssueTags, Severities
  <2>3. addIssue(after, I).buffer = after.buffer
    BY <2>1, <2>2, Locations, IssueHere DEF Same
  <2>4. read.c = CR /\ (read.s = after \/ read.s = addIssue(after, I))
    BY <1>4 DEF CarriageReturn
  <2>5. read.c = CR /\ read.s.buffer = s.buffer + 1
    BY <1>1, <2>1, <2>3, <2>4
  <2>6. CR < 128
    BY DEF CR
  <2> QED
    BY <2>5, <2>6, SingleByte
<1> QED
  BY <1>3, <1>4

LEMMA UncommonExact ==
  ASSUME NEW s, Ahead(s), NEW policy,
         ByteDecoder_nextSourceCharacter_uncommon(s, policy).c # CODEPOINT_ENDOFFILE,
         ~IsPrintable(ByteBuffer_currentByte(s)), ByteBuffer_currentByte(s) # LF
  PROVE  LET read == ByteDecoder_nextSourceCharacter_uncommon(s, policy)
         IN ExactIn(s.bytes, read.c, s.buffer, read.s.buffer)
<1> DEFINE b == ByteBuffer_currentByte(s)
           t == ByteBuffer_nextByte(s)
           read == ByteDecoder_nextSourceCharacter_uncommon(s, policy)
           control == b \in (0..31) \ {TAB, LF, CR} \/ b = 127
           begins == b \in 194..244
           ends == b = Sentinel /\ IsSentinel(t)
<1>1. read = CASE b = TAB -> [c |-> TAB, s |-> tab(t)]
               [] b = CR -> CarriageReturn(t, policy)
               [] control -> ByteDecoder_validStrange(t, b, policy)
               [] begins -> ByteDecoder_multiByte(t, b, policy)
               [] ends -> [c |-> CODEPOINT_ENDOFFILE, s |-> t]
               [] OTHER -> ByteDecoder_incompleteSequence(t, 1)
  BY Zenon DEF ByteDecoder_nextSourceCharacter_uncommon
<1>2. /\ b = TAB => b # CR /\ ~control /\ ~begins /\ ~ends
      /\ b = CR => ~control /\ ~begins /\ ~ends
      /\ control => ~begins /\ ~ends
      /\ begins => ~ends
  BY DEF TAB, LF, CR, Sentinel
<1>3. b \in Byte
  BY OneByte
<1>4. /\ b = TAB \/ b = CR \/ control => b < 128
      /\ b # TAB /\ b # CR /\ ~control => ~(b < 128)
  BY <1>3 DEF Byte, TAB, LF, CR, IsPrintable
<1>5. ~ends
  <2>1. ends => read.c = CODEPOINT_ENDOFFILE
    <3> HIDE DEF control, begins, ends, b, t, read
    <3> SUFFICES ASSUME ends PROVE read.c = CODEPOINT_ENDOFFILE
      OBVIOUS
    <3>1. read = [c |-> CODEPOINT_ENDOFFILE, s |-> t]
      BY <1>1, <1>2, Zenon
    <3> QED
      BY <3>1
  <2> QED
    BY <2>1
<1>6. Ahead(t) /\ Good(t) /\ t.bytes = s.bytes /\ t.buffer = s.buffer + 1
  BY <1>5, OneByte DEF Ahead
<1>7. s.buffer \in Nat
  BY Buffer DEF Ahead
<1> HIDE DEF control, begins, ends
<1>8. CASE b = TAB
  <2>1. read = [c |-> TAB, s |-> tab(t)]
    BY <1>1, <1>2, <1>8, Zenon
  <2>2. read.c = b /\ read.s.buffer = s.buffer + 1
    BY <1>6, <1>8, <2>1, tabFurther, FurtherBuffer
  <2> QED
    BY <1>4, <1>8, <2>2, SingleByte
<1>9. CASE b = CR
  <2>1. read = CarriageReturn(t, policy)
    BY <1>1, <1>2, <1>9, Zenon
  <2> QED
    BY <1>9, <2>1, CarriageReturnExact
<1>10. CASE control
  <2>1. read = ByteDecoder_validStrange(t, b, policy)
    BY <1>1, <1>2, <1>10, Zenon
  <2>2. read.c = b /\ read.s.buffer = s.buffer + 1
    BY <1>6, <2>1, validStrangeFurther, FurtherBuffer
  <2> QED
    BY <1>4, <1>10, <2>2, SingleByte
<1>11. CASE begins
  <2>1. read = ByteDecoder_multiByte(t, b, policy)
    BY <1>1, <1>2, <1>11, Zenon
  <2>2. t.buffer > 0 /\ t.buffer - 1 = s.buffer
    BY <1>6, <1>7
  <2>3. b = t.bytes[t.buffer]
    BY <1>6 DEF ByteBuffer_currentByte
  <2> QED
    BY <1>6, <1>11, <2>1, <2>2, <2>3, multiByteExact, Zenon DEF begins
<1>12. CASE b # TAB /\ b # CR /\ ~control /\ ~begins
  <2>1. read = ByteDecoder_incompleteSequence(t, 1)
    BY <1>1, <1>5, <1>12, Zenon
  <2>2. "INCOMPLETEUTF8SEQUENCE" \in UnsafeFlags
    BY DEF UnsafeFlags
  <2>3. read.c = IncompletePoints[1] /\ Further(t, read.s, 0)
    BY <1>6, <2>1, <2>2, UnsafeFurther DEF ByteDecoder_incompleteSequence
  <2>4. read.s.buffer = s.buffer + 1
    BY <1>6, <2>3, FurtherBuffer
  <2>5. read.c \in DOMAIN UnsafeLength /\ UnsafeLength[read.c] = 1
    <3>1. 0 \in 0..2 /\ 0 + 1 = 1
      OBVIOUS
    <3> QED
      BY <2>3, <3>1, UnsafeLengths, Zenon
  <2>6. read.s.buffer - s.buffer = 1
    BY <1>7, <2>4
  <2>7. ~EncodedAt(s.bytes, s.buffer + 1)
    BY <1>4, <1>12, SingleByte DEF begins
  <2> QED
    BY <2>5, <2>6, <2>7, Zenon DEF ExactIn
<1> QED
  BY <1>8, <1>9, <1>10, <1>11, <1>12

\* Whatever the bytes are, what is read is what they encode.
LEMMA NextIsExact ==
  ASSUME NEW s, Ahead(s), NEW policy,
         ByteDecoder_nextSourceCharacter(s, policy).c # CODEPOINT_ENDOFFILE
  PROVE  LET read == ByteDecoder_nextSourceCharacter(s, policy)
         IN ExactIn(s.bytes, read.c, s.buffer, read.s.buffer)
<1> DEFINE b == ByteBuffer_currentByte(s)
           t == ByteBuffer_nextByte(s)
           read == ByteDecoder_nextSourceCharacter(s, policy)
<1>1. CASE IsPrintable(b) \/ b = LF
  <2>1. b # Sentinel /\ b < 128
    BY <1>1 DEF IsPrintable, LF, Sentinel
  <2>2. Good(t) /\ t.buffer = s.buffer + 1
    BY <2>1, OneByte
  <2>3. increment(t).buffer = s.buffer + 1 /\ newline(t).buffer = s.buffer + 1
    BY <2>2, incrementFurther, newlineFurther, FurtherBuffer
  <2>4. read.c = b /\ (read.s = increment(t) \/ read.s = newline(t))
    <3>1. ~(IsPrintable(b) /\ b = LF)
      BY DEF IsPrintable, LF
    <3>2. \/ IsPrintable(b) /\ read = [c |-> b, s |-> increment(t)]
          \/ b = LF /\ read = [c |-> LF, s |-> newline(t)]
      <4> HIDE DEF b
      <4> QED
        BY <1>1, <3>1, Zenon DEF ByteDecoder_nextSourceCharacter, b
    <3> QED
      BY <3>2
  <2> QED
    BY <2>1, <2>3, <2>4, SingleByte
<1>2. CASE ~IsPrintable(b) /\ b # LF
  <2>1. read = ByteDecoder_nextSourceCharacter_uncommon(s, policy)
    BY <1>2, Zenon DEF ByteDecoder_nextSourceCharacter
  <2> QED
    BY <1>2, <2>1, UncommonExact
<1> QED
  BY <1>1, <1>2

----------------------------------------------------------------------------
(* The last character of the history.                                      *)

LastExact(C, bytes) ==
  C # <<>> => LET ch == C[Len(C)] IN ExactIn(bytes, ch.c, ch.from, ch.to)

LEMMA InitExact == Init => DecodingIsExact
BY DEF Init, DecodingIsExact

LEMMA StepExact == IInv /\ IInv' /\ DecodingIsExact /\ [Next]_vars => DecodingIsExact'
<1> SUFFICES ASSUME IInv, IInv', DecodingIsExact, [Next]_vars PROVE DecodingIsExact'
  OBVIOUS
<1> DEFINE read == ByteDecoder_nextSourceCharacter(session, TOPLEVEL)
<1>1. /\ DecodingIsExact <=> LastExact(chars, session.bytes)
      /\ DecodingIsExact' <=> LastExact(chars', session'.bytes)
  BY Zenon DEF DecodingIsExact, Exact, LastExact, ExactIn, BytesOf, IsUnsafe
<1>2. CASE safeString_read
  <2> DEFINE new == [c |-> read.c, from |-> session.buffer, to |-> read.s.buffer,
                     Src |-> Source(session.SrcLoc, read.s.SrcLoc)]
  <2>1. /\ result = NoResult /\ read.c # CODEPOINT_ENDOFFILE /\ session' = read.s
        /\ chars' = Append(chars, new)
    BY <1>2, Zenon DEF safeString_read
  <2>2. Ahead(session)
    BY <2>1, StillAhead
  <2>3. session'.bytes = session.bytes
    <3>1. ReadsOn(session, read)
      BY <2>1, <2>2, NextCharacter DEF Reads
    <3> QED
      BY <2>1, <3>1 DEF ReadsOn, Further
  <2>4. ExactIn(session.bytes, read.c, session.buffer, read.s.buffer)
    BY <2>1, <2>2, NextIsExact
  <2> HIDE DEF read
  <2>5. new.c = read.c /\ new.from = session.buffer /\ new.to = read.s.buffer
    OBVIOUS
  <2> HIDE DEF new
  <2>6. chars' # <<>> /\ chars'[Len(chars')] = new
    <3>1. chars \in Seq(CharactersRead) /\ chars' \in Seq(CharactersRead)
      BY DEF IInv
    <3>2. Len(chars') = Len(chars) + 1 /\ chars'[Len(chars) + 1] = new
      BY <2>1, <3>1
    <3> QED
      BY <3>1, <3>2
  <2> QED
    BY <1>1, <2>3, <2>4, <2>5, <2>6, Zenon DEF LastExact
<1>3. CASE safeString_return
  <2>1. /\ result = NoResult /\ session' = read.s /\ read.c = CODEPOINT_ENDOFFILE
        /\ chars' = chars
    BY <1>3, Zenon DEF safeString_return
  <2>2. session'.bytes = session.bytes
    <3>1. Ahead(session)
      BY <2>1, StillAhead
    <3>2. Reads(session, read)
      BY <3>1, NextCharacter
    <3> QED
      BY <2>1, <3>2 DEF Reads, ReadsOn, IsCharacter
  <2> QED
    BY <1>1, <2>1, <2>2, Zenon
<1>4. CASE UNCHANGED vars
  BY <1>1, <1>4, Zenon DEF vars
<1> QED
  BY <1>2, <1>3, <1>4 DEF Next, Terminated

(* Whatever bytes a source has, a character that was read is the one that   *)
(* its bytes are the UTF-8 encoding of, and where the decoder calls bytes   *)
(* unsafe no safe character is encoded.                                     *)
THEOREM DecodingExactly == Spec => []DecodingIsExact
<1> QED
  BY InitExact, StepExact, SpecIInv, PTL DEF Spec

=============================================================================
