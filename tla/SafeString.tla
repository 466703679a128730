------------------------------ MODULE SafeString ------------------------------
(***************************************************************************)
(* ParserSession::safeString: read all source characters to find out       *)
(* whether the bytes are safe to be shown as a string.  It drives the byte *)
(* decoder over a whole source, and the properties here are about the byte *)
(* decoder.                                                                *)
(***************************************************************************)
EXTENDS ByteDecoder

CONSTANTS Sources,       \* the byte sequences that are read, without sentinel
          SessionOptions \* the options that a session can have

ASSUME SourcesAssumption == Sources \subseteq Seq(Byte)
ASSUME SessionOptionsAssumption == SessionOptions \subseteq Options

VARIABLES session,  \* the session
          chars,    \* the characters read, and where
          result    \* <<what safeString has returned>>, or NoResult

vars == <<session, chars, result>>

NoResult == <<>>

Init ==
  /\ \E Buf \in Sources, opts \in SessionOptions, sentinel \in BOOLEAN :
       session = init(IF sentinel THEN Append(Buf, Sentinel) ELSE Buf, sentinel, opts)
  /\ chars = <<>>
  /\ result = NoResult

\* One round of the loop.  What is read here is history for the properties.
safeString_read ==
  /\ result = NoResult
  /\ LET read == ByteDecoder_nextSourceCharacter(session, TOPLEVEL)
     IN /\ read.c # CODEPOINT_ENDOFFILE
        /\ session' = read.s
        /\ chars' = Append(chars, [c |-> read.c,
                                   from |-> session.buffer, to |-> read.s.buffer,
                                   Src |-> Source(session.SrcLoc, read.s.SrcLoc)])
  /\ UNCHANGED result

\* The loop ends: the bytes without the sentinel, if they are safe.
safeString_return ==
  /\ result = NoResult
  /\ LET read == ByteDecoder_nextSourceCharacter(session, TOPLEVEL)
     IN /\ read.c = CODEPOINT_ENDOFFILE
        /\ session' = read.s
        /\ result' = <<IF read.s.unsafeCharacterEncodingFlag # "OK"
                        THEN read.s.unsafeCharacterEncodingFlag
                        ELSE SubSeq(read.s.bytes, 1, end(read.s) - 1)>>
  /\ UNCHANGED chars

Terminated ==
  /\ result # NoResult
  /\ UNCHANGED vars

Next == safeString_read \/ safeString_return \/ Terminated

Spec == Init /\ [][Next]_vars

----------------------------------------------------------------------------
(* UTF-8 as its encoder defines it, for comparison with the decoder. *)

\* The characters that a source can have.
IsScalar(point) == point \in Nat /\ point =< 1114111 /\ ~isStraySurrogate(point)
IsSafe(point) == IsScalar(point) /\ point # CODEPOINT_BOM

Encoding(point) ==
  CASE point < 128 -> <<point>>
    [] 128 =< point /\ point < 2048 -> <<192 + (point \div 64), 128 + (point % 64)>>
    [] 2048 =< point /\ point < 65536 ->
         <<224 + (point \div 4096), 128 + ((point \div 64) % 64), 128 + (point % 64)>>
    [] OTHER ->
         <<240 + (point \div 262144), 128 + ((point \div 4096) % 64),
           128 + ((point \div 64) % 64), 128 + (point % 64)>>

\* The bytes of the character that was read.
BytesOf(ch) == SubSeq(session.bytes, ch.from + 1, ch.to)

\* The only point that a sequence of n bytes from a place could be the encoding of.
PointAt(bytes, i, n) ==
  CASE n = 1 -> bytes[i]
    [] n = 2 -> (bytes[i] - 192) * 64 + bytes[i + 1] - 128
    [] n = 3 -> (bytes[i] - 224) * 4096 + (bytes[i + 1] - 128) * 64 + bytes[i + 2] - 128
    [] n = 4 -> (bytes[i] - 240) * 262144 + (bytes[i + 1] - 128) * 4096
                  + (bytes[i + 2] - 128) * 64 + bytes[i + 3] - 128

\* Some character is encoded from place i on.
EncodedAt(bytes, i) ==
  \E n \in 1..4 :
     /\ i + n - 1 =< Len(bytes)
     /\ IsSafe(PointAt(bytes, i, n))
     /\ SubSeq(bytes, i, i + n - 1) = Encoding(PointAt(bytes, i, n))

UnsafeLength ==
  [c \in {CODEPOINT_UNSAFE_1_BYTE_UTF8_SEQUENCE, CODEPOINT_UNSAFE_2_BYTE_UTF8_SEQUENCE,
          CODEPOINT_UNSAFE_3_BYTE_UTF8_SEQUENCE} |-> -13 - c]

IsUnsafe(ch) == ch.c \in DOMAIN UnsafeLength

Exact(ch) ==
  \/ ch.c = CODEPOINT_CRLF /\ BytesOf(ch) = <<CR, LF>>
  \/ IsSafe(ch.c) /\ BytesOf(ch) = Encoding(ch.c)
  \/ /\ IsUnsafe(ch)
     /\ ch.to - ch.from = UnsafeLength[ch.c]
     /\ ~EncodedAt(session.bytes, ch.from + 1)

----------------------------------------------------------------------------
(* Properties. *)

(* The decoder, which trusts the sentinel and has no other check, reads no *)
(* byte behind it, and takes no byte of the source for it.                 *)
EndNeverPassed ==
  /\ result = NoResult => session.buffer < end(session)
  /\ session.buffer =< end(session)
  /\ result # NoResult => session.buffer = end(session)

(* A character that was read is the one that its bytes encode: UTF-8       *)
(* encoded again it gives the same bytes, so overlong sequences,           *)
(* surrogates and points above U+10FFFF were not taken.  A character       *)
(* called unsafe has the length its code point says, and no character is   *)
(* encoded in its place.                                                   *)
DecodingIsExact == chars # <<>> => Exact(chars[Len(chars)])

(* Each character has a source location of its own, in the order of the    *)
(* source: issues and line continuations are told apart by nothing else.   *)
LocationsIncrease ==
  \A i \in 1..Len(chars) : Before(chars[i].Src.Start, chars[i].Src.End)

(* A result withheld as unsafe has a fatal issue that says where, for each *)
(* unsafe character up to the limit, and without an unsafe character       *)
(* nothing is withheld.                                                    *)
UnsafeIsReported ==
  LET unsafe == {i \in 1..Len(chars) : IsUnsafe(chars[i])}
  IN /\ (session.unsafeCharacterEncodingFlag = "OK") <=> (unsafe = {})
     /\ \A i \in unsafe :
          \/ Len(session.fatalIssues) = MaxFatalIssues
          \/ \E j \in 1..Len(session.fatalIssues) :
               session.fatalIssues[j].Src = chars[i].Src
     /\ \A j \in 1..Len(session.fatalIssues) :
          \E i \in unsafe : session.fatalIssues[j].Src = chars[i].Src
     /\ Len(session.fatalIssues) =< MaxFatalIssues

(* Reading a character, giving it back and reading it again leaves the     *)
(* session as reading it once, so that looking ahead changes nothing.      *)
ReadingAgainChangesNothing ==
  result = NoResult =>
    LET read == ByteDecoder_nextSourceCharacter(session, TOPLEVEL)
    IN ByteDecoder_nextSourceCharacter(Reset(read.s, session), TOPLEVEL) = read

=============================================================================
