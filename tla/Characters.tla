----------------------------- MODULE Characters -----------------------------
(***************************************************************************)
(* Code points and the classes of characters.  A WLCharacter is a code     *)
(* point and the way it was escaped; the classes look at the code point.   *)
(* Of the thousand long names a few of each kind stand for the others.     *)
(***************************************************************************)
EXTENDS Integers, Sequences

\* The code of a printable character, so that it can be written down.  A string
\* cannot hold the backquote: another character stands in its place.
Backquote == 96
Printable ==
  " !\"#$%&'()*+,-./0123456789:;<=>?@ABCDEFGHIJKLMNOPQRSTUVWXYZ[\\]^_?abcdefghijklmnopqrstuvwxyz{|}~"
PrintablePlaces == (1..95) \ {Backquote - 31}
Code ==
  [ch \in {SubSeq(Printable, i, i) : i \in PrintablePlaces} |->
     31 + CHOOSE i \in PrintablePlaces : SubSeq(Printable, i, i) = ch]

Codes(text) == [i \in 1..Len(text) |-> Code[SubSeq(text, i, i)]]

TAB == 9
LF == 10
VT == 11
FF == 12
CR == 13
DEL == 127
BEL == 7
ESC == 27

CODEPOINT_ENDOFFILE == -1
CODEPOINT_LINEARSYNTAX_SPACE == -3
CODEPOINT_STRINGMETA_OPEN == -4
CODEPOINT_STRINGMETA_CLOSE == -5
CODEPOINT_STRINGMETA_DOUBLEQUOTE == -6
CODEPOINT_STRINGMETA_BACKSLASH == -7
CODEPOINT_STRINGMETA_BACKSPACE == -8
CODEPOINT_STRINGMETA_FORMFEED == -9
CODEPOINT_STRINGMETA_LINEFEED == -10
CODEPOINT_STRINGMETA_CARRIAGERETURN == -11
CODEPOINT_STRINGMETA_TAB == -12
CODEPOINT_CRLF == -13
CODEPOINT_UNSAFE_1_BYTE_UTF8_SEQUENCE == -14
CODEPOINT_UNSAFE_2_BYTE_UTF8_SEQUENCE == -15
CODEPOINT_UNSAFE_3_BYTE_UTF8_SEQUENCE == -16
CODEPOINT_LINECONTINUATION_LINEFEED == -17
CODEPOINT_LINECONTINUATION_CARRIAGERETURN == -18
CODEPOINT_LINECONTINUATION_CRLF == -19
CODEPOINT_BOM == 65279                                          \* U+FEFF

\* Private code points of the linear syntax, by the character that is escaped.
LinearSyntax ==
  [point \in {Code[ch] : ch \in {")", "!", "@", "%", "^", "&", "*", "(", "_", "+", "/", " "}}
             \union {Backquote} |->
     CASE point = Code[")"] -> 63424  [] point = Code["!"] -> 63425
       [] point = Code["@"] -> 63426  [] point = Code["%"] -> 63429
       [] point = Code["^"] -> 63430  [] point = Code["&"] -> 63431
       [] point = Code["*"] -> 63432  [] point = Code["("] -> 63433
       [] point = Code["_"] -> 63434  [] point = Code["+"] -> 63435
       [] point = Code["/"] -> 63436  [] point = Backquote -> 63437
       [] point = Code[" "] -> CODEPOINT_LINEARSYNTAX_SPACE]

WLCharacter(point, escape) == [point |-> point, escape |-> escape]

----------------------------------------------------------------------------
(* Classes of single-byte characters. *)

IsPrintable(point) == point \in 32..126
isUpper(point) == point \in 65..90
isAlpha(point) == point \in (65..90) \union (97..122)
isDigit(point) == point \in 48..57
isAlphaOrDigit(point) == isAlpha(point) \/ isDigit(point)
isHex(point) == point \in (48..57) \union (65..70) \union (97..102)
isOctal(point) == point \in 48..55
isSign(point) == point \in {Code["-"], Code["+"]}
isWhitespace(point) == point \in {Code[" "], TAB, VT, FF}
isStrangeWhitespace(point) == point \in {VT, FF}

isLetterlike(point) ==
  \/ isAlpha(point)
  \/ point = Code["$"]
  \/ point \in (0..31) \ {BEL, TAB, LF, VT, FF, CR}
isStrangeLetterlike(point) == isLetterlike(point) /\ point \in 0..31

\* The value of a digit in a base up to 36.
toDigit(point) ==
  CASE isDigit(point) -> point - 48
    [] isUpper(point) -> point - 55
    [] isAlpha(point) /\ ~isUpper(point) -> point - 87

----------------------------------------------------------------------------
(* Long names, and the classes of multi-byte characters. *)

LongNames ==
  {[name |-> Codes("Pi"),           point |-> 960,   class |-> "NotStrangeLetterlike"],
   [name |-> Codes("SZ"),           point |-> 223,   class |-> "Letterlike"],
   [name |-> Codes("And"),          point |-> 8743,  class |-> "Punctuation"],
   [name |-> Codes("Or"),           point |-> 8744,  class |-> "Punctuation"],
   [name |-> Codes("Integral"),     point |-> 8747,  class |-> "Punctuation"],
   [name |-> Codes("DifferentialD"),        point |-> 63308, class |-> "Punctuation"],
   [name |-> Codes("CapitalDifferentialD"), point |-> 63307, class |-> "Punctuation"],
   [name |-> Codes("InvisibleComma"),       point |-> 63333, class |-> "Punctuation"],
   [name |-> Codes("ImplicitPlus"),         point |-> 62366, class |-> "Punctuation"],
   [name |-> Codes("RawEscape"),    point |-> 27,    class |-> "Raw"],
   [name |-> Codes("RawBackslash"), point |-> 92,    class |-> "Raw"],
   [name |-> Codes("RawTab"),       point |-> 9,     class |-> "Raw"],
   [name |-> Codes("NewLine"),      point |-> 10,    class |-> "Raw"],
   [name |-> Codes("RawPlus"),      point |-> 43,    class |-> "Raw"],
   [name |-> Codes("NoBreak"),      point |-> 8288,  class |-> "Whitespace"],
   [name |-> Codes("ParagraphSeparator"), point |-> 8233, class |-> "Newline"],
   [name |-> Codes("ErrorIndicator"),     point |-> 63335, class |-> "Uninterpretable"]}

LongNameFound(name) == \E L \in LongNames : L.name = name
LongNameEntry(name) == CHOOSE L \in LongNames : L.name = name
PointsOfClass(class) == {L.point : L \in {M \in LongNames : M.class = class}}

isMBPunctuation(point) == point \in PointsOfClass("Punctuation")
isMBUninterpretable(point) == point \in PointsOfClass("Uninterpretable")
isMBNewline(point) == point \in PointsOfClass("Newline") \union {CODEPOINT_CRLF}
isMBStrangeNewline(point) == isMBNewline(point) /\ point # CODEPOINT_CRLF

\* U+F3A2 is whitespace though its long name is not supported.
isMBWhitespace(point) ==
  point \in {160, 8197, 8201, 8202, 8287, 8288, 9251, 62304, 62336, 62338,
             62339, 62340, 62370, 62381, 62385, 62386, 62397, 62398, 62399, 62406, 63328}
isMBStrangeWhitespace(point) == isMBWhitespace(point)

isMBLinearSyntax(point) == \E p \in DOMAIN LinearSyntax : LinearSyntax[p] = point
isMBStringMeta(point) == point \in CODEPOINT_STRINGMETA_TAB..CODEPOINT_STRINGMETA_OPEN
isMBLineContinuation(point) ==
  point \in CODEPOINT_LINECONTINUATION_CRLF..CODEPOINT_LINECONTINUATION_LINEFEED
isMBUnsafeUTF8Sequence(point) ==
  point \in CODEPOINT_UNSAFE_3_BYTE_UTF8_SEQUENCE..CODEPOINT_UNSAFE_1_BYTE_UTF8_SEQUENCE

\* What is nothing else is letterlike.
isMBLetterlike(point) ==
  /\ point \notin 0..127
  /\ point # CODEPOINT_ENDOFFILE
  /\ ~isMBPunctuation(point)
  /\ ~isMBLineContinuation(point)
  /\ ~isMBLinearSyntax(point)
  /\ ~isMBStringMeta(point)
  /\ ~isMBWhitespace(point)
  /\ ~isMBNewline(point)
  /\ ~isMBUninterpretable(point)
  /\ ~isMBUnsafeUTF8Sequence(point)

IsLetterlike(point) == isLetterlike(point) \/ isMBLetterlike(point)
isMBStrangeLetterlike(point) ==
  isMBLetterlike(point) /\ point \notin PointsOfClass("NotStrangeLetterlike")

\* Characters that are well-formed but seldom meant: control characters but ESC; zero
\* width characters, curly quotes, arrows, invisible operators and U+80 to U+9F.
isStrange(point) == point \in ((0..31) \ {TAB, LF, CR, ESC}) \union {DEL}
isMBStrange(point) ==
  \/ point \in {8203, 8204, 8205,                     \* U+200B U+200C U+200D
                8216, 8217, 8220, 8221,               \* curly quotes
                8289, 8291, 8292,                     \* U+2061 U+2063 U+2064
                8594, 10141, 10740,                   \* arrows, U+29F4
                62370, 63341}                         \* U+F3A2, U+F76D
  \/ point \in 128..159

isStraySurrogate(point) == 55296 =< point /\ point =< 57343   \* U+D800..U+DFFF

=============================================================================
