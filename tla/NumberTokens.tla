---------------------------- MODULE NumberTokens ----------------------------
(***************************************************************************)
(* Tokenizer_handleNumber: base, digits, precision, accuracy and exponent. *)
(* At many places a character that could go on with the number turns out   *)
(* to belong to an operator behind it and is given back.                   *)
(*                                                                         *)
(* A number being read is a Reading with a NumberTokenizationContext ctxt, *)
(* and with what it has been found to be, if it ends already, in Tok.  The *)
(* parts of a number are stages, one behind the other.                     *)
(***************************************************************************)
EXTENDS TokenizerCharacters

NumberTokenizationContext ==
  [InvalidBase |-> FALSE, UnrecognizedDigit |-> FALSE, NegativeExponent |-> FALSE,
   Real |-> FALSE, NonZeroExponent |-> FALSE, Base |-> 0]

computeTok(ctxt) ==
  CASE ctxt.InvalidBase \/ ctxt.UnrecognizedDigit -> "ERROR_NUMBER"
    [] ~(ctxt.InvalidBase \/ ctxt.UnrecognizedDigit) /\ ctxt.Real -> "REAL"
    [] ~(ctxt.InvalidBase \/ ctxt.UnrecognizedDigit) /\ ~ctxt.Real
         /\ ctxt.NegativeExponent /\ ctxt.NonZeroExponent -> "RATIONAL"
    [] OTHER -> "INTEGER"

\* The number ends here, or cannot go on.
Number(n) == [n EXCEPT !.Tok = computeTok(n.ctxt)]
NumberError(n) == [n EXCEPT !.Tok = "ERROR_NUMBER"]
GoesOn(n) == n.Tok = ""

Digits == 48..57
Zeros == {48}

Tokenizer_handleZeros(n) == AdvanceWhile(n, Zeros)
Tokenizer_handleDigits(n) == AdvanceWhile(n, Digits)

\* Digits of the base; a base of 0 is the default, where letters are no digits.
RECURSIVE Tokenizer_handleAlphaOrDigits(_, _)
Tokenizer_handleAlphaOrDigits(n, base) ==
  IF isDigit(n.point) \/ (base # 0 /\ isAlpha(n.point))
  THEN Tokenizer_handleAlphaOrDigits(
         Advance([n EXCEPT !.ctxt.UnrecognizedDigit =
                             @ \/ (base # 0 /\ base =< toDigit(n.point))]), base)
  ELSE n

Moved(n, m) == m.s.buffer # n.s.buffer

----------------------------------------------------------------------------
(* A dot: n has read it and looked past it, and dot is before it. *)

\* Two dots are an operator: the first one was no radix point.
IsRadixPoint(n) == n.point # Code["."]

Tokenizer_handlePossibleFractionalPartPastDot(n, dot, base) ==
  LET m == Tokenizer_handleAlphaOrDigits(n, base)
  IN IF Moved(n, m) /\ m.point = Code["."]
     THEN Warn(m, "UNEXPECTEDIMPLICITTIMES", "ERROR", Source(dot.s.SrcLoc, dot.s.SrcLoc))
     ELSE m

----------------------------------------------------------------------------
(* base^^ *)

\* The bytes between start and the caret are digits, two at most.
InBase(n, start, caret1) ==
  LET text == SubSeq(n.s.bytes, start + 1, caret1.s.buffer)
      Base == IF Len(text) \in 1..2 THEN NumberIn(10, text) ELSE 0
  IN [n EXCEPT !.ctxt.Base = Base, !.ctxt.InvalidBase = Base \notin 2..36]

\* n has looked at a caret behind leading digits whose zeros end at start; then it
\* looks at the digits, which may be missing in front of a dot.
Base(n, start) ==
  LET caret2 == Advance(n)
      m == InBase(Advance(caret2), start, n)
  IN CASE caret2.point # Code["^"] -> Number(BackTo(caret2, n))
       [] caret2.point = Code["^"] /\ ~isAlphaOrDigit(m.point) /\ m.point # Code["."] ->
            NumberError(m)
       [] OTHER -> m

----------------------------------------------------------------------------
(* digits.digits *)

\* n has looked at the dot behind the leading digits, if there are any.
Tokenizer_handlePossibleFractionalPart(n, digits) ==
  LET past == Advance(n)
      m == Tokenizer_handlePossibleFractionalPartPastDot(past, n, n.ctxt.Base)
      back == Tokenizer_backupAndWarn(past, n)
  IN CASE ~IsRadixPoint(past) -> IF digits THEN Number(back) ELSE NumberError(back)
       [] IsRadixPoint(past) /\ ~digits /\ ~Moved(past, m) -> NumberError(m)
       [] OTHER -> [m EXCEPT !.ctxt.Real = TRUE]

----------------------------------------------------------------------------
(* `precision and ``accuracy *)

\* A sign without a number behind it belongs to an operator.
PrecisionSign(n, accuracy) ==
  LET past == Advance(n)
  IN CASE isDigit(past.point) \/ past.point = Code["."] ->
            IF accuracy THEN past
            ELSE Warn(past, "UNEXPECTEDSIGN", "WARNING", Source(n.s.SrcLoc, n.s.SrcLoc))
       [] ~isDigit(past.point) /\ past.point # Code["."] /\ accuracy -> NumberError(past)
       [] OTHER -> Number(Tokenizer_backupAndWarn(past, n))

\* n has looked at the dot of a precision or accuracy; sign is before the sign, if any.
PrecisionDot(n, accuracy, supplied, signed, sign) ==
  LET past == Advance(n)
      m == Tokenizer_handlePossibleFractionalPartPastDot(past, n, 0)
      certain == signed \/ supplied
      back == Tokenizer_backupAndWarn(past, n)
  IN CASE ~certain /\ ~isDigit(past.point) /\ accuracy -> NumberError(past)
       [] ~certain /\ ~isDigit(past.point) /\ ~accuracy ->
            IF isSign(past.point) THEN NumberError(Take(past)) ELSE Number(back)
       [] certain /\ ~IsRadixPoint(past) ->
            Number(IF supplied THEN back ELSE Tokenizer_backupAndWarn(back, sign))
       [] certain /\ IsRadixPoint(past) /\ ~supplied /\ ~Moved(past, m) -> NumberError(m)
       [] OTHER -> m

\* n has looked at the precision or accuracy, behind its sign.
PrecisionDigits(n, accuracy, signed, sign) ==
  LET m == Tokenizer_handleDigits(n)
      supplied == isDigit(n.point)
  IN CASE m.point = Code["."] -> PrecisionDot(m, accuracy, supplied, signed, sign)
       [] m.point # Code["."] /\ accuracy /\ ~supplied -> NumberError(m)
       [] OTHER -> m

\* n has looked at a backquote.
Precision(n) ==
  LET first == Advance([n EXCEPT !.ctxt.Real = TRUE])
      accuracy == first.point = Backquote
      sign == IF accuracy THEN Advance(first) ELSE first
      m == IF isSign(sign.point) THEN PrecisionSign(sign, accuracy) ELSE sign
  IN IF GoesOn(m) THEN PrecisionDigits(m, accuracy, isSign(sign.point), sign) ELSE m

----------------------------------------------------------------------------
(* mantissa*^n *)

\* n has looked at the exponent, behind its sign.
ExponentDigits(n) ==
  LET zeros == Tokenizer_handleZeros(n)
      digits == Tokenizer_handleDigits(zeros)
      m == [digits EXCEPT !.ctxt.NonZeroExponent = isDigit(zeros.point)]
      past == Advance(m)
  IN CASE ~isDigit(n.point) -> NumberError(n)
       [] isDigit(n.point) /\ m.point # Code["."] -> Number(m)
       [] isDigit(n.point) /\ m.point = Code["."] /\ ~IsRadixPoint(past) ->
            Number(Tokenizer_backupAndWarn(past, m))
       [] OTHER ->
            NumberError(Tokenizer_handlePossibleFractionalPartPastDot(past, m, n.ctxt.Base))

\* n has looked at a star.
Exponent(n) ==
  LET caret == Advance(n)
      exponent == Advance(caret)
      negative == [exponent EXCEPT !.ctxt.NegativeExponent = exponent.point = Code["-"]]
  IN IF caret.point # Code["^"]
     THEN Number(BackTo(caret, n))
     ELSE ExponentDigits(IF isSign(exponent.point) THEN Advance(negative) ELSE exponent)

----------------------------------------------------------------------------
(* The whole number. *)

NumberReading(s, at, policy, point) ==
  [s |-> s, at |-> at, policy |-> policy, point |-> point,
   ctxt |-> NumberTokenizationContext, Tok |-> ""]

\* Inside of slots a number is digits only.
ShortCircuit(n) ==
  Number(IF n.point = Code["."]
         THEN Warn(n, "AMBIGUOUS", "FORMATTING", Source(n.s.SrcLoc, n.s.SrcLoc))
         ELSE n)

\* The leading digits and, if they turn out to be the base, the digits behind it.
LeadingDigits(n) ==
  LET zeros == Tokenizer_handleZeros(Look(n))
      leading == Tokenizer_handleDigits(zeros)
      start == IF n.point = Code["0"] THEN zeros.s.buffer ELSE n.at.buffer
  IN CASE INTEGER_SHORT_CIRCUIT \in n.policy -> ShortCircuit(leading)
       [] INTEGER_SHORT_CIRCUIT \notin n.policy /\ leading.point = Code["^"] ->
            Base(leading, start)
       [] OTHER -> leading

\* The parts that follow, each if the number goes on to it.
WithExponent(n) == IF GoesOn(n) /\ n.point = Code["*"] THEN Exponent(n) ELSE n
WithPrecision(n) == IF GoesOn(n) /\ n.point = Backquote THEN Precision(n) ELSE n
WithFraction(n, digits) ==
  IF GoesOn(n) /\ n.point = Code["."] THEN Tokenizer_handlePossibleFractionalPart(n, digits) ELSE n

\* n has looked at the digits behind a base or, without one, behind the leading digits.
WithDigits(n, leading) ==
  LET m == IF GoesOn(n) THEN Tokenizer_handleAlphaOrDigits(n, n.ctxt.Base) ELSE n
  IN WithFraction(m, leading /\ (n.ctxt = NumberTokenizationContext \/ Moved(n, m)))

NumberToken(n) == Done(n, IF GoesOn(n) THEN computeTok(n.ctxt) ELSE n.Tok)

\* The first character, a digit or a dot, has been read.
Tokenizer_handleNumber(s, at, point, policy) ==
  NumberToken(WithExponent(WithPrecision(
    IF point = Code["."] THEN WithDigits(NumberReading(at, at, policy, point), FALSE)
                         ELSE WithDigits(LeadingDigits(NumberReading(s, at, policy, point)), TRUE))))

=============================================================================
