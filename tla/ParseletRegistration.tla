------------------------ MODULE ParseletRegistration ------------------------
(***************************************************************************)
(* The parselet tables and the precedences, as Generate/Parselet.wl and    *)
(* Generate/Precedence.wl build them from Data/*.wl.  A parselet is the    *)
(* class of the C++ object and the constructor arguments its functions     *)
(* read.                                                                   *)
(***************************************************************************)
EXTENDS TokenEnum

\* Generate/Precedence.wl numbers the levels in the order of
\* Data/Precedence.wl, shifted left by one; bit 0 is set when the operator
\* associates to the right.  Only the levels of the modelled tokens are kept.
PRECEDENCE ==
  [LOWEST |-> 0, COMMA |-> 2, SEMI |-> 4, GREATERGREATER |-> 6, EQUAL |-> 9,
   SLASHCOLON |-> 11, AMP |-> 12, MINUSGREATER |-> 15,
   FAKE_OPTIONALCOLON |-> 16, FAKE_PATTERNCOLON |-> 18, BAR |-> 20,
   AMPAMP |-> 22, PREFIX_BANG |-> 24, SEMISEMI |-> 26, INFIX_PLUS |-> 28,
   LONGNAME_IMPLICITPLUS |-> 30, CLASS_INTEGRATIONOPERATORS |-> 32,
   STAR |-> 34, SLASH |-> 36, PREFIX_MINUS |-> 38, DOT |-> 40,
   LONGNAME_DIFFERENTIALD |-> 42, CARET |-> 45, POSTFIX_BANG |-> 46,
   TILDE |-> 48, CALL |-> 50, INFIX_QUESTION |-> 52, COLONCOLON |-> 54,
   HIGHEST |-> 56, ASSERTFALSE |-> 58]

\* Mutant of RightBit: the next number instead of the next odd one.
RightBit_plusOne(prec) == prec + 1

\* prec | 0x1
RightBit(prec) == prec + 1 - (prec % 2)

PrefixClasses ==
  {"Leaf", "PrefixError", "PrefixCloser", "PrefixToplevelCloser",
   "PrefixEndOfFile", "PrefixUnsupportedToken", "PrefixComma",
   "PrefixUnhandled", "Symbol", "PrefixOperator", "Group", "LessLess", "Hash",
   "HashHash", "Percent", "Under", "UnderDot", "SemiSemi", "Integral"}

InfixClasses ==
  {"InfixAssertFalse", "InfixToplevelNewline", "InfixImplicitTimes",
   "InfixDifferentialD", "BinaryOperator", "InfixOperator", "PostfixOperator",
   "Call", "Tilde", "Colon", "SlashColon", "Equal", "ColonEqual", "Comma",
   "Semi", "ColonColon", "GreaterGreater", "GreaterGreaterGreater",
   "SemiSemi", "Times"}

Ops ==
  {"INTERNALINVALID", "Minus", "Plus", "Not", "DifferentialD",
   "CapitalDifferentialD", "GroupParen", "GroupSquare", "List", "Blank",
   "BlankSequence", "BlankNullSequence", "PatternBlank",
   "PatternBlankSequence", "PatternBlankNullSequence", "Integrate", "Integral",
   "Divide", "Power", "Rule", "PatternTest", "Dot", "And", "Alternatives",
   "Function", "Factorial", "Times", "Set", "SetDelayed", "Unset", "TagSet",
   "TagUnset", "TagSetDelayed", "Pattern", "Optional", "Comma",
   "CompoundExpression", "MessageName", "Put", "PutAppend", "Get", "Slot",
   "SlotSequence", "Out", "Span", "TernaryTilde", "PatternOptionalDefault",
   "ExpectedTilde", "ExpectedSymbol", "ExpectedSet", "Call"}

\* A group or a call has a closer, an infix operator has an operator, and a
\* binary operator does not make Unset, as  =  before a dot does.
ParseletOf(classes) ==
  {P \in [class : classes, prec : Nat, op : Ops, op2 : Ops, closer : AnyCloser] :
     /\ P.class \in {"Group", "Call"} => P.closer \in Closers
     /\ P.class = "InfixOperator" => P.op # "INTERNALINVALID"
     /\ P.class = "BinaryOperator" => P.op # "Unset"}

PrefixParselet == ParseletOf(PrefixClasses)

InfixParselet == ParseletOf(InfixClasses)

New(class) == [class |-> class, prec |-> 0, op |-> "INTERNALINVALID",
               op2 |-> "INTERNALINVALID", closer |-> "CLOSER_ASSERTFALSE"]

NewOperator(class, prec, op) == [New(class) EXCEPT !.prec = prec, !.op = op]

NewGroup(class, opener, op) ==
  [New(class) EXCEPT !.op = op, !.closer = GroupOpenerToCloser(opener)]

\* op is BOp, op2 is PBOp
under1Parselet == [New("Under") EXCEPT !.op = "Blank", !.op2 = "PatternBlank"]

under2Parselet ==
  [New("Under") EXCEPT !.op = "BlankSequence", !.op2 = "PatternBlankSequence"]

under3Parselet == [New("Under") EXCEPT !.op = "BlankNullSequence",
                                       !.op2 = "PatternBlankNullSequence"]

UnderParseletOf(tok) == CASE tok = "UNDER"      -> under1Parselet
                          [] tok = "UNDERUNDER" -> under2Parselet
                          [] OTHER              -> under3Parselet

underDotParselet == New("UnderDot")

\* op is Op1, op2 is Op2
integralParselet == [New("Integral") EXCEPT !.op = "Integrate",
                                            !.op2 = "Integral"]

prefixToplevelCloserParselet == New("PrefixToplevelCloser")

\* Data/PrefixParselets.wl
PrefixParseletFor(tok) ==
  CASE tok \in {"STRING", "INTEGER"}        -> New("Leaf")
    [] tok \in (Errors \ {"ERROR_PREFIXIMPLICITNULL",
                          "ERROR_INFIXIMPLICITNULL"})
         \union {"WHITESPACE", "INTERNALNEWLINE", "COMMENT"}
                                            -> New("PrefixError")
    [] tok = "ENDOFFILE"                    -> New("PrefixEndOfFile")
    [] tok \in CloserTokens                 -> New("PrefixCloser")
    [] tok = "MINUS" -> NewOperator("PrefixOperator", PRECEDENCE.PREFIX_MINUS, "Minus")
    [] tok = "PLUS"  -> NewOperator("PrefixOperator", PRECEDENCE.PREFIX_MINUS, "Plus")
    [] tok = "BANG"  -> NewOperator("PrefixOperator", PRECEDENCE.PREFIX_BANG, "Not")
    [] tok = "LONGNAME_DIFFERENTIALD" ->
         NewOperator("PrefixOperator", PRECEDENCE.LONGNAME_DIFFERENTIALD, "DifferentialD")
    [] tok = "LONGNAME_CAPITALDIFFERENTIALD" ->
         NewOperator("PrefixOperator", PRECEDENCE.LONGNAME_DIFFERENTIALD,
                     "CapitalDifferentialD")
    [] tok \in Commas                       -> New("PrefixComma")
    [] tok = "OPENPAREN"                    -> NewGroup("Group", tok, "GroupParen")
    [] tok = "OPENSQUARE"                   -> NewGroup("Group", tok, "GroupSquare")
    [] tok = "OPENCURLY"                    -> NewGroup("Group", tok, "List")
    [] tok = "SYMBOL"                       -> New("Symbol")
    [] tok \in Unders                       -> UnderParseletOf(tok)
    [] tok = "UNDERDOT"                     -> underDotParselet
    [] tok = "HASH"                         -> New("Hash")
    [] tok = "HASHHASH"                     -> New("HashHash")
    [] tok = "PERCENT"                      -> New("Percent")
    [] tok = "SEMISEMI"                     -> New("SemiSemi")
    [] tok = "LONGNAME_INTEGRAL"            -> integralParselet
    [] tok = "LESSLESS"                     -> New("LessLess")
    [] tok = "QUESTIONQUESTION"             -> New("PrefixUnsupportedToken")
    [] OTHER                                -> New("PrefixUnhandled")

\* Data/InfixParselets.wl
InfixParseletFor(tok) ==
  CASE tok \in {"WHITESPACE", "INTERNALNEWLINE", "COMMENT", "ENDOFFILE",
                "QUESTIONQUESTION"} \union CloserTokens
         \union (Errors \ {"ERROR_PREFIXIMPLICITNULL", "ERROR_INFIXIMPLICITNULL"})
                                         -> New("InfixAssertFalse")
    [] tok = "TOPLEVELNEWLINE"           -> New("InfixToplevelNewline")
    [] tok \in DifferentialDs            -> New("InfixDifferentialD")
    [] tok = "SLASH"    -> NewOperator("BinaryOperator", PRECEDENCE.SLASH, "Divide")
    [] tok = "CARET"    -> NewOperator("BinaryOperator", PRECEDENCE.CARET, "Power")
    [] tok = "MINUSGREATER" ->
         NewOperator("BinaryOperator", PRECEDENCE.MINUSGREATER, "Rule")
    [] tok = "QUESTION" ->
         NewOperator("BinaryOperator", PRECEDENCE.INFIX_QUESTION, "PatternTest")
    [] tok \in {"MINUS", "PLUS"} ->
         NewOperator("InfixOperator", PRECEDENCE.INFIX_PLUS, "Plus")
    [] tok = "LONGNAME_IMPLICITPLUS" ->
         NewOperator("InfixOperator", PRECEDENCE.LONGNAME_IMPLICITPLUS, "Plus")
    [] tok = "DOT"      -> NewOperator("InfixOperator", PRECEDENCE.DOT, "Dot")
    [] tok \in {"AMPAMP", "LONGNAME_AND"} ->
         NewOperator("InfixOperator", PRECEDENCE.AMPAMP, "And")
    [] tok = "BAR"      -> NewOperator("InfixOperator", PRECEDENCE.BAR, "Alternatives")
    [] tok \in {"STAR", "FAKE_IMPLICITTIMES"} ->
         NewOperator("Times", PRECEDENCE.STAR, "Times")
    [] tok = "AMP"      -> NewOperator("PostfixOperator", PRECEDENCE.AMP, "Function")
    [] tok = "BANG" ->
         NewOperator("PostfixOperator", PRECEDENCE.POSTFIX_BANG, "Factorial")
    [] tok = "OPENSQUARE" ->
         [NewGroup("Call", tok, "GroupSquare") EXCEPT !.prec = PRECEDENCE.CALL]
    [] tok \in Commas   -> NewOperator("Comma", PRECEDENCE.COMMA, "INTERNALINVALID")
    [] tok = "SEMI"     -> NewOperator("Semi", PRECEDENCE.SEMI, "INTERNALINVALID")
    [] tok = "SEMISEMI" ->
         NewOperator("SemiSemi", PRECEDENCE.SEMISEMI, "INTERNALINVALID")
    [] tok = "TILDE"    -> New("Tilde")
    [] tok = "COLON"    -> New("Colon")
    [] tok = "SLASHCOLON" ->
         NewOperator("SlashColon", PRECEDENCE.SLASHCOLON, "INTERNALINVALID")
    [] tok = "EQUAL"    -> NewOperator("Equal", PRECEDENCE.EQUAL, "Set")
    [] tok = "COLONEQUAL" -> NewOperator("ColonEqual", PRECEDENCE.EQUAL, "SetDelayed")
    [] tok = "COLONCOLON" ->
         NewOperator("ColonColon", PRECEDENCE.COLONCOLON, "INTERNALINVALID")
    [] tok = "GREATERGREATER" ->
         NewOperator("GreaterGreater", PRECEDENCE.GREATERGREATER, "INTERNALINVALID")
    [] tok = "GREATERGREATERGREATER" ->
         NewOperator("GreaterGreaterGreater", PRECEDENCE.GREATERGREATER,
                     "INTERNALINVALID")
    [] OTHER            -> New("InfixImplicitTimes")

PrefixTable == [tok \in LeafKinds |-> PrefixParseletFor(tok)]

InfixTable == [tok \in LeafKinds |-> InfixParseletFor(tok)]

=============================================================================
