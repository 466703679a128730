------------------------------- MODULE Parser -------------------------------
(***************************************************************************)
(* The state of a parse and the functions of Parser.cpp.                   *)
(*                                                                         *)
(* The parser is written in continuation-passing style: a parselet leaves  *)
(* in the top Context the function F that must run when its operand is     *)
(* complete, and every function ends in a call of another one.  The        *)
(* variable call is that pending call; each action runs one function.      *)
(* With USE_MUSTTAIL every call is a jump.  Without it the loops call the  *)
(* operand's parselet as an ordinary function, and frames holds what they  *)
(* will do when that call returns.                                         *)
(***************************************************************************)
EXTENDS ParseletRegistration

CONSTANTS
  Inputs,           \* the source files, as sequences of SourceTokens
  prefixParselets,  \* parselet tables, indexed by token kind
  infixParselets,
  USE_MUSTTAIL,     \* the build option
  AbortAllowed      \* libData is set: the user may abort

ASSUME InputsAssumption == Inputs \subseteq Seq(SourceTokens)

ASSUME TablesAssumption ==
  /\ prefixParselets \in [LeafKinds -> PrefixParselet]
  /\ infixParselets \in [LeafKinds -> InfixParselet]

\* The end of the file is nothing's operand and nothing's operator.
ASSUME EndOfFileAssumption ==
  /\ prefixParselets["ENDOFFILE"].class = "PrefixEndOfFile"
  /\ infixParselets["ENDOFFILE"] = New("InfixAssertFalse")

\* Groups, and calls, are what openers start, and the parselets that loop for
\* their operators are those of these operators.
ASSUME OperatorTablesAssumption ==
  \A tok \in LeafKinds :
    /\ prefixParselets[tok].class = "Group" <=> tok \in Openers
    /\ tok \in Openers => prefixParselets[tok].closer = GroupOpenerToCloser(tok)
    /\ infixParselets[tok].class = "Call" =>
         tok \in Openers /\ infixParselets[tok].closer = GroupOpenerToCloser(tok)
    /\ infixParselets[tok].class = "Comma" => tok \in Commas
    /\ infixParselets[tok].class = "Semi"  => tok = "SEMI"
    /\ infixParselets[tok].class = "Times" => tok \in {"STAR", "FAKE_IMPLICITTIMES"}
    /\ infixParselets[tok].class = "InfixOperator" => tok \notin Trivia

\* The leaves that are operands, or the head of a compound one, and those that
\* stand for an operand that is not there.
OperandTokens ==
  {"SYMBOL", "STRING", "INTEGER", "PERCENT", "HASH", "HASHHASH", "UNDERDOT"}
    \union Unders \union Errors \union (Fakes \ {"FAKE_IMPLICITTIMES"})

\* The parselets that take their token as an operand are those of operands, the
\* ones that take it as an operator are not, and the rest expect what their
\* assertions say.
ASSUME OperandTablesAssumption ==
  /\ infixParselets["FAKE_IMPLICITTIMES"].class = "Times"
  /\ infixParselets["FAKE_IMPLICITTIMES"].prec <= PRECEDENCE.HIGHEST
  /\ infixParselets["TOPLEVELNEWLINE"].class = "InfixToplevelNewline"
  /\ \A tok \in Tokens \ Trivia :
       LET P == prefixParselets[tok]
           I == infixParselets[tok]
           isOperator == I.class \notin {"InfixAssertFalse", "InfixToplevelNewline",
                                        "InfixImplicitTimes", "InfixDifferentialD"}
       IN /\ P.class \in {"Leaf", "Symbol", "Under", "UnderDot", "Hash", "HashHash",
                          "Percent"} => tok \in OperandTokens
          /\ P.class \in {"PrefixOperator", "LessLess", "SemiSemi", "Integral"} =>
               tok \notin OperandTokens
          /\ P.class = "PrefixError" => tok \in Errors
          /\ P.class \in {"PrefixCloser", "PrefixToplevelCloser"} =>
               tok \in CloserTokens
          /\ P.class = "PrefixUnhandled" =>
               /\ tok \notin PossibleBeginning
               /\ I.class \notin {"InfixImplicitTimes", "InfixDifferentialD"}
          /\ isOperator => tok \notin OperandTokens
          /\ I.op # "INTERNALINVALID" => isOperator
          /\ isOperator => I.prec <= PRECEDENCE.HIGHEST

ASSUME OptionsAssumption == USE_MUSTTAIL \in BOOLEAN /\ AbortAllowed \in BOOLEAN

VARIABLES
  input,         \* the source being parsed
  buffer,        \* the number of tokens before the read position
  NodeStack,
  ContextStack,
  GroupStack,    \* the closers the open groups wait for
  call,          \* the pending call [fn, P, tok]
  frames,        \* the calls [fn, P] that native returns lead to
  exprs,         \* the top-level expressions collected so far
  aborted        \* what abortQ() answers

vars == <<input, buffer, NodeStack, ContextStack, GroupStack, call, frames,
          exprs, aborted>>

-----------------------------------------------------------------------------
(* Nodes.  A node has the extent of source it was made from and the kinds   *)
(* and operators of its children.                                          *)

NodeKinds == {"Leaf", "Abort", "Prefix", "PrefixBinary", "Binary", "Infix",
              "Ternary", "Postfix", "Compound", "Group", "GroupMissingCloser",
              "UnterminatedGroupNeedsReparse", "Call", "SyntaxError"}

Label == NodeKinds \X (LeafKinds \union Ops)

Node == [kind : NodeKinds, op : LeafKinds \union Ops,
         lo : Nat, hi : Nat, kids : Seq(Label)]

Leaf(tok, lo, hi) ==
  [kind |-> "Leaf", op |-> tok, lo |-> lo, hi |-> hi, kids |-> <<>>]

Token == [kind : {"Leaf"}, op : LeafKinds, lo : Nat, hi : Nat, kids : {<<>>}]

\* A token with the place of t and no characters, such as an implicit operand.
Empty(tok, t) == Leaf(tok, t.lo, t.lo)

NoToken == Leaf("ENDOFFILE", 0, 0)

AbortNode ==
  [kind |-> "Abort", op |-> "INTERNALINVALID", lo |-> 0, hi |-> 0, kids |-> <<>>]

LabelOf(N) == <<N.kind, N.op>>

NewNode(kind, op, Args) ==
  [kind |-> kind, op |-> op, lo |-> Args[1].lo, hi |-> Args[Len(Args)].hi,
   kids |-> [i \in 1..Len(Args) |-> LabelOf(Args[i])]]

LeafIn(N, toks) == N.kind = "Leaf" /\ N.op \in toks

-----------------------------------------------------------------------------
(* The tokenizer, as the parser sees it: peeking at the token that starts   *)
(* at position p moves nothing.                                            *)

RawKind(p) == IF p < Len(input) THEN input[p + 1] ELSE "ENDOFFILE"

KindAt(p) ==
  IF RawKind(p) = "NEWLINE"
  THEN IF GroupStack = <<>> THEN "TOPLEVELNEWLINE" ELSE "INTERNALNEWLINE"
  ELSE RawKind(p)

Tokenizer_currentToken(p) == Leaf(KindAt(p), p, p + 1)

\* The policy INSIDE_SLOT reads the name of a slot as a string.
Tokenizer_currentToken_INSIDE_SLOT(p) ==
  Leaf(IF KindAt(p) = "SYMBOL" THEN "STRING" ELSE KindAt(p), p, p + 1)

Tokenizer_currentToken_stringifyAsTag(p) ==
  IF RawKind(p) \in {"SYMBOL", "STRING"} THEN Leaf("STRING", p, p + 1)
                                         ELSE Leaf("ERROR_EXPECTEDTAG", p, p)

\* The first position from p on whose kind is not in toks; the end of the
\* file is never passed.
SkipKinds(p, toks) ==
  CHOOSE q \in p..Len(input) :
    /\ q = Len(input) \/ KindAt(q) \notin toks
    /\ \A r \in p..(q - 1) : KindAt(r) \in toks

\* A file name may span several tokens.  The policy of this reader returns
\* every newline as a toplevel one, inside groups too.
Tokenizer_currentToken_stringifyAsFile(p) ==
  CASE RawKind(p) = "NEWLINE"          -> Leaf("TOPLEVELNEWLINE", p, p + 1)
    [] RawKind(p) \in {"WHITESPACE", "STRING"} -> Leaf(RawKind(p), p, p + 1)
    [] RawKind(p) \in FileNameTokens   -> Leaf("STRING", p, SkipKinds(p, FileNameTokens))
    [] OTHER                           -> Leaf("ERROR_EXPECTEDFILE", p, p)

-----------------------------------------------------------------------------
(* Trivia.  TriviaEnd is where eatTrivia leaves the read position and       *)
(* TriviaTokens the tokens it passes.                                      *)

TriviaEnd(p) == SkipKinds(p, Trivia)

TriviaButNotToplevelNewlinesEnd(p) == SkipKinds(p, TriviaButNotToplevelNewline)

TriviaTokens(p, q) == [i \in 1..(q - p) |-> Tokenizer_currentToken(p + i - 1)]

\* Before a file name only newlines and whitespace are skipped, each read
\* again with the policy for file names.
FileTriviaEnd(p) == SkipKinds(p, {"WHITESPACE"} \union Newlines)

FileTriviaTokens(p, q) ==
  [i \in 1..(q - p) |-> Tokenizer_currentToken_stringifyAsFile(p + i - 1)]

\* TriviaSeq::reset puts the read position before the saved trivia.
TriviaSeq_reset(pos, Seq1) == IF Seq1 = <<>> THEN pos ELSE Seq1[1].lo

Token_reset(t) == t.lo

-----------------------------------------------------------------------------
(* Contexts and groups.                                                    *)

LoopFns == {"InfixOperatorParselet_parseLoop", "GroupParselet_parseLoop",
            "CommaParselet_parseLoop", "SemiParselet_parseLoop",
            "TimesParselet_parseLoop"}

ReduceFns ==
  {"PrefixOperatorParselet_reducePrefixOperator",
   "BinaryOperatorParselet_reduceBinaryOperator",
   "InfixOperatorParselet_reduceInfixOperator",
   "PostfixOperatorParselet_reducePostfixOperator",
   "GroupParselet_reduceGroup", "GroupParselet_reduceMissingCloser",
   "GroupParselet_reduceUnterminatedGroup", "CallParselet_reduceCall",
   "TildeParselet_reduceTilde", "TildeParselet_reduceError",
   "ColonParselet_reducePattern", "ColonParselet_reduceError",
   "ColonParselet_reduceOptional", "SlashColonParselet_reduceError",
   "EqualParselet_reduceSet", "EqualParselet_reduceUnset",
   "EqualParselet_reduceTagSet", "EqualParselet_reduceTagUnset",
   "ColonEqualParselet_reduceSetDelayed",
   "ColonEqualParselet_reduceTagSetDelayed", "CommaParselet_reduceComma",
   "SemiParselet_reduceCompoundExpression",
   "ColonColonParselet_reduceMessageName",
   "GreaterGreaterParselet_reducePut",
   "GreaterGreaterGreaterParselet_reducePutAppend",
   "LessLessParselet_reduceGet", "HashParselet_reduceSlot",
   "HashHashParselet_reduceSlotSequence", "PercentParselet_reduceOut",
   "SymbolParselet_reducePatternBlank",
   "SymbolParselet_reducePatternOptionalDefault",
   "UnderParselet_reduceBlank", "UnderParselet_reduceBlankContextSensitive",
   "SemiSemiParselet_reduceBinary", "SemiSemiParselet_reduceTernary",
   "TimesParselet_reduceTimes", "IntegralParselet_reduceIntegrate",
   "IntegralParselet_reduceIntegral"}

ParseFns ==
  {"ColonColonParselet_parseLoop", "TildeParselet_parse1",
   "SlashColonParselet_parse1", "SemiSemiParselet_parse1",
   "SemiSemiParselet_parse2", "IntegralParselet_parse1",
   "EqualParselet_parseInfixTag", "ColonEqualParselet_parseInfixTag",
   "SymbolParselet_parseInfixContextSensitive",
   "UnderParselet_parseInfixContextSensitive",
   "UnderDotParselet_parseInfixContextSensitive"}

ParserFns == {"parsePrefix", "parseInfix", "Parser_parseClimb",
              "Parser_tryContinue", "return", "concreteParse", "done"}

Fns == LoopFns \union ReduceFns \union ParseFns \union ParserFns

\* F is not set until the parselet that owns the context has read its
\* operator; Parser_identity stands for a loop that is in frames.
ContextFns ==
  LoopFns \union (ReduceFns \ {"UnderParselet_reduceBlankContextSensitive"})
    \union {"TildeParselet_parse1", "SlashColonParselet_parse1",
            "SemiSemiParselet_parse2", "IntegralParselet_parse1"}
    \union {"NULL", "Parser_identity"}

NoParselet == New("Leaf")

Parselet == PrefixParselet \union InfixParselet

\* The class that a function asserts its parselet to be of.
ClassesFor(fn) ==
  CASE fn = "parsePrefix" -> PrefixClasses
    [] fn = "parseInfix"  -> InfixClasses
    [] fn = "PrefixOperatorParselet_reducePrefixOperator"   -> {"PrefixOperator"}
    [] fn = "BinaryOperatorParselet_reduceBinaryOperator"   -> {"BinaryOperator"}
    [] fn = "PostfixOperatorParselet_reducePostfixOperator" -> {"PostfixOperator"}
    [] fn \in {"InfixOperatorParselet_parseLoop",
               "InfixOperatorParselet_reduceInfixOperator"} -> {"InfixOperator"}
    [] fn \in {"GroupParselet_parseLoop", "GroupParselet_reduceGroup",
               "GroupParselet_reduceMissingCloser",
               "GroupParselet_reduceUnterminatedGroup"}     -> {"Group"}
    [] fn \in {"SymbolParselet_reducePatternBlank", "UnderParselet_reduceBlank",
               "UnderParselet_reduceBlankContextSensitive",
               "UnderParselet_parseInfixContextSensitive"}  -> {"Under"}
    [] fn \in {"IntegralParselet_parse1", "IntegralParselet_reduceIntegrate",
               "IntegralParselet_reduceIntegral"}           -> {"Integral"}
    [] OTHER -> PrefixClasses \union InfixClasses

Context ==
  {ctxt \in [F : ContextFns, P : Parselet, Index : Nat, Prec : Nat] :
     ctxt.P.class \in ClassesFor(ctxt.F)}

Frame == {frame \in [fn : Fns, P : Parselet] : frame.P.class \in ClassesFor(frame.fn)}

Call ==
  {c \in [fn : Fns, P : Parselet, tok : Token] : c.P.class \in ClassesFor(c.fn)}

NewContext(Index, Prec) ==
  [F |-> "NULL", P |-> NoParselet, Index |-> Index, Prec |-> Prec]

Top(stack) == stack[Len(stack)]

Pop(stack) == SubSeq(stack, 1, Len(stack) - 1)

\* Mutant of Parser_pushContext: the context starts after the top node.
Parser_pushContext_afterTop(nodes, Prec) ==
  Append(ContextStack, NewContext(Len(nodes), Prec))

\* Parser_pushContext, when the node stack has become nodes.
Parser_pushContext(nodes, Prec) ==
  Append(ContextStack, NewContext(Len(nodes) - 1, Prec))

Parser_topContext == Top(ContextStack)

\* The context stack with another top context.
TopContext(ctxt) == [ContextStack EXCEPT ![Len(ContextStack)] = ctxt]

\* What Parser_popContext leaves on the node stack, and what it returns,
\* when the node stack has become nodes.
NodesBelow(nodes) == SubSeq(nodes, 1, Parser_topContext.Index)

\* Mutant of ArgsOf: the first node of the context is left out.
ArgsOf_withoutFirst(nodes) == SubSeq(nodes, Parser_topContext.Index + 2, Len(nodes))

ArgsOf(nodes) == SubSeq(nodes, Parser_topContext.Index + 1, Len(nodes))

Parser_topPrecedence ==
  IF ContextStack = <<>> THEN PRECEDENCE.LOWEST ELSE Parser_topContext.Prec

Parser_checkGroup(Closr) == \E i \in 1..Len(GroupStack) : GroupStack[i] = Closr

\* The innermost context that is not tighter than Pattern decides.
Parser_checkPatternPrecedence ==
  \E i \in 1..Len(ContextStack) :
    /\ ContextStack[i].Prec = PRECEDENCE.FAKE_PATTERNCOLON
    /\ \A j \in (i + 1)..Len(ContextStack) :
         ContextStack[j].Prec > PRECEDENCE.FAKE_PATTERNCOLON

\* The last of the first i nodes that the top context holds and that is not
\* trivia; Index when there is none.
LastNonTrivia(nodes, i) ==
  LET bottom == Parser_topContext.Index
      js == {j \in (bottom + 1)..i : ~LeafIn(nodes[j], Trivia)}
  IN IF js = {} THEN bottom ELSE CHOOSE j \in js : \A k \in js : k <= j

PatternBlankOps ==
  {"PatternBlank", "PatternBlankSequence", "PatternBlankNullSequence",
   "Blank", "BlankSequence", "BlankNullSequence"}

\* COLONLHS_NONE is behind assert(false).
Parser_checkColonLHS ==
  LET i == LastNonTrivia(NodeStack, Len(NodeStack))
      N == NodeStack[i]
  IN CASE i = Parser_topContext.Index -> "COLONLHS_NONE"
       [] N.kind = "Binary" /\ N.op = "Pattern" -> "COLONLHS_OPTIONAL"
       [] N.kind = "Compound" /\ N.op \in PatternBlankOps -> "COLONLHS_OPTIONAL"
       [] LeafIn(N, {"SYMBOL"})  -> "COLONLHS_PATTERN"
       [] LeafIn(N, Unders)      -> "COLONLHS_OPTIONAL"
       [] LeafIn(N, {"COLON"})   -> "COLONLHS_NONE"
       [] LeafIn(N, Errors)      -> "COLONLHS_PATTERN"
       [] OTHER                  -> "COLONLHS_ERROR"

\* Is the operand at the top between two tildes?  The node before it decides;
\* that there is one is behind assert(false).
NodeBeforeOperand(nodes) == LastNonTrivia(nodes, Len(nodes) - 1)

Parser_checkTilde(nodes) ==
  /\ ContextStack # <<>>
  /\ NodeBeforeOperand(nodes) # Parser_topContext.Index
  /\ LeafIn(nodes[NodeBeforeOperand(nodes)], {"TILDE"})

Parser_checkSpan ==
  Top(NodeStack).kind \in {"Binary", "Ternary"} /\ Top(NodeStack).op = "Span"

-----------------------------------------------------------------------------
(* The two virtual functions of infix parselets, for the token t.           *)

FAKE_IMPLICITTIMES(t) == Empty("FAKE_IMPLICITTIMES", t)

processImplicitTimes(I, t) ==
  CASE I.class = "InfixImplicitTimes" -> FAKE_IMPLICITTIMES(t)
    [] I.class = "SemiSemi" /\ Parser_checkSpan -> FAKE_IMPLICITTIMES(t)
    [] /\ I.class = "InfixDifferentialD"
       /\ Parser_topPrecedence # PRECEDENCE.CLASS_INTEGRATIONOPERATORS
         -> FAKE_IMPLICITTIMES(t)
    [] OTHER -> t

\* nodes is the node stack at the time of the call
getPrecedence(I, nodes) ==
  CASE I.class \in {"InfixAssertFalse", "InfixToplevelNewline"} -> PRECEDENCE.LOWEST
    [] I.class = "InfixImplicitTimes" -> PRECEDENCE.ASSERTFALSE
    [] I.class = "InfixDifferentialD" ->
         IF Parser_topPrecedence = PRECEDENCE.CLASS_INTEGRATIONOPERATORS
         THEN PRECEDENCE.LOWEST ELSE PRECEDENCE.STAR
    [] I.class = "Tilde" ->
         IF Parser_checkTilde(nodes) THEN PRECEDENCE.LOWEST ELSE PRECEDENCE.TILDE
    [] I.class = "Colon" ->
         IF Parser_checkPatternPrecedence THEN PRECEDENCE.FAKE_OPTIONALCOLON
                                          ELSE PRECEDENCE.HIGHEST
    [] OTHER -> I.prec

\* Mutant of BindsTighterThan: associativity is forgotten.
BindsTighterThan_noRightBit(prec) == Parser_topPrecedence > prec

\* The operand so far binds at least as tightly as an operator of prec.
BindsTighterThan(prec) == RightBit(Parser_topPrecedence) > prec

getOp(I) == I.op

-----------------------------------------------------------------------------
(* The pieces actions are made of.                                         *)

Calling(fn) == call.fn = fn

Jump(fn, P, tok) == call' = [fn |-> fn, P |-> P, tok |-> tok]

Goto(fn) == Jump(fn, NoParselet, NoToken)

ParsePrefix(t) == Jump("parsePrefix", prefixParselets[t.op], t)

\* The node stack after Parser_pushLeafAndNext(TokIn) and eatTrivia, and the
\* token that is current then.
WithOperator(t) == Append(NodeStack, t) \o TriviaTokens(t.hi, TriviaEnd(t.hi))

AfterOperator(t) == Tokenizer_currentToken(TriviaEnd(t.hi))

\* Parser_pushLeafAndNext(TokIn), nothing else read.
TakeLeaf(t) ==
  /\ NodeStack' = Append(NodeStack, t)
  /\ buffer' = t.hi

\* Parser_pushLeafAndNext(TokIn), then Parser_eatTrivia.
TakeOperator(t) ==
  /\ NodeStack' = WithOperator(t)
  /\ buffer' = TriviaEnd(t.hi)

\* Take the operator t, then parse its operand with ctxt on top.
TakeOperand(t, ctxt) ==
  /\ TakeOperator(t)
  /\ ContextStack' = TopContext(ctxt)
  /\ ParsePrefix(AfterOperator(t))

\* The reset of a trivia sequence that ends at q.
GiveBack(q) == buffer' = TriviaSeq_reset(q, TriviaTokens(buffer, q))

\* Replace the nodes of the top context by one node of them all.
ReduceContext(fn, kind, op, next) ==
  /\ Calling(fn)
  /\ NodeStack' = Append(NodesBelow(NodeStack), NewNode(kind, op, ArgsOf(NodeStack)))
  /\ ContextStack' = Pop(ContextStack)
  /\ Goto(next)
  /\ UNCHANGED <<input, buffer, frames, exprs, aborted>>

Reduce(fn, kind, op) ==
  /\ ReduceContext(fn, kind, op, "Parser_parseClimb")
  /\ UNCHANGED GroupStack

\* Mutant of ContextWith: the function is not set.
ContextWith_unset(F) == Parser_topContext

\* The context with the function that will run after its operand.
ContextWith(F) == [Parser_topContext EXCEPT !.F = F]

\* Mutant of LoopContext: the default build sets what the other build sets.
LoopContext_always(loop, P) == [Parser_topContext EXCEPT !.F = loop, !.P = P]

\* A loop sets itself as F, or calls its operand natively.
LoopContext(loop, P) ==
  IF USE_MUSTTAIL THEN [Parser_topContext EXCEPT !.F = loop, !.P = P]
                  ELSE [Parser_topContext EXCEPT !.F = "Parser_identity"]

NativeCall(fn, P) == frames' = Append(frames, [fn |-> fn, P |-> P])

\* Mutant of LoopCall: the default build comes back to its loop without the parselet.
LoopCall_lost(loop, P) ==
  IF USE_MUSTTAIL THEN UNCHANGED frames ELSE NativeCall(loop, NoParselet)

LoopCall(loop, P) == IF USE_MUSTTAIL THEN UNCHANGED frames ELSE NativeCall(loop, P)

-----------------------------------------------------------------------------
(* Parser.cpp                                                              *)

\* An operand is complete: take the next operator if it binds tighter than
\* the context, leave it to the context otherwise.
Parser_parseClimb ==
  LET q       == TriviaButNotToplevelNewlinesEnd(buffer)
      Trivia1 == TriviaTokens(buffer, q)
      peek    == Tokenizer_currentToken(q)
      token   == processImplicitTimes(infixParselets[peek.op], peek)
      I       == infixParselets[token.op]
      prec    == getPrecedence(I, NodeStack)
  IN /\ Calling("Parser_parseClimb")
     /\ ~aborted
     /\ IF BindsTighterThan(prec)
        THEN /\ buffer' = TriviaSeq_reset(q, Trivia1)
             /\ Goto("Parser_tryContinue")
             /\ UNCHANGED <<NodeStack, ContextStack>>
        ELSE /\ ContextStack' = Parser_pushContext(NodeStack, prec)
             /\ NodeStack' = NodeStack \o Trivia1
             /\ buffer' = q
             /\ Jump("parseInfix", I, token)
     /\ UNCHANGED <<input, GroupStack, frames, exprs, aborted>>

Parser_parseClimb_abort ==
  /\ Calling("Parser_parseClimb")
  /\ aborted
  /\ Goto("Parser_tryContinue")
  /\ UNCHANGED <<input, buffer, NodeStack, ContextStack, GroupStack, frames,
                 exprs, aborted>>

\* Parser_identity returns at once.
Parser_tryContinue ==
  /\ Calling("Parser_tryContinue")
  /\ IF ContextStack = <<>> \/ Parser_topContext.F = "Parser_identity"
     THEN Goto("return")
     ELSE Jump(Parser_topContext.F, Parser_topContext.P, NoToken)
  /\ UNCHANGED <<input, buffer, NodeStack, ContextStack, GroupStack, frames,
                 exprs, aborted>>

\* A native return: to the loop or context-sensitive reader that called, or
\* to the top level.
Return ==
  /\ Calling("return")
  /\ frames # <<>>
  /\ Jump(Top(frames).fn, Top(frames).P, NoToken)
  /\ frames' = Pop(frames)
  /\ UNCHANGED <<input, buffer, NodeStack, ContextStack, GroupStack, exprs,
                 aborted>>

=============================================================================
