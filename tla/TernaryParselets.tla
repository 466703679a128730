-------------------------- MODULE TernaryParselets --------------------------
(***************************************************************************)
(* Operators that come in several parts, or whose meaning depends on what  *)
(* is around them:  ~ ~   :   /: =   =   :=   ;; ;;   and integrals.       *)
(***************************************************************************)
EXTENDS GroupParselets

TildeParselet_parseInfix ==
  /\ Infix("Tilde")
  /\ TakeOperand(call.tok, [ContextWith("TildeParselet_parse1")
                              EXCEPT !.Prec = PRECEDENCE.LOWEST])
  /\ UNCHANGED <<input, GroupStack, frames, exprs, aborted>>

\* The second tilde binds as an operator does, the first as an opener.
TildeParselet_parse1 ==
  LET q    == TriviaEnd(buffer)
      Tok1 == Tokenizer_currentToken(q)
  IN /\ Looping("TildeParselet_parse1")
     /\ IF Tok1.op # "TILDE"
        THEN EndLoop(q, "TildeParselet_reduceError")
        ELSE /\ NodeStack' = NodeStack \o TriviaTokens(buffer, q) \o <<Tok1>>
                               \o TriviaTokens(Tok1.hi, TriviaEnd(Tok1.hi))
             /\ buffer' = TriviaEnd(Tok1.hi)
             /\ ContextStack' =
                  TopContext([ContextWith("TildeParselet_reduceTilde")
                                EXCEPT !.Prec = PRECEDENCE.TILDE])
             /\ ParsePrefix(AfterOperator(Tok1))
             /\ UNCHANGED frames
     /\ UNCHANGED <<input, GroupStack, exprs, aborted>>

TildeParselet_reduce ==
  /\ \/ ReduceContext("TildeParselet_reduceTilde", "Ternary", "TernaryTilde",
                      "Parser_parseClimb")
     \/ ReduceContext("TildeParselet_reduceError", "SyntaxError", "ExpectedTilde",
                      "Parser_tryContinue")
  /\ UNCHANGED GroupStack

\* What a colon is depends on the operand to its left.
ColonParselet_parseInfix ==
  LET Colon(F, Prec) ==
        TakeOperand(call.tok, [ContextWith(F) EXCEPT !.Prec = Prec])
  IN /\ Infix("Colon")
     /\ \/ /\ Parser_checkColonLHS = "COLONLHS_PATTERN"
           /\ Colon("ColonParselet_reducePattern", PRECEDENCE.FAKE_PATTERNCOLON)
        \/ /\ Parser_checkColonLHS = "COLONLHS_OPTIONAL"
           /\ Colon("ColonParselet_reduceOptional", PRECEDENCE.FAKE_OPTIONALCOLON)
        \/ /\ Parser_checkColonLHS = "COLONLHS_ERROR"
           /\ Colon("ColonParselet_reduceError", PRECEDENCE.FAKE_PATTERNCOLON)
     /\ UNCHANGED <<input, GroupStack, frames, exprs, aborted>>

ColonParselet_reduce ==
  \/ Reduce("ColonParselet_reducePattern", "Binary", "Pattern")
  \/ Reduce("ColonParselet_reduceError", "SyntaxError", "ExpectedSymbol")
  \/ Reduce("ColonParselet_reduceOptional", "Binary", "Optional")

SlashColonParselet_parseInfix ==
  /\ Infix("SlashColon")
  /\ TakeOperand(call.tok, ContextWith("SlashColonParselet_parse1"))
  /\ UNCHANGED <<input, GroupStack, frames, exprs, aborted>>

TagFunction(tok) == IF tok = "EQUAL" THEN "EqualParselet_parseInfixTag"
                                     ELSE "ColonEqualParselet_parseInfixTag"

SlashColonParselet_parse1 ==
  LET q   == TriviaEnd(buffer)
      Tok == Tokenizer_currentToken(q)
  IN /\ Looping("SlashColonParselet_parse1")
     /\ IF Tok.op \in {"EQUAL", "COLONEQUAL"}
        THEN /\ NodeStack' = NodeStack \o TriviaTokens(buffer, q)
             /\ buffer' = q
             /\ ContextStack' = TopContext([Parser_topContext EXCEPT
                                              !.Prec = PRECEDENCE.EQUAL])
             /\ Jump(TagFunction(Tok.op), NoParselet, Tok)
             /\ UNCHANGED frames
        ELSE EndLoop(q, "SlashColonParselet_reduceError")
     /\ UNCHANGED <<input, GroupStack, exprs, aborted>>

SlashColonParselet_reduceError ==
  Reduce("SlashColonParselet_reduceError", "SyntaxError", "ExpectedSet")

\* The operator  = . , when the token after = is a dot.
TakeUnset(reduceFn) ==
  LET Dot == AfterOperator(call.tok)
  IN /\ Dot.op = "DOT"
     /\ NodeStack' = Append(WithOperator(call.tok), Dot)
     /\ buffer' = Dot.hi
     /\ Goto(reduceFn)
     /\ UNCHANGED ContextStack

EqualParselet_parseInfix ==
  /\ Infix("Equal")
  /\ \/ TakeUnset("EqualParselet_reduceUnset")
     \/ /\ AfterOperator(call.tok).op # "DOT"
        /\ TakeOperand(call.tok, ContextWith("EqualParselet_reduceSet"))
  /\ UNCHANGED <<input, GroupStack, frames, exprs, aborted>>

EqualParselet_parseInfixTag ==
  /\ Looping("EqualParselet_parseInfixTag")
  /\ \/ TakeUnset("EqualParselet_reduceTagUnset")
     \/ /\ AfterOperator(call.tok).op # "DOT"
        /\ TakeOperand(call.tok, ContextWith("EqualParselet_reduceTagSet"))
  /\ UNCHANGED <<input, GroupStack, frames, exprs, aborted>>

EqualParselet_reduce ==
  \/ Reduce("EqualParselet_reduceSet", "Binary", "Set")
  \/ Reduce("EqualParselet_reduceUnset", "Binary", "Unset")
  \/ Reduce("EqualParselet_reduceTagSet", "Ternary", "TagSet")
  \/ Reduce("EqualParselet_reduceTagUnset", "Ternary", "TagUnset")

ColonEqualParselet_parseInfix ==
  /\ Infix("ColonEqual")
  /\ TakeOperand(call.tok, ContextWith("ColonEqualParselet_reduceSetDelayed"))
  /\ UNCHANGED <<input, GroupStack, frames, exprs, aborted>>

ColonEqualParselet_parseInfixTag ==
  /\ Looping("ColonEqualParselet_parseInfixTag")
  /\ TakeOperand(call.tok, ContextWith("ColonEqualParselet_reduceTagSetDelayed"))
  /\ UNCHANGED <<input, GroupStack, frames, exprs, aborted>>

ColonEqualParselet_reduce ==
  \/ Reduce("ColonEqualParselet_reduceSetDelayed", "Binary", "SetDelayed")
  \/ Reduce("ColonEqualParselet_reduceTagSetDelayed", "Ternary", "TagSetDelayed")

\* These check for an abort before they have parsed an operand of their own.
TagAndSpan_abort ==
  /\ call.fn \in {"EqualParselet_parseInfixTag", "ColonEqualParselet_parseInfixTag",
                  "SemiSemiParselet_parse1"}
  /\ aborted
  /\ NodeStack' = Append(NodesBelow(NodeStack), AbortNode)
  /\ ContextStack' = Pop(ContextStack)
  /\ Goto("Parser_tryContinue")
  /\ UNCHANGED <<input, buffer, GroupStack, frames, exprs, aborted>>

-----------------------------------------------------------------------------
(* Spans                                                                   *)

\* With nothing to its left, a span starts at an implicit 1.
SemiSemiParselet_parsePrefix ==
  LET nodes == Append(NodeStack, Empty("FAKE_IMPLICITONE", call.tok))
  IN /\ Prefix("SemiSemi")
     /\ ~aborted
     /\ NodeStack' = nodes
     /\ ContextStack' = Parser_pushContext(nodes, PRECEDENCE.SEMISEMI)
     /\ Jump("parseInfix", New("SemiSemi"), call.tok)
     /\ UNCHANGED <<input, buffer, GroupStack, frames, exprs, aborted>>

SemiSemiParselet_parseInfix ==
  /\ Infix("SemiSemi")
  /\ TakeLeaf(call.tok)
  /\ Goto("SemiSemiParselet_parse1")
  /\ UNCHANGED <<input, ContextStack, GroupStack, frames, exprs, aborted>>

StartsSpanPart(t) == t.op \in PossibleBeginning \ {"SEMISEMI"}

\* After the first ;; .  A second one is taken only when something follows it
\* on the same line; otherwise what was read past the first is given back.
SemiSemiParselet_parse1 ==
  LET q         == TriviaButNotToplevelNewlinesEnd(buffer)
      SecondTok == Tokenizer_currentToken(q)
      nodes     == NodeStack \o TriviaTokens(buffer, q)
      All       == Append(nodes, Empty("FAKE_IMPLICITALL", SecondTok))
      r         == TriviaButNotToplevelNewlinesEnd(SecondTok.hi)
      ThirdTok  == Tokenizer_currentToken(r)
  IN /\ Looping("SemiSemiParselet_parse1")
     /\ \/ /\ SecondTok.op \notin PossibleBeginning
           /\ NodeStack' = All
           /\ buffer' = q
           /\ Goto("SemiSemiParselet_reduceBinary")
           /\ UNCHANGED ContextStack
        \/ /\ StartsSpanPart(SecondTok)
           /\ NodeStack' = nodes
           /\ buffer' = q
           /\ ContextStack' = TopContext(ContextWith("SemiSemiParselet_parse2"))
           /\ ParsePrefix(SecondTok)
        \/ /\ SecondTok.op = "SEMISEMI"
           /\ ~StartsSpanPart(ThirdTok)
           /\ NodeStack' = All
           /\ buffer' = Token_reset(SecondTok)
           /\ Goto("SemiSemiParselet_reduceBinary")
           /\ UNCHANGED ContextStack
        \/ /\ SecondTok.op = "SEMISEMI"
           /\ StartsSpanPart(ThirdTok)
           /\ NodeStack' = Append(All, SecondTok) \o TriviaTokens(SecondTok.hi, r)
           /\ buffer' = r
           /\ ContextStack' = TopContext(ContextWith("SemiSemiParselet_reduceTernary"))
           /\ ParsePrefix(ThirdTok)
     /\ UNCHANGED <<input, GroupStack, frames, exprs, aborted>>

\* After the second part.  Reading ahead past a second ;; takes two runs of
\* trivia and a token, which are given back in the opposite order.
SemiSemiParselet_parse2 ==
  LET q         == TriviaButNotToplevelNewlinesEnd(buffer)
      Trivia1   == TriviaTokens(buffer, q)
      ThirdTok  == Tokenizer_currentToken(q)
      r         == TriviaButNotToplevelNewlinesEnd(ThirdTok.hi)
      Trivia2   == TriviaTokens(ThirdTok.hi, r)
      FourthTok == Tokenizer_currentToken(r)
  IN /\ Looping("SemiSemiParselet_parse2")
     /\ \/ /\ ThirdTok.op # "SEMISEMI"
           /\ GiveBack(q)
           /\ Goto("SemiSemiParselet_reduceBinary")
           /\ UNCHANGED <<NodeStack, ContextStack>>
        \/ /\ ThirdTok.op = "SEMISEMI"
           /\ ~StartsSpanPart(FourthTok)
           /\ buffer' = TriviaSeq_reset(Token_reset(ThirdTok), Trivia1)
           /\ Goto("SemiSemiParselet_reduceBinary")
           /\ UNCHANGED <<NodeStack, ContextStack>>
        \/ /\ ThirdTok.op = "SEMISEMI"
           /\ StartsSpanPart(FourthTok)
           /\ NodeStack' = NodeStack \o Trivia1 \o <<ThirdTok>> \o Trivia2
           /\ buffer' = r
           /\ ContextStack' = TopContext(ContextWith("SemiSemiParselet_reduceTernary"))
           /\ ParsePrefix(FourthTok)
     /\ UNCHANGED <<input, GroupStack, frames, exprs, aborted>>

SemiSemiParselet_reduce ==
  \/ Reduce("SemiSemiParselet_reduceBinary", "Binary", "Span")
  \/ Reduce("SemiSemiParselet_reduceTernary", "Ternary", "Span")

-----------------------------------------------------------------------------
(* Integrals                                                               *)

\* With no integrand before the differential, the integrand is an implicit 1
\* and F is not set.
IntegralParselet_parsePrefix ==
  LET t     == call.tok
      ctxt  == NewContext(Len(NodeStack), PRECEDENCE.CLASS_INTEGRATIONOPERATORS)
      Tok   == AfterOperator(t)
  IN /\ Prefix("Integral")
     /\ ~aborted
     /\ buffer' = Tok.lo
     /\ IF Tok.op \in DifferentialDs
        THEN /\ NodeStack' = Append(WithOperator(t), Empty("FAKE_IMPLICITONE", Tok))
             /\ ContextStack' = Append(ContextStack, ctxt)
             /\ Jump("IntegralParselet_parse1", call.P, Tok)
        ELSE /\ NodeStack' = WithOperator(t)
             /\ ContextStack' = Append(ContextStack,
                  [ctxt EXCEPT !.F = "IntegralParselet_parse1", !.P = call.P])
             /\ ParsePrefix(Tok)
     /\ UNCHANGED <<input, GroupStack, frames, exprs, aborted>>

IntegralParselet_parse1 ==
  LET q   == TriviaEnd(buffer)
      Tok == Tokenizer_currentToken(q)
  IN /\ Looping("IntegralParselet_parse1")
     /\ IF Tok.op \notin DifferentialDs
        THEN EndLoop(q, "IntegralParselet_reduceIntegral")
        ELSE /\ NodeStack' = NodeStack \o TriviaTokens(buffer, q)
             /\ buffer' = q
             /\ ContextStack' = TopContext([ContextWith("IntegralParselet_reduceIntegrate")
                                              EXCEPT !.P = call.P])
             /\ ParsePrefix(Tok)
             /\ UNCHANGED frames
     /\ UNCHANGED <<input, GroupStack, exprs, aborted>>

IntegralParselet_reduce ==
  \/ Reduce("IntegralParselet_reduceIntegrate", "PrefixBinary", call.P.op)
  \/ Reduce("IntegralParselet_reduceIntegral", "Prefix", call.P.op2)

TernaryNext ==
  \/ TildeParselet_parseInfix
  \/ TildeParselet_parse1
  \/ TildeParselet_reduce
  \/ ColonParselet_parseInfix
  \/ ColonParselet_reduce
  \/ SlashColonParselet_parseInfix
  \/ SlashColonParselet_parse1
  \/ SlashColonParselet_reduceError
  \/ EqualParselet_parseInfix
  \/ EqualParselet_parseInfixTag
  \/ EqualParselet_reduce
  \/ ColonEqualParselet_parseInfix
  \/ ColonEqualParselet_parseInfixTag
  \/ ColonEqualParselet_reduce
  \/ TagAndSpan_abort
  \/ SemiSemiParselet_parsePrefix
  \/ SemiSemiParselet_parseInfix
  \/ SemiSemiParselet_parse1
  \/ SemiSemiParselet_parse2
  \/ SemiSemiParselet_reduce
  \/ IntegralParselet_parsePrefix
  \/ IntegralParselet_parse1
  \/ IntegralParselet_reduce

=============================================================================
