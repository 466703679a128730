-------------------------- MODULE OperatorParselets --------------------------
(***************************************************************************)
(* The parseInfix functions of binary, infix, postfix, comma, semicolon    *)
(* and product operators, and the loops that collect an operator's         *)
(* operands.                                                               *)
(***************************************************************************)
EXTENDS Parser

\* parseInfix is called for a parselet of this class.
Infix(class) == Calling("parseInfix") /\ call.P.class = class /\ ~aborted

\* Every parseInfix that checks for an abort gives up its context, whose
\* nodes are the operand to its left.
parseInfix_abort ==
  /\ Calling("parseInfix")
  /\ call.P.class # "PostfixOperator"
  /\ aborted
  /\ NodeStack' = Append(NodesBelow(NodeStack), AbortNode)
  /\ ContextStack' = Pop(ContextStack)
  /\ Goto("Parser_tryContinue")
  /\ UNCHANGED <<input, buffer, GroupStack, frames, exprs, aborted>>

\* The functions that run after an operand give up that operand first.
AbortableLoops ==
  (LoopFns \ {"GroupParselet_parseLoop"})
    \union {"ColonColonParselet_parseLoop", "TildeParselet_parse1",
            "SlashColonParselet_parse1", "SemiSemiParselet_parse2",
            "IntegralParselet_parse1"}

\* Mutant of parseLoop_abort: a function that its context called stays there.
parseLoop_abort_keepsContext ==
  /\ call.fn \in AbortableLoops
  /\ aborted
  /\ NodeStack' = Append(NodesBelow(Pop(NodeStack)), AbortNode)
  /\ ContextStack' = IF Parser_topContext.F = call.fn THEN ContextStack
                                                     ELSE Pop(ContextStack)
  /\ Goto("Parser_tryContinue")
  /\ UNCHANGED <<input, buffer, GroupStack, frames, exprs, aborted>>

parseLoop_abort ==
  /\ call.fn \in AbortableLoops
  /\ aborted
  /\ NodeStack' = Append(NodesBelow(Pop(NodeStack)), AbortNode)
  /\ ContextStack' = Pop(ContextStack)
  /\ Goto("Parser_tryContinue")
  /\ UNCHANGED <<input, buffer, GroupStack, frames, exprs, aborted>>

BinaryOperatorParselet_parseInfix ==
  /\ Infix("BinaryOperator")
  /\ TakeOperand(call.tok,
                 [ContextWith("BinaryOperatorParselet_reduceBinaryOperator")
                    EXCEPT !.P = call.P])
  /\ UNCHANGED <<input, GroupStack, frames, exprs, aborted>>

BinaryOperatorParselet_reduceBinaryOperator ==
  Reduce("BinaryOperatorParselet_reduceBinaryOperator", "Binary", call.P.op)

PostfixOperatorParselet_parseInfix ==
  /\ Calling("parseInfix")
  /\ call.P.class = "PostfixOperator"
  /\ TakeLeaf(call.tok)
  /\ Jump("PostfixOperatorParselet_reducePostfixOperator", call.P, NoToken)
  /\ UNCHANGED <<input, ContextStack, GroupStack, frames, exprs, aborted>>

PostfixOperatorParselet_reducePostfixOperator ==
  Reduce("PostfixOperatorParselet_reducePostfixOperator", "Postfix", call.P.op)

-----------------------------------------------------------------------------
(* Loops.  At a loop's function the operand just parsed is at the top.      *)

\* Mutant of Looping: no check for an abort.
Looping_unchecked(fn) == Calling(fn)

Looping(fn) == Calling(fn) /\ ~aborted

\* The loop sees no operator of its own: what was peeked at is given back.
EndLoop(q, reduceFn) ==
  /\ GiveBack(q)
  /\ Jump(reduceFn, call.P, NoToken)
  /\ UNCHANGED <<NodeStack, ContextStack, frames>>

\* The operator t follows the trivia up to q: take both and the next operand.
ContinueLoop(q, t, loop) ==
  /\ NodeStack' = NodeStack \o TriviaTokens(buffer, q) \o <<t>>
                    \o TriviaTokens(t.hi, TriviaEnd(t.hi))
  /\ buffer' = TriviaEnd(t.hi)
  /\ ParsePrefix(AfterOperator(t))
  /\ LoopCall(loop, call.P)
  /\ UNCHANGED ContextStack

InfixOperatorParselet_parseInfix ==
  /\ Infix("InfixOperator")
  /\ TakeOperand(call.tok, LoopContext("InfixOperatorParselet_parseLoop", call.P))
  /\ LoopCall("InfixOperatorParselet_parseLoop", call.P)
  /\ UNCHANGED <<input, GroupStack, exprs, aborted>>

InfixOperatorParselet_parseLoop ==
  LET q    == TriviaEnd(buffer)
      Tok1 == Tokenizer_currentToken(q)
  IN /\ Looping("InfixOperatorParselet_parseLoop")
     /\ IF getOp(infixParselets[Tok1.op]) # call.P.op
        THEN EndLoop(q, "InfixOperatorParselet_reduceInfixOperator")
        ELSE ContinueLoop(q, Tok1, "InfixOperatorParselet_parseLoop")
     /\ UNCHANGED <<input, GroupStack, exprs, aborted>>

InfixOperatorParselet_reduceInfixOperator ==
  Reduce("InfixOperatorParselet_reduceInfixOperator", "Infix", call.P.op)

TimesParselet_parseInfix ==
  /\ Infix("Times")
  /\ TakeOperand(call.tok, LoopContext("TimesParselet_parseLoop", NoParselet))
  /\ LoopCall("TimesParselet_parseLoop", NoParselet)
  /\ UNCHANGED <<input, GroupStack, exprs, aborted>>

TimesAt(p) == LET peek == Tokenizer_currentToken(p)
              IN processImplicitTimes(infixParselets[peek.op], peek)

\* Mutant of TimesLoopEnd: there is no second peek.
TimesLoopEnd_onePeek == TriviaEnd(buffer)

\* A product by juxtaposition does not cross a toplevel newline, so when the
\* first peek finds one, the second stops at such a newline.
TimesLoopEnd ==
  LET first == TriviaEnd(buffer)
  IN IF TimesAt(first).op = "FAKE_IMPLICITTIMES"
     THEN TriviaButNotToplevelNewlinesEnd(
            TriviaSeq_reset(first, TriviaTokens(buffer, first)))
     ELSE first

TimesParselet_parseLoop ==
  LET q == TimesLoopEnd
  IN /\ Looping("TimesParselet_parseLoop")
     /\ IF infixParselets[TimesAt(q).op].class # "Times"
        THEN EndLoop(q, "TimesParselet_reduceTimes")
        ELSE ContinueLoop(q, TimesAt(q), "TimesParselet_parseLoop")
     /\ UNCHANGED <<input, GroupStack, exprs, aborted>>

TimesParselet_reduceTimes == Reduce("TimesParselet_reduceTimes", "Infix", "Times")

-----------------------------------------------------------------------------
(* Commas and semicolons.  Two in a row have an implicit Null between them. *)

\* The node stack is nodes; go round the loop again with nothing parsed.
ImplicitOperand(kind, t, nodes, loop) ==
  /\ NodeStack' = Append(nodes, Empty(kind, t))
  /\ Jump(loop, NoParselet, NoToken)

CommaParselet_parseInfix ==
  LET Tok2 == AfterOperator(call.tok)
  IN /\ Infix("Comma")
     /\ buffer' = Tok2.lo
     /\ ContextStack' = TopContext(LoopContext("CommaParselet_parseLoop", NoParselet))
     /\ IF Tok2.op \in Commas
        THEN /\ ImplicitOperand("ERROR_INFIXIMPLICITNULL", Tok2,
                                WithOperator(call.tok), "CommaParselet_parseLoop")
             /\ UNCHANGED frames
        ELSE /\ NodeStack' = WithOperator(call.tok)
             /\ ParsePrefix(Tok2)
             /\ LoopCall("CommaParselet_parseLoop", NoParselet)
     /\ UNCHANGED <<input, GroupStack, exprs, aborted>>

CommaParselet_parseLoop ==
  LET q     == TriviaEnd(buffer)
      Tok1  == Tokenizer_currentToken(q)
      Tok2  == AfterOperator(Tok1)
      nodes == NodeStack \o TriviaTokens(buffer, q) \o <<Tok1>>
                 \o TriviaTokens(Tok1.hi, Tok2.lo)
  IN /\ Looping("CommaParselet_parseLoop")
     /\ CASE Tok1.op \notin Commas ->
               EndLoop(q, "CommaParselet_reduceComma")
          [] Tok1.op \in Commas /\ Tok2.op \in Commas ->
               /\ ImplicitOperand("ERROR_INFIXIMPLICITNULL", Tok2, nodes,
                                  "CommaParselet_parseLoop")
               /\ buffer' = Tok2.lo
               /\ UNCHANGED <<ContextStack, frames>>
          [] OTHER -> ContinueLoop(q, Tok1, "CommaParselet_parseLoop")
     /\ UNCHANGED <<input, GroupStack, exprs, aborted>>

CommaParselet_reduceComma ==
  /\ ReduceContext("CommaParselet_reduceComma", "Infix", "Comma", "Parser_tryContinue")
  /\ UNCHANGED GroupStack

\* What follows a semicolon on the same line, when the node stack has become
\* nodes: another one, an operand, or nothing.
AfterSemi(nodes, Tok2) ==
  /\ buffer' = Tok2.lo
  /\ CASE Tok2.op = "SEMI" ->
            /\ ImplicitOperand("FAKE_IMPLICITNULL", Tok2, nodes, "SemiParselet_parseLoop")
            /\ UNCHANGED frames
       [] Tok2.op \in PossibleBeginning ->
            /\ NodeStack' = nodes
            /\ ParsePrefix(Tok2)
            /\ LoopCall("SemiParselet_parseLoop", NoParselet)
       [] OTHER ->
            /\ NodeStack' = Append(nodes, Empty("FAKE_IMPLICITNULL", Tok2))
            /\ Goto("SemiParselet_reduceCompoundExpression")
            /\ UNCHANGED frames

\* F is set only when the loop goes on.
SemiParselet_parseInfix ==
  LET t == call.tok
      q == TriviaButNotToplevelNewlinesEnd(t.hi)
      Tok2 == Tokenizer_currentToken(q)
  IN /\ Infix("Semi")
     /\ AfterSemi(Append(NodeStack, t) \o TriviaTokens(t.hi, q), Tok2)
     /\ IF Tok2.op \in PossibleBeginning \union {"SEMI"}
        THEN ContextStack' = TopContext(LoopContext("SemiParselet_parseLoop", NoParselet))
        ELSE UNCHANGED ContextStack
     /\ UNCHANGED <<input, GroupStack, exprs, aborted>>

\* Unlike parseInfix, the loop looks for its semicolon past toplevel newlines.
SemiParselet_parseLoop ==
  LET q    == TriviaEnd(buffer)
      Tok1 == Tokenizer_currentToken(q)
      r    == TriviaButNotToplevelNewlinesEnd(Tok1.hi)
  IN /\ Looping("SemiParselet_parseLoop")
     /\ IF Tok1.op # "SEMI"
        THEN EndLoop(q, "SemiParselet_reduceCompoundExpression")
        ELSE /\ AfterSemi(NodeStack \o TriviaTokens(buffer, q) \o <<Tok1>>
                            \o TriviaTokens(Tok1.hi, r),
                          Tokenizer_currentToken(r))
             /\ UNCHANGED ContextStack
     /\ UNCHANGED <<input, GroupStack, exprs, aborted>>

SemiParselet_reduceCompoundExpression ==
  Reduce("SemiParselet_reduceCompoundExpression", "Infix", "CompoundExpression")

OperatorNext ==
  \/ parseInfix_abort
  \/ parseLoop_abort
  \/ BinaryOperatorParselet_parseInfix
  \/ BinaryOperatorParselet_reduceBinaryOperator
  \/ PostfixOperatorParselet_parseInfix
  \/ PostfixOperatorParselet_reducePostfixOperator
  \/ InfixOperatorParselet_parseInfix
  \/ InfixOperatorParselet_parseLoop
  \/ InfixOperatorParselet_reduceInfixOperator
  \/ TimesParselet_parseInfix
  \/ TimesParselet_parseLoop
  \/ TimesParselet_reduceTimes
  \/ CommaParselet_parseInfix
  \/ CommaParselet_parseLoop
  \/ CommaParselet_reduceComma
  \/ SemiParselet_parseInfix
  \/ SemiParselet_parseLoop
  \/ SemiParselet_reduceCompoundExpression

=============================================================================
