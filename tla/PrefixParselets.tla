--------------------------- MODULE PrefixParselets ---------------------------
(***************************************************************************)
(* The parsePrefix functions: what may stand where an operand is expected, *)
(* and the errors made of what may not.                                    *)
(***************************************************************************)
EXTENDS Parser

\* parsePrefix is called for a parselet of this class.
Prefix(class) == Calling("parsePrefix") /\ call.P.class = class

\* An operand with no operator to its right: back to the waiting context.
PushOperandError(t) ==
  /\ NodeStack' = Append(NodeStack, t)
  /\ Goto("Parser_tryContinue")

\* The parselets that run whether or not the parse was aborted.
NoAbortCheck == {"Leaf", "PrefixError"}

LeafParselet_reduceLeaf ==
  /\ Prefix("Leaf")
  /\ TakeLeaf(call.tok)
  /\ Goto("Parser_parseClimb")
  /\ UNCHANGED <<input, ContextStack, GroupStack, frames, exprs, aborted>>

PrefixErrorParselet_parsePrefix ==
  /\ Prefix("PrefixError")
  /\ TakeLeaf(call.tok)
  /\ Goto("Parser_tryContinue")
  /\ UNCHANGED <<input, ContextStack, GroupStack, frames, exprs, aborted>>

\* Every other parsePrefix begins with a check for an abort.
parsePrefix_abort ==
  /\ Calling("parsePrefix")
  /\ call.P.class \notin NoAbortCheck
  /\ aborted
  /\ PushOperandError(AbortNode)
  /\ UNCHANGED <<input, buffer, ContextStack, GroupStack, frames, exprs, aborted>>

\* What is missing before a closer or the end of the file.
MissingOperand(t) ==
  Empty(IF Parser_topPrecedence = PRECEDENCE.COMMA THEN "ERROR_INFIXIMPLICITNULL"
                                                   ELSE "ERROR_EXPECTEDOPERAND", t)

\* The closer is left for the group it closes.
PrefixCloserParselet_parsePrefix ==
  /\ Prefix("PrefixCloser")
  /\ ~aborted
  /\ PushOperandError(MissingOperand(call.tok))
  /\ UNCHANGED <<input, buffer, ContextStack, GroupStack, frames, exprs, aborted>>

\* Mutant of the next action: the end of the file is passed.
PrefixEndOfFileParselet_next ==
  /\ Prefix("PrefixEndOfFile")
  /\ ~aborted
  /\ PushOperandError(MissingOperand(call.tok))
  /\ buffer' = call.tok.hi
  /\ UNCHANGED <<input, ContextStack, GroupStack, frames, exprs, aborted>>

PrefixEndOfFileParselet_parsePrefix ==
  /\ Prefix("PrefixEndOfFile")
  /\ ~aborted
  /\ PushOperandError(MissingOperand(call.tok))
  /\ UNCHANGED <<input, buffer, ContextStack, GroupStack, frames, exprs, aborted>>

\* A closer no open group waits for.
PrefixToplevelCloserParselet_parsePrefix ==
  /\ Prefix("PrefixToplevelCloser")
  /\ ~aborted
  /\ PushOperandError([call.tok EXCEPT !.op = "ERROR_UNEXPECTEDCLOSER"])
  /\ buffer' = call.tok.hi
  /\ UNCHANGED <<input, ContextStack, GroupStack, frames, exprs, aborted>>

PrefixUnsupportedTokenParselet_parsePrefix ==
  /\ Prefix("PrefixUnsupportedToken")
  /\ ~aborted
  /\ PushOperandError([call.tok EXCEPT !.op = "ERROR_UNSUPPORTEDTOKEN"])
  /\ buffer' = call.tok.hi
  /\ UNCHANGED <<input, ContextStack, GroupStack, frames, exprs, aborted>>

PrefixCommaParselet_parsePrefix ==
  /\ Prefix("PrefixComma")
  /\ ~aborted
  /\ NodeStack' =
       Append(NodeStack,
              Empty(IF Parser_topPrecedence = PRECEDENCE.LOWEST
                    THEN "ERROR_PREFIXIMPLICITNULL" ELSE "ERROR_EXPECTEDOPERAND",
                    call.tok))
  /\ Goto("Parser_parseClimb")
  /\ UNCHANGED <<input, buffer, ContextStack, GroupStack, frames, exprs, aborted>>

\* An infix operator with nothing to its left.  The missing operand belongs
\* to the operator before it, as in  a + | b , unless this one binds tighter.
PrefixUnhandledParselet_parsePrefix ==
  LET t     == call.tok
      I     == infixParselets[t.op]
      nodes == Append(NodeStack, Empty("ERROR_EXPECTEDOPERAND", t))
      prec  == getPrecedence(I, nodes)
  IN /\ Prefix("PrefixUnhandled")
     /\ ~aborted
     /\ NodeStack' = nodes
     /\ IF BindsTighterThan(prec)
        THEN Goto("Parser_tryContinue") /\ UNCHANGED ContextStack
        ELSE /\ ContextStack' = Parser_pushContext(nodes, prec)
             /\ Jump("parseInfix", I, t)
     /\ UNCHANGED <<input, buffer, GroupStack, frames, exprs, aborted>>

PrefixOperatorParselet_parsePrefix ==
  LET t     == call.tok
      nodes == Append(NodeStack, t)
  IN /\ Prefix("PrefixOperator")
     /\ ~aborted
     /\ TakeOperator(t)
     /\ ContextStack' =
          Append(ContextStack,
                 [NewContext(Len(nodes) - 1, call.P.prec) EXCEPT
                    !.F = "PrefixOperatorParselet_reducePrefixOperator",
                    !.P = call.P])
     /\ ParsePrefix(AfterOperator(t))
     /\ UNCHANGED <<input, GroupStack, frames, exprs, aborted>>

PrefixOperatorParselet_reducePrefixOperator ==
  Reduce("PrefixOperatorParselet_reducePrefixOperator", "Prefix", call.P.op)

PrefixNext ==
  \/ LeafParselet_reduceLeaf
  \/ PrefixErrorParselet_parsePrefix
  \/ parsePrefix_abort
  \/ PrefixCloserParselet_parsePrefix
  \/ PrefixEndOfFileParselet_parsePrefix
  \/ PrefixToplevelCloserParselet_parsePrefix
  \/ PrefixUnsupportedTokenParselet_parsePrefix
  \/ PrefixCommaParselet_parsePrefix
  \/ PrefixUnhandledParselet_parsePrefix
  \/ PrefixOperatorParselet_parsePrefix
  \/ PrefixOperatorParselet_reducePrefixOperator

=============================================================================
