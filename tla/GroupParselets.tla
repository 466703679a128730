--------------------------- MODULE GroupParselets ---------------------------
(***************************************************************************)
(* Groups, and calls, whose body is a group.                               *)
(***************************************************************************)
EXTENDS PrefixParselets, OperatorParselets

GroupParselet_parsePrefix ==
  LET nodes == Append(NodeStack, call.tok)
      ctxt  == NewContext(Len(nodes) - 1, PRECEDENCE.LOWEST)
  IN /\ Prefix("Group")
     /\ ~aborted
     /\ TakeLeaf(call.tok)
     /\ GroupStack' = Append(GroupStack, GroupOpenerToCloser(call.tok.op))
     /\ ContextStack' =
          Append(ContextStack,
                 IF USE_MUSTTAIL
                 THEN [ctxt EXCEPT !.F = "GroupParselet_parseLoop", !.P = call.P]
                 ELSE [ctxt EXCEPT !.F = "Parser_identity"])
     /\ Jump("GroupParselet_parseLoop", call.P, NoToken)
     /\ UNCHANGED <<input, frames, exprs, aborted>>

\* The loop parses the token t, which follows the trivia up to q, with the
\* parselet P.
ParseInGroup(q, P, t) ==
  /\ NodeStack' = NodeStack \o TriviaTokens(buffer, q)
  /\ buffer' = q
  /\ Jump("parsePrefix", P, t)
  /\ LoopCall("GroupParselet_parseLoop", call.P)
  /\ UNCHANGED ContextStack

\* The group's closer ends it; the closer of a group around it, or the end of
\* the file, ends it as an error; a closer of no group is an error inside it.
GroupParselet_parseLoop ==
  LET q   == TriviaEnd(buffer)
      Tok == Tokenizer_currentToken(q)
  IN /\ Looping("GroupParselet_parseLoop")
     /\ CASE TokenToCloser(Tok.op) = call.P.closer ->
               /\ NodeStack' = NodeStack \o TriviaTokens(buffer, q) \o <<Tok>>
               /\ buffer' = Tok.hi
               /\ Jump("GroupParselet_reduceGroup", call.P, NoToken)
               /\ UNCHANGED <<ContextStack, frames>>
          [] /\ TokenToCloser(Tok.op) # call.P.closer
             /\ Tok.op \in CloserTokens
             /\ Parser_checkGroup(TokenToCloser(Tok.op)) ->
               EndLoop(q, "GroupParselet_reduceMissingCloser")
          [] /\ TokenToCloser(Tok.op) # call.P.closer
             /\ Tok.op \in CloserTokens
             /\ ~Parser_checkGroup(TokenToCloser(Tok.op)) ->
               ParseInGroup(q, prefixToplevelCloserParselet, Tok)
          [] Tok.op = "ENDOFFILE" ->
               EndLoop(q, "GroupParselet_reduceUnterminatedGroup")
          [] OTHER -> ParseInGroup(q, prefixParselets[Tok.op], Tok)
     /\ UNCHANGED <<input, GroupStack, exprs, aborted>>

\* Mutant of the next action: Parser_popGroup is forgotten.
GroupParselet_parseLoop_abort_keepsGroup ==
  /\ Calling("GroupParselet_parseLoop")
  /\ aborted
  /\ NodeStack' = Append(NodesBelow(Pop(NodeStack)), AbortNode)
  /\ ContextStack' = Pop(ContextStack)
  /\ Goto("Parser_tryContinue")
  /\ UNCHANGED <<input, buffer, GroupStack, frames, exprs, aborted>>

GroupParselet_parseLoop_abort ==
  /\ Calling("GroupParselet_parseLoop")
  /\ aborted
  /\ NodeStack' = Append(NodesBelow(Pop(NodeStack)), AbortNode)
  /\ ContextStack' = Pop(ContextStack)
  /\ GroupStack' = Pop(GroupStack)
  /\ Goto("Parser_tryContinue")
  /\ UNCHANGED <<input, buffer, frames, exprs, aborted>>

\* Mutant of GroupParselet_reduce: a group without its closer stays open.
GroupParselet_reduce_keepsGroup ==
  \/ /\ \/ ReduceContext("GroupParselet_reduceGroup", "Group", call.P.op,
                         "Parser_parseClimb")
        \/ ReduceContext("GroupParselet_reduceUnterminatedGroup",
                         "UnterminatedGroupNeedsReparse", call.P.op,
                         "Parser_tryContinue")
     /\ GroupStack' = Pop(GroupStack)
  \/ /\ ReduceContext("GroupParselet_reduceMissingCloser", "GroupMissingCloser",
                      call.P.op, "Parser_tryContinue")
     /\ UNCHANGED GroupStack

\* Only a closed group can be an operand of an operator to its right.
GroupParselet_reduce ==
  /\ \/ ReduceContext("GroupParselet_reduceGroup", "Group", call.P.op,
                      "Parser_parseClimb")
     \/ ReduceContext("GroupParselet_reduceMissingCloser", "GroupMissingCloser",
                      call.P.op, "Parser_tryContinue")
     \/ ReduceContext("GroupParselet_reduceUnterminatedGroup",
                      "UnterminatedGroupNeedsReparse", call.P.op,
                      "Parser_tryContinue")
  /\ GroupStack' = Pop(GroupStack)

\* GP, the parselet of the group, has the opener and operator of this one.
CallParselet_parseInfix ==
  /\ Infix("Call")
  /\ ContextStack' = TopContext([ContextWith("CallParselet_reduceCall")
                                   EXCEPT !.Prec = PRECEDENCE.HIGHEST])
  /\ Jump("parsePrefix", [New("Group") EXCEPT !.op = call.P.op,
                                              !.closer = call.P.closer], call.tok)
  /\ UNCHANGED <<input, buffer, NodeStack, GroupStack, frames, exprs, aborted>>

\* The body, the group at the top, is a child like the head is.
CallParselet_reduceCall == Reduce("CallParselet_reduceCall", "Call", "Call")

GroupNext ==
  \/ GroupParselet_parsePrefix
  \/ GroupParselet_parseLoop
  \/ GroupParselet_parseLoop_abort
  \/ GroupParselet_reduce
  \/ CallParselet_parseInfix
  \/ CallParselet_reduceCall

=============================================================================
