-------------------------- MODULE StringifyParselets --------------------------
(***************************************************************************)
(* Message names and file operators, whose right sides are read by the     *)
(* tokenizer's two other readers.                                          *)
(***************************************************************************)
EXTENDS GroupParselets

\* Append the operator t and the tag after it to the nodes.
TakeTag(nodes, t) ==
  LET tag == Tokenizer_currentToken_stringifyAsTag(t.hi)
  IN /\ NodeStack' = nodes \o <<t, tag>>
     /\ buffer' = tag.hi
     /\ Goto("ColonColonParselet_parseLoop")

ColonColonParselet_parseInfix ==
  /\ Infix("ColonColon")
  /\ TakeTag(NodeStack, call.tok)
  /\ UNCHANGED <<input, ContextStack, GroupStack, frames, exprs, aborted>>

\* No operand is parsed, so this loop never leaves its function.
ColonColonParselet_parseLoop ==
  LET q    == TriviaEnd(buffer)
      Tok1 == Tokenizer_currentToken(q)
  IN /\ Looping("ColonColonParselet_parseLoop")
     /\ IF Tok1.op # "COLONCOLON"
        THEN EndLoop(q, "ColonColonParselet_reduceMessageName")
        ELSE /\ TakeTag(NodeStack \o TriviaTokens(buffer, q), Tok1)
             /\ UNCHANGED <<ContextStack, frames>>
     /\ UNCHANGED <<input, GroupStack, exprs, aborted>>

ColonColonParselet_reduceMessageName ==
  Reduce("ColonColonParselet_reduceMessageName", "Infix", "MessageName")

\* Parser_eatTrivia_stringifyAsFile, then the file name.
TakeFile(t, reduceFn) ==
  LET q    == FileTriviaEnd(t.hi)
      file == Tokenizer_currentToken_stringifyAsFile(q)
  IN /\ NodeStack' = Append(NodeStack, t) \o FileTriviaTokens(t.hi, q) \o <<file>>
     /\ buffer' = file.hi
     /\ Goto(reduceFn)

GreaterGreaterParselet_parseInfix ==
  /\ Infix("GreaterGreater")
  /\ TakeFile(call.tok, "GreaterGreaterParselet_reducePut")
  /\ UNCHANGED <<input, ContextStack, GroupStack, frames, exprs, aborted>>

GreaterGreaterParselet_reducePut ==
  Reduce("GreaterGreaterParselet_reducePut", "Binary", "Put")

GreaterGreaterGreaterParselet_parseInfix ==
  /\ Infix("GreaterGreaterGreater")
  /\ TakeFile(call.tok, "GreaterGreaterGreaterParselet_reducePutAppend")
  /\ UNCHANGED <<input, ContextStack, GroupStack, frames, exprs, aborted>>

GreaterGreaterGreaterParselet_reducePutAppend ==
  Reduce("GreaterGreaterGreaterParselet_reducePutAppend", "Binary", "PutAppend")

LessLessParselet_parsePrefix ==
  /\ Prefix("LessLess")
  /\ ~aborted
  /\ TakeFile(call.tok, "LessLessParselet_reduceGet")
  /\ ContextStack' = Append(ContextStack, NewContext(Len(NodeStack), PRECEDENCE.HIGHEST))
  /\ UNCHANGED <<input, GroupStack, frames, exprs, aborted>>

LessLessParselet_reduceGet == Reduce("LessLessParselet_reduceGet", "Prefix", "Get")

StringifyNext ==
  \/ ColonColonParselet_parseInfix
  \/ ColonColonParselet_parseLoop
  \/ ColonColonParselet_reduceMessageName
  \/ GreaterGreaterParselet_parseInfix
  \/ GreaterGreaterParselet_reducePut
  \/ GreaterGreaterGreaterParselet_parseInfix
  \/ GreaterGreaterGreaterParselet_reducePutAppend
  \/ LessLessParselet_parsePrefix
  \/ LessLessParselet_reduceGet

=============================================================================
