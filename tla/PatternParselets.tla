-------------------------- MODULE PatternParselets --------------------------
(***************************************************************************)
(* Symbols and blanks, which read each other with ordinary calls in every  *)
(* build, and slots and outputs.                                           *)
(***************************************************************************)
EXTENDS GroupParselets

\* Push a context that starts at the token just taken.
EnterContext(nodes, Prec) == ContextStack' = Parser_pushContext(nodes, Prec)

\* Mutant of TakePair: the second token is pushed and not passed.
TakePair_pushLeaf(t, s, toks, fn) ==
  /\ NodeStack' = Append(NodeStack, t) \o (IF s.op \in toks THEN <<s>> ELSE <<>>)
  /\ buffer' = t.hi
  /\ IF s.op \in toks
     THEN EnterContext(Append(NodeStack, t), PRECEDENCE.HIGHEST) /\ Goto(fn)
     ELSE UNCHANGED ContextStack /\ Goto("Parser_parseClimb")

\* Take the token t, and the token s after it when s is in toks: the two are
\* then a context of their own, to be reduced by fn.
TakePair(t, s, toks, fn) ==
  LET nodes == Append(NodeStack, t)
  IN IF s.op \in toks
     THEN /\ EnterContext(nodes, PRECEDENCE.HIGHEST)
          /\ NodeStack' = Append(nodes, s)
          /\ buffer' = s.hi
          /\ Goto(fn)
     ELSE /\ NodeStack' = nodes
          /\ buffer' = t.hi
          /\ Goto("Parser_parseClimb")
          /\ UNCHANGED ContextStack

\* Take t; the token s after it is read by the function fn, an ordinary call
\* that returns to reduceFn.
TakeAndCall(t, s, fn, P, reduceFn, reduceP) ==
  LET nodes == Append(NodeStack, t)
  IN /\ NodeStack' = nodes
     /\ buffer' = t.hi
     /\ EnterContext(nodes, PRECEDENCE.HIGHEST)
     /\ Jump(fn, P, s)
     /\ NativeCall(reduceFn, reduceP)

SymbolParselet_parsePrefix ==
  LET t   == call.tok
      Tok == Tokenizer_currentToken(t.hi)
  IN /\ Prefix("Symbol")
     /\ ~aborted
     /\ CASE Tok.op \in Unders ->
               TakeAndCall(t, Tok, "UnderParselet_parseInfixContextSensitive",
                           UnderParseletOf(Tok.op),
                           "SymbolParselet_reducePatternBlank",
                           UnderParseletOf(Tok.op))
          [] Tok.op = "UNDERDOT" ->
               TakeAndCall(t, Tok, "UnderDotParselet_parseInfixContextSensitive",
                           underDotParselet,
                           "SymbolParselet_reducePatternOptionalDefault",
                           underDotParselet)
          [] OTHER ->
               /\ TakeLeaf(t)
               /\ Goto("Parser_parseClimb")
               /\ UNCHANGED <<ContextStack, frames>>
     /\ UNCHANGED <<input, GroupStack, exprs, aborted>>

\* The functions that read the next part of a pattern take it and return.
ContextSensitive(fn) ==
  /\ Calling(fn)
  /\ ~aborted
  /\ TakeLeaf(call.tok)
  /\ Goto("return")
  /\ UNCHANGED <<input, ContextStack, GroupStack, frames, exprs, aborted>>

SymbolParselet_parseInfixContextSensitive ==
  ContextSensitive("SymbolParselet_parseInfixContextSensitive")

UnderDotParselet_parseInfixContextSensitive ==
  ContextSensitive("UnderDotParselet_parseInfixContextSensitive")

ContextSensitiveFns ==
  {"SymbolParselet_parseInfixContextSensitive",
   "UnderParselet_parseInfixContextSensitive",
   "UnderDotParselet_parseInfixContextSensitive"}

ContextSensitive_abort ==
  /\ call.fn \in ContextSensitiveFns
  /\ aborted
  /\ NodeStack' = Append(NodeStack, AbortNode)
  /\ Goto("return")
  /\ UNCHANGED <<input, buffer, ContextStack, GroupStack, frames, exprs, aborted>>

SymbolParselet_reduce ==
  \/ Reduce("SymbolParselet_reducePatternBlank", "Compound", call.P.op2)
  \/ Reduce("SymbolParselet_reducePatternOptionalDefault", "Compound",
            "PatternOptionalDefault")

\* A blank, with or without a head.  An error where the head should be is
\* taken as the head.  otherwise is what follows when there is no head.
BlankFrom(reduceFn, otherwise) ==
  LET t     == call.tok
      Tok   == Tokenizer_currentToken(t.hi)
      nodes == Append(NodeStack, t)
  IN CASE Tok.op = "SYMBOL" ->
            TakeAndCall(t, Tok, "SymbolParselet_parseInfixContextSensitive",
                        New("Symbol"), reduceFn, call.P)
       [] Tok.op = "ERROR_EXPECTEDLETTERLIKE" ->
            /\ NodeStack' = Append(nodes, Tok)
            /\ buffer' = Tok.hi
            /\ EnterContext(nodes, PRECEDENCE.HIGHEST)
            /\ Jump(reduceFn, call.P, NoToken)
            /\ UNCHANGED frames
       [] OTHER ->
            /\ TakeLeaf(t)
            /\ Goto(otherwise)
            /\ UNCHANGED <<ContextStack, frames>>

UnderParselet_parsePrefix ==
  /\ Prefix("Under")
  /\ ~aborted
  /\ BlankFrom("UnderParselet_reduceBlank", "Parser_parseClimb")
  /\ UNCHANGED <<input, GroupStack, exprs, aborted>>

UnderParselet_parseInfixContextSensitive ==
  /\ Calling("UnderParselet_parseInfixContextSensitive")
  /\ ~aborted
  /\ BlankFrom("UnderParselet_reduceBlankContextSensitive", "return")
  /\ UNCHANGED <<input, GroupStack, exprs, aborted>>

UnderParselet_reduceBlank ==
  Reduce("UnderParselet_reduceBlank", "Compound", call.P.op)

UnderParselet_reduceBlankContextSensitive ==
  /\ ReduceContext("UnderParselet_reduceBlankContextSensitive", "Compound",
                   call.P.op, "return")
  /\ UNCHANGED GroupStack

UnderDotParselet_parsePrefix ==
  /\ Prefix("UnderDot")
  /\ ~aborted
  /\ TakeLeaf(call.tok)
  /\ Goto("Parser_parseClimb")
  /\ UNCHANGED <<input, ContextStack, GroupStack, frames, exprs, aborted>>

-----------------------------------------------------------------------------
(* Slots and outputs                                                       *)

HashParselet_parsePrefix ==
  LET t == call.tok
  IN /\ Prefix("Hash")
     /\ ~aborted
     /\ TakePair(t, Tokenizer_currentToken_INSIDE_SLOT(t.hi),
                 {"INTEGER", "STRING"}, "HashParselet_reduceSlot")
     /\ UNCHANGED <<input, GroupStack, frames, exprs, aborted>>

HashHashParselet_parsePrefix ==
  LET t == call.tok
  IN /\ Prefix("HashHash")
     /\ ~aborted
     /\ TakePair(t, Tokenizer_currentToken(t.hi), {"INTEGER"},
                 "HashHashParselet_reduceSlotSequence")
     /\ UNCHANGED <<input, GroupStack, frames, exprs, aborted>>

PercentParselet_parsePrefix ==
  LET t == call.tok
  IN /\ Prefix("Percent")
     /\ ~aborted
     /\ TakePair(t, Tokenizer_currentToken(t.hi), {"INTEGER"},
                 "PercentParselet_reduceOut")
     /\ UNCHANGED <<input, GroupStack, frames, exprs, aborted>>

HashParselet_reduceSlot == Reduce("HashParselet_reduceSlot", "Compound", "Slot")

HashHashParselet_reduceSlotSequence ==
  Reduce("HashHashParselet_reduceSlotSequence", "Compound", "SlotSequence")

PercentParselet_reduceOut ==
  Reduce("PercentParselet_reduceOut", "Compound", "Out")

PatternNext ==
  \/ SymbolParselet_parsePrefix
  \/ SymbolParselet_parseInfixContextSensitive
  \/ UnderDotParselet_parseInfixContextSensitive
  \/ ContextSensitive_abort
  \/ SymbolParselet_reduce
  \/ UnderParselet_parsePrefix
  \/ UnderParselet_parseInfixContextSensitive
  \/ UnderParselet_reduceBlank
  \/ UnderParselet_reduceBlankContextSensitive
  \/ UnderDotParselet_parsePrefix
  \/ HashParselet_parsePrefix
  \/ HashHashParselet_parsePrefix
  \/ PercentParselet_parsePrefix
  \/ HashParselet_reduceSlot
  \/ HashHashParselet_reduceSlotSequence
  \/ PercentParselet_reduceOut

=============================================================================
