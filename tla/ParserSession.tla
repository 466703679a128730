---------------------------- MODULE ParserSession ----------------------------
(***************************************************************************)
(* ParserSession::concreteParse: the loop that calls the parser for one    *)
(* top-level expression after another, and the parser as a whole.          *)
(***************************************************************************)
EXTENDS PatternParselets, TernaryParselets, StringifyParselets

Init ==
  /\ input \in Inputs
  /\ buffer = 0
  /\ NodeStack = <<>>
  /\ ContextStack = <<>>
  /\ GroupStack = <<>>
  /\ call = [fn |-> "concreteParse", P |-> NoParselet, tok |-> NoToken]
  /\ frames = <<>>
  /\ exprs = <<>>
  /\ aborted = FALSE

\* The head of the loop.  A closer here closes nothing.
concreteParse ==
  LET peek == Tokenizer_currentToken(buffer)
  IN /\ Calling("concreteParse")
     /\ \/ /\ aborted \/ peek.op = "ENDOFFILE"
           /\ Goto("done")
           /\ UNCHANGED <<buffer, exprs>>
        \/ /\ ~aborted
           /\ peek.op \in Trivia
           /\ exprs' = Append(exprs, peek)
           /\ buffer' = peek.hi
           /\ UNCHANGED call
        \/ /\ ~aborted
           /\ peek.op \in CloserTokens
           /\ Jump("parsePrefix", prefixToplevelCloserParselet, peek)
           /\ UNCHANGED <<buffer, exprs>>
        \/ /\ ~aborted
           /\ peek.op \notin Trivia \union CloserTokens \union {"ENDOFFILE"}
           /\ ParsePrefix(peek)
           /\ UNCHANGED <<buffer, exprs>>
     /\ UNCHANGED <<input, NodeStack, ContextStack, GroupStack, frames, aborted>>

\* The rest of the loop, when the parselet has returned.
concreteParse_push ==
  /\ Calling("return")
  /\ frames = <<>>
  /\ exprs' = Append(exprs, Top(NodeStack))
  /\ NodeStack' = Pop(NodeStack)
  /\ Goto("concreteParse")
  /\ UNCHANGED <<input, buffer, ContextStack, GroupStack, frames, aborted>>

\* The user aborts the evaluation, which abortQ() reports from then on.
Abort ==
  /\ AbortAllowed
  /\ ~aborted
  /\ ~Calling("done")
  /\ aborted' = TRUE
  /\ UNCHANGED <<input, buffer, NodeStack, ContextStack, GroupStack, call,
                 frames, exprs>>

\* A step of the one thread that parses.  No action stands for a function
\* that is behind assert(false): a state that calls one is a deadlock.
Step ==
  \/ concreteParse
  \/ concreteParse_push
  \/ Parser_parseClimb
  \/ Parser_parseClimb_abort
  \/ Parser_tryContinue
  \/ Return
  \/ PrefixNext
  \/ OperatorNext
  \/ GroupNext
  \/ PatternNext
  \/ TernaryNext
  \/ StringifyNext

Terminated == Calling("done") /\ UNCHANGED vars

Next == Step \/ Abort \/ Terminated

Spec == Init /\ [][Next]_vars

\* The thread runs until concreteParse returns.
FairSpec == Spec /\ WF_vars(Step)

=============================================================================
