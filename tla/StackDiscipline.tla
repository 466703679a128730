-------------------------- MODULE StackDiscipline --------------------------
(***************************************************************************)
(* The discipline that the functions of the parser keep on the node stack, *)
(* the context stack and the native calls: which of them holds when a      *)
(* function is called.  It is the inductive invariant behind the type      *)
(* invariant; n is the length of the node stack, C the contexts, frs the   *)
(* frames and fn the function that is called.                              *)
(***************************************************************************)
EXTENDS ParserProperties

\* What a native call of Symbol or Under returns to, and the one that is
\* itself called natively.
PatternReduces == {"SymbolParselet_reducePatternBlank",
                   "SymbolParselet_reducePatternOptionalDefault",
                   "UnderParselet_reduceBlank"}

InnerReduce == "UnderParselet_reduceBlankContextSensitive"

\* The functions that run in the top context: its parseInfix, its loop or
\* continuation, its reduction.
RunningFns ==
  {"parseInfix"} \union LoopFns \union (ReduceFns \ {InnerReduce})
    \union (ParseFns \ ContextSensitiveFns)

\* The contexts are nested in the node stack, and the first is at its bottom.
Nested(n, C) ==
  /\ \A i \in 1..Len(C) : C[i].Index < n
  /\ \A i, j \in 1..Len(C) : i < j => C[i].Index < C[j].Index
  /\ C # <<>> => C[1].Index = 0

\* There is an operand at the top, after the first node of the top context.
HasOperand(n, C) == IF C = <<>> THEN n = 1 ELSE C[Len(C)].Index + 2 <= n

\* The F of the context that a frame will run in.
SuspendedF(frame) == IF IsLoop(frame) THEN "Parser_identity" ELSE "NULL"

\* g maps every frame to the context that it will run in ...
Owner(g, C, frs) ==
  /\ g \in [1..Len(frs) -> 1..Len(C)]
  /\ \A i, j \in 1..Len(frs) : i < j => g[i] < g[j]
  /\ \A i \in 1..Len(frs) : C[g[i]].F = SuspendedF(frs[i])

\* ... and each of the first k contexts that names no continuation is one of
\* those.
AllOwned(g, C, k) ==
  \A i \in 1..k : C[i].F \in {"NULL", "Parser_identity"} =>
                    \E j \in DOMAIN g : g[j] = i

OnlyLoops(frs) == \A i \in 1..Len(frs) : IsLoop(frs[i])

\* A native call of Symbol or Under, or two, at the top of the frames.
PatternFrames(frs) ==
  \/ Len(frs) >= 1 /\ OnlyLoops(Pop(frs)) /\ Top(frs).fn \in PatternReduces
  \/ /\ Len(frs) >= 2
     /\ OnlyLoops(Pop(Pop(frs)))
     /\ Top(Pop(frs)).fn \in PatternReduces
     /\ Top(frs).fn = InnerReduce

\* The top frame runs in the top context, and so on for the inner reduction.
TopOwned(g, C, frs) ==
  /\ frs = <<>> => C = <<>>
  /\ frs # <<>> => g[Len(frs)] = Len(C)
  /\ Len(frs) >= 2 /\ Top(frs).fn = InnerReduce => g[Len(frs) - 1] = Len(C) - 1

\* No operand is parsed natively but by loops, and their contexts are known.
Operating(C, frs) ==
  /\ OnlyLoops(frs)
  /\ \E g \in [1..Len(frs) -> 1..Len(C)] :
       Owner(g, C, frs) /\ AllOwned(g, C, Len(C))

\* A function is called to parse an operand.
Expecting(n, C, frs) ==
  Nested(n, C) /\ (C = <<>> => n = 0) /\ Operating(C, frs)

\* An operand is complete.
Complete(n, C, frs) == Nested(n, C) /\ HasOperand(n, C) /\ Operating(C, frs)

\* The top context is that of the function itself.
Running(n, C, frs) ==
  /\ Nested(n, C)
  /\ C # <<>>
  /\ OnlyLoops(frs)
  /\ \E g \in [1..Len(frs) -> 1..Len(C)] :
       /\ Owner(g, C, frs)
       /\ \A j \in 1..Len(frs) : g[j] < Len(C)
       /\ AllOwned(g, C, Len(C) - 1)

\* A function of Symbol or Under reads the next part of a pattern.
ReadingPattern(n, C, frs) ==
  /\ Nested(n, C)
  /\ C # <<>>
  /\ PatternFrames(frs)
  /\ \E g \in [1..Len(frs) -> 1..Len(C)] :
       Owner(g, C, frs) /\ AllOwned(g, C, Len(C)) /\ TopOwned(g, C, frs)

ReducingInner(n, C, frs) ==
  /\ Nested(n, C)
  /\ C # <<>>
  /\ PatternFrames(frs)
  /\ Top(frs).fn # InnerReduce
  /\ \E g \in [1..Len(frs) -> 1..Len(C)] :
       /\ Owner(g, C, frs)
       /\ AllOwned(g, C, Len(C) - 1)
       /\ g[Len(frs)] = Len(C) - 1

Returning(n, C, frs) ==
  /\ Nested(n, C)
  /\ HasOperand(n, C)
  /\ OnlyLoops(frs) \/ PatternFrames(frs)
  /\ \E g \in [1..Len(frs) -> 1..Len(C)] :
       Owner(g, C, frs) /\ AllOwned(g, C, Len(C)) /\ TopOwned(g, C, frs)

Discipline(n, C, frs, fn) ==
  /\ fn \in {"concreteParse", "done"} => n = 0 /\ C = <<>> /\ frs = <<>>
  /\ fn = "parsePrefix" => Expecting(n, C, frs)
  /\ fn \in {"Parser_parseClimb", "Parser_tryContinue"} => Complete(n, C, frs)
  /\ fn \in RunningFns => Running(n, C, frs)
  /\ fn \in ContextSensitiveFns => ReadingPattern(n, C, frs)
  /\ fn = "UnderParselet_parseInfixContextSensitive" => Top(frs).fn # InnerReduce
  /\ fn = InnerReduce => ReducingInner(n, C, frs)
  /\ fn = "return" => Returning(n, C, frs)

\* Every function finds the stacks as the functions before it must leave them,
\* in both builds and after an abort: the contexts that wait for a native
\* return are those of the calls on the C++ stack, in their order.
StackDiscipline ==
  Discipline(Len(NodeStack), ContextStack, frames, call.fn)

-----------------------------------------------------------------------------
(* The two places of a loop                                                *)

\* The continuations that a context of this build can have.
HasFOfBuild(ctxt) ==
  IF USE_MUSTTAIL THEN ctxt.F # "Parser_identity" ELSE ctxt.F \notin LoopFns

BuildContext == {ctxt \in Context : HasFOfBuild(ctxt)}

\* The F that a loop leaves in its context.
LoopF(loop) == IF USE_MUSTTAIL THEN loop ELSE "Parser_identity"

\* A loop that runs finds its context as it left it: with itself as F in the
\* build with USE_MUSTTAIL, with Parser_identity in the default build, and
\* neither build has the continuations of the other.
LoopsInPlace ==
  /\ ContextStack \in Seq(BuildContext)
  /\ call.fn \in LoopFns => Parser_topContext.F = LoopF(call.fn)

-----------------------------------------------------------------------------
(* The end of the file                                                     *)

Inside(t) == t.op # "ENDOFFILE" => t.hi <= Len(input)

\* The functions that take the token they are called with as an operator or
\* as the next part of a pattern.
TakingFns ==
  ContextSensitiveFns \union
    {"parseInfix", "EqualParselet_parseInfixTag", "ColonEqualParselet_parseInfixTag"}

\* The token ENDOFFILE lies behind the source.  It reaches no function that
\* would take it and move the read position there.
EndOfFileNotTaken ==
  /\ Inside(call.tok)
  /\ call.fn \in TakingFns => call.tok.op # "ENDOFFILE"
  /\ Calling("parsePrefix") /\ call.tok.op = "ENDOFFILE" =>
       call.P.class = "PrefixEndOfFile"

\* The inductive invariant.
Inv == TypeOK /\ StackDiscipline /\ LoopsInPlace /\ EndOfFileNotTaken

=============================================================================
