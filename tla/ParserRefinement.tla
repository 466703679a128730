-------------------------- MODULE ParserRefinement --------------------------
(***************************************************************************)
(* The two builds are the same parser.  The build with USE_MUSTTAIL, where *)
(* every continuation is in a context, is the specification; the default   *)
(* build, where a loop waits on the C++ stack for its operand and its      *)
(* context says only Parser_identity, implements it step for step.         *)
(***************************************************************************)
EXTENDS ParserProperties

\* The context of each loop, as it is when F is that loop.
TailContexts ==
  [i \in 1..Len(ContextStack) |->
     IF IsIdentity(ContextStack[i])
     THEN [ContextStack[i] EXCEPT !.F = LoopFor(i).fn, !.P = LoopFor(i).P]
     ELSE ContextStack[i]]

\* The calls that are ordinary ones in both builds.
TailFrames == SelectSeq(frames, LAMBDA frame : ~IsLoop(frame))

\* A return to a loop is the jump to the continuation of the top context.
TailCall ==
  IF Calling("return") /\ frames # <<>> /\ IsLoop(Top(frames))
  THEN [call EXCEPT !.fn = "Parser_tryContinue"] ELSE call

Musttail == INSTANCE ParserSession WITH USE_MUSTTAIL <- TRUE,
                                        ContextStack <- TailContexts,
                                        frames <- TailFrames,
                                        call <- TailCall

\* Each step of the default build is a step of the other or no step of it,
\* and the default build does not stop while the other could go on.
ImplementsMusttail == Musttail!FairSpec

=============================================================================
