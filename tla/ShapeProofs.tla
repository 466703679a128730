---------------------------- MODULE ShapeProofs -----------------------------
(***************************************************************************)
(* The functions that take operators, and the reductions, keep Shaped.  So *)
(* every node has the children of its kind, and no assert(false) is        *)
(* reached.                                                                *)
(***************************************************************************)
EXTENDS OperandProofs

-----------------------------------------------------------------------------
(* Steps that leave the contexts below the top one as they are             *)

\* The top context is the same one, with other fields at most.
StaysOn(ctxt) ==
  /\ \/ ContextStack' = TopContext(ctxt)
     \/ ContextStack' = ContextStack /\ ctxt = Parser_topContext
  /\ ctxt.Index = Parser_topContext.Index

\* A step that keeps the top context's start and may change its function.
LEMMA LevelNext ==
  ASSUME Inv, Inv', Fitting, Shaped, ContextStack # <<>>, NEW ctxt, StaysOn(ctxt),
         Grows(NodeStack, NodeStack'), LeavesOnly(NodeStack, NodeStack'),
         TopShaped(NodeStack', ctxt, call'), CallShaped(NodeStack', call')
  PROVE  Shaped'
  <1>1. Level(ContextStack, ContextStack') /\ Top(ContextStack') = ctxt
    <2>1. CASE ContextStack' = TopContext(ctxt)
      <3>1. ctxt \in Context
        BY <2>1, TopChanged
      <3> QED  BY <2>1, <3>1, TopLevel DEF StaysOn
    <2>2. CASE ContextStack' = ContextStack /\ ctxt = Parser_topContext
      BY <2>2, SameLevel DEF Parser_topContext
    <2> QED  BY <2>1, <2>2 DEF StaysOn
  <1> QED  BY <1>1, LevelShaped DEF LeavesOnly

\* A context opens a group as long as it is there.
LEMMA StillOpens ==
  ASSUME Inv, Fitting, ContextStack # <<>>, Grows(NodeStack, NodeStack'),
         NEW ctxt, ctxt.Index = Parser_topContext.Index
  PROVE  /\ Opens(NodeStack', ctxt) <=> Opens(NodeStack, Parser_topContext)
         /\ NodeStack'[ctxt.Index + 1] = NodeStack[Parser_topContext.Index + 1]
  <1>1. /\ Parser_topContext.Index \in Nat /\ Parser_topContext.Index < Len(NodeStack)
        /\ Len(NodeStack) \in Nat
    BY FittingParts
  <1>2. Parser_topContext.Index + 1 \in 1..Len(NodeStack)
    BY <1>1
  <1>3. NodeStack'[ctxt.Index + 1] = NodeStack[Parser_topContext.Index + 1]
    BY <1>2 DEF Grows, Agree
  <1> QED  BY <1>3 DEF Opens

\* Only the functions of a group run in its context.
LEMMA OpensForGroups ==
  ASSUME Inv, Fitting, call.fn \in WorkingFns, ContextStack # <<>>
  PROVE  Opens(NodeStack, Parser_topContext) <=> call.fn \in GroupFns
  <1>1. Busy(call.fn)
    BY DEF Busy, WorkingFns
  <1>2. GroupMark(Parser_topContext) <=> call.fn \in GroupFns
    BY <1>1, FittingParts DEF CallFits, TopFits
  <1> QED  BY <1>2, FittingParts DEF ContextFits

\* What waits in a context whose F is the loop or says to return to it.
LEMMA LoopWaits ==
  ASSUME Inv, Fitting, call.fn \in WorkingFns \ GroupFns, ContextStack # <<>>,
         Grows(NodeStack, NodeStack'), NEW ctxt, ctxt.Index = Parser_topContext.Index,
         NEW loop \in LoopFns \ {"GroupParselet_parseLoop"}, ctxt.F = LoopF(loop)
  PROVE  /\ WaitingFn(NodeStack', ctxt) \in ChainFns
         /\ ctxt.F \notin {"GroupParselet_parseLoop", "CallParselet_reduceCall"}
  <1>1. ~Opens(NodeStack', ctxt)
    BY StillOpens, OpensForGroups
  <1>2. loop \in ChainFns
    BY DEF LoopFns, ChainFns
  <1>3. loop \notin {"NULL", "Parser_identity", "GroupParselet_parseLoop",
                     "CallParselet_reduceCall"}
    BY DEF LoopFns
  <1> QED  BY <1>1, <1>2, <1>3 DEF WaitingFn, LoopF, ChainFns

\* Another operator and operand can come after what fn takes for what gn takes.
Follows(fn, gn) == \A n \in Lengths(fn) : n \in Odd /\ n + 2 \in Lengths(gn)

\* Which functions have more parts than which.
LEMMA FollowsFacts ==
  /\ \A gn \in ChainFns \union TripleFns : Follows("parseInfix", gn)
  /\ \A fn \in ChainFns, gn \in ChainFns : Follows(fn, gn)
  /\ \A fn \in TripleFns, gn \in QuintFns : Follows(fn, gn)
  <1>1. /\ Lengths("parseInfix") = {1}
        /\ \A gn \in ChainFns : Lengths(gn) = Odd \ {1}
        /\ \A gn \in TripleFns : Lengths(gn) = {3}
        /\ \A gn \in QuintFns : Lengths(gn) = {5}
    BY LengthOf
  <1>2. 1 + 2 = 3 /\ 3 + 2 = 5 /\ 3 # 1
    OBVIOUS
  <1>3. ASSUME NEW n \in Odd \ {1} PROVE n + 2 \in Odd \ {1}
    <2>1. n \in Nat /\ n + 1 \in Nat /\ n + 2 = (n + 1) + 1 /\ n # 0
      BY OddFacts
    <2>2. n + 1 \notin Odd
      BY <2>1, OddFacts
    <2>3. n + 2 \in Odd
      BY <2>1, <2>2, OddFacts
    <2> QED  BY <2>1, <2>3
  <1> QED  BY ZenonT(60), <1>1, <1>2, <1>3, OddFacts DEF Follows

\* With its operator a function waits for the next operand.
LEMMA LinearGoesOn ==
  ASSUME NEW fn \in LinearFns, NEW gn \in LinearFns, Follows(fn, gn),
         NEW parts \in Seq(Label), Form(fn, parts), NEW o \in Label, ~IsOperand(o)
  PROVE  Awaits(gn, Append(parts, o))
  <1> DEFINE more == Append(parts, o)
             n    == Len(parts)
  <1>1. n \in Lengths(fn) /\ Alternates(parts)
    BY LinearForm
  <1>2. n \in Odd /\ n + 2 \in Lengths(gn) /\ n \in Nat
    BY <1>1 DEF Follows
  <1>3. n + 1 \notin Odd /\ n + 2 \in Odd /\ (n + 1) + 1 = n + 2 /\ n + 1 # 0
    BY <1>2, OddFacts
  <1>4. Len(more) = n + 1 /\ (Alternates(parts) => Alternates(more))
    BY <1>3, PartAppended DEF Alternates
  <1> HIDE DEF more, n
  <1>5. Len(more) # 0 /\ Len(more) + 1 \in Lengths(gn) /\ Len(more) + 1 \in Odd
    BY <1>2, <1>3, <1>4
  <1> QED  BY <1>1, <1>4, <1>5, LinearForm DEF more

\* The next operand is read, with nodes that wait for it.
LEMMA ReadsNext ==
  ASSUME Inv, Inv', Fitting, Shaped, call.fn \in WorkingFns,
         Grows(NodeStack, NodeStack'), LeavesOnly(NodeStack, NodeStack'),
         NEW s, s.op \in Tokens \ Trivia, ParsePrefix(s), NEW ctxt, StaysOn(ctxt),
         ctxt.F \notin {"GroupParselet_parseLoop", "CallParselet_reduceCall"},
         NEW parts \in Seq(Label), Awaits(WaitingFn(NodeStack', ctxt), parts),
         PartsAre(NodeStack', Parser_topContext.Index, Len(NodeStack'), parts)
  PROVE  Shaped'
  <1>1. ContextStack # <<>>
    BY WorkingParts
  <1>2. call'.fn = "parsePrefix" /\ call'.fn \in ReadingFns /\ TokenFits(call')
    BY ParsedToken
  <1>3. Waiting(NodeStack', ctxt, Len(NodeStack'))
    BY DEF Waiting, StaysOn
  <1>4. TopShaped(NodeStack', ctxt, call')
    BY <1>2, <1>3, PhasesDiffer DEF TopShaped, TopWaits, CloserFits, CallWaits
  <1>5. CallShaped(NodeStack', call')
    BY <1>2, PhasesDiffer DEF CallShaped
  <1> QED  BY <1>1, <1>4, <1>5, LevelNext

\* An operator is taken after an operand, and its next operand read.
LEMMA OperatorShape ==
  ASSUME Inv, Inv', Fitting, Shaped, call.fn \in LinearFns \intersect WorkingFns,
         NEW t \in Token, t.op \notin Trivia \union OperandTokens,
         Took(NodeStack, NodeStack', t), LeavesOnly(NodeStack, NodeStack'),
         NEW s, s.op \in Tokens \ Trivia, ParsePrefix(s), NEW ctxt, StaysOn(ctxt),
         ctxt.F \notin {"GroupParselet_parseLoop", "CallParselet_reduceCall"},
         NEW gn \in LinearFns, gn = WaitingFn(NodeStack', ctxt), Follows(call.fn, gn)
  PROVE  Shaped'
  <1>1. /\ NodeStack \in Seq(Node) /\ Len(NodeStack) \in Nat
        /\ Parser_topContext.Index \in Nat /\ Parser_topContext.Index < Len(NodeStack)
    BY WorkingParts
  <1>2. PICK parts \in Seq(Label) :
             PartsAre(NodeStack, Parser_topContext.Index, Len(NodeStack), parts)
               /\ Form(call.fn, parts)
    BY WorkingParts
  <1>3. NodeStack' \in Seq(Node) /\ Parser_topContext.Index <= Len(NodeStack)
    BY <1>1, StackTypesNext
  <1>4. /\ PartsAre(NodeStack', Parser_topContext.Index, Len(NodeStack'),
                    Append(parts, LabelOf(t)))
        /\ Append(parts, LabelOf(t)) \in Seq(Label) /\ LabelOf(t) \in Label
    BY <1>1, <1>2, <1>3, TookParts
  <1>5. ~IsOperand(LabelOf(t))
    BY TokenIsLeaf
  <1>6. Awaits(gn, Append(parts, LabelOf(t)))
    BY <1>2, <1>4, <1>5, LinearGoesOn
  <1>7. Grows(NodeStack, NodeStack')
    BY DEF Took
  <1> QED  BY <1>4, <1>6, <1>7, ReadsNext

\* The operator of a parseInfix, or of a tagged assignment.
LEMMA TakeOperandShape ==
  ASSUME Inv, Inv', Fitting, Shaped, call.fn \in {"parseInfix"} \union TagFns,
         NEW ctxt, TakeOperand(call.tok, ctxt), ctxt.Index = Parser_topContext.Index,
         ctxt.F \notin {"GroupParselet_parseLoop", "CallParselet_reduceCall"},
         WaitingFn(NodeStack', ctxt) \in LinearFns,
         Follows(call.fn, WaitingFn(NodeStack', ctxt))
  PROVE  Shaped'
  <1> DEFINE t == call.tok
             s == AfterOperator(t)
  <1>1. /\ NodeStack' = WithOperator(t) /\ ContextStack' = TopContext(ctxt)
        /\ ParsePrefix(s)
    BY DEF TakeOperand, TakeOperator
  <1>2. t \in Token /\ t.hi \in 0..Len(input) /\ t.op \notin Trivia \union OperandTokens
    <2>1. CASE call.fn = "parseInfix"
      BY <2>1, InfixToken DEF Calling
    <2>2. CASE call.fn \in TagFns
      <3>1. t.op \in {"EQUAL", "COLONEQUAL"}
        BY <2>2 DEF Shaped, CallShaped, TokenFits
      <3>2. t.op \notin Trivia \union OperandTokens
        BY <3>1 DEF Trivia, Newlines, OperandTokens, Unders, Errors, TokenizerErrors,
                    ParserErrors, Fakes
      <3> QED  BY <2>2, <3>2, TagCall
    <2> QED  BY <2>1, <2>2
  <1>3. call.fn \in LinearFns \intersect WorkingFns
    BY DEF LinearFns, TripleFns, WorkingFns, RunningFns, TagFns, ParseFns,
           ContextSensitiveFns
  <1> HIDE DEF t
  <1>4. Took(NodeStack, NodeStack', t) /\ LeavesOnly(NodeStack, NodeStack')
    BY <1>1, <1>2, TakesOperator
  <1>5. s.op \in Tokens \ Trivia
    BY <1>2, EndOfTrivia DEF AfterOperator
  <1>6. StaysOn(ctxt)
    BY <1>1 DEF StaysOn
  <1> QED  BY <1>1, <1>2, <1>3, <1>4, <1>5, <1>6, OperatorShape

\* The operators that name what runs after their operand.
LEMMA TakePartShape ==
  ASSUME Inv, Inv', Fitting, Shaped, call.fn \in {"parseInfix"} \union TagFns,
         NEW ctxt, TakeOperand(call.tok, ctxt), ctxt.Index = Parser_topContext.Index,
         IF call.fn = "parseInfix" THEN ctxt.F \in TripleFns ELSE ctxt.F \in QuintFns
  PROVE  Shaped'
  <1>1. /\ ctxt.F \in LinearFns /\ ctxt.F \notin Unnamed
        /\ ctxt.F \notin {"GroupParselet_parseLoop", "CallParselet_reduceCall"}
    BY DEF LinearFns, TripleFns, QuintFns, TagFns, Unnamed
  <1>2. WaitingFn(NodeStack', ctxt) = ctxt.F
    BY <1>1 DEF WaitingFn, Unnamed
  <1>3. Follows(call.fn, ctxt.F)
    BY FollowsFacts DEF TripleFns, TagFns
  <1> QED  BY <1>1, <1>2, <1>3, TakeOperandShape

-----------------------------------------------------------------------------
(* Steps from one function that has its nodes to the next                  *)

\* A function that is called again, or calls another, among the same
\* contexts.
LEMMA WorksNext ==
  ASSUME Inv, Inv', Fitting, Shaped, call.fn \in WorkingFns,
         Grows(NodeStack, NodeStack'), LeavesOnly(NodeStack, NodeStack'),
         NEW ctxt, StaysOn(ctxt),
         \/ ctxt = Parser_topContext
         \/ ctxt.F \notin {"GroupParselet_parseLoop", "CallParselet_reduceCall"},
         call'.fn \in WorkingFns \ {"parseInfix"}, TokenFits(call'),
         call'.fn \in GroupFns => call.fn \in GroupFns /\ call'.P = call.P,
         NEW parts \in Seq(Label), Form(call'.fn, parts),
         PartsAre(NodeStack', Parser_topContext.Index, Len(NodeStack'), parts)
  PROVE  Shaped'
  <1>1. ContextStack # <<>> /\ TopShaped(NodeStack, Parser_topContext, call)
    BY WorkingParts
  <1>2. Ready(NodeStack', ctxt, call'.fn)
    BY DEF Ready, StaysOn
  <1>3. TopWaits(NodeStack', ctxt, call'.fn)
    BY <1>2, PhasesDiffer DEF TopWaits
  <1>4. NodeStack'[ctxt.Index + 1] = NodeStack[Parser_topContext.Index + 1]
    BY <1>1, StillOpens DEF StaysOn
  <1>5. CloserFits(NodeStack', ctxt, call')
    BY <1>1, <1>4 DEF TopShaped, CloserFits
  <1>6. CallWaits(NodeStack', ctxt, call')
    BY <1>1, PhasesDiffer DEF TopShaped, CallWaits
  <1>7. CallShaped(NodeStack', call')
    BY PhasesDiffer DEF CallShaped
  <1> QED  BY <1>1, <1>3, <1>5, <1>6, <1>7, LevelNext DEF TopShaped

\* The next function takes the same nodes.
LEMMA SameNodesShape ==
  ASSUME Inv, Inv', Fitting, Shaped, call.fn \in WorkingFns,
         UNCHANGED <<NodeStack, ContextStack>>,
         call'.fn \in WorkingFns \ {"parseInfix"}, TokenFits(call'),
         call'.fn \in GroupFns => call.fn \in GroupFns /\ call'.P = call.P,
         \A parts : Form(call.fn, parts) => Form(call'.fn, parts)
  PROVE  Shaped'
  <1>1. PICK parts \in Seq(Label) :
             PartsAre(NodeStack, Parser_topContext.Index, Len(NodeStack), parts)
               /\ Form(call.fn, parts)
    BY WorkingParts
  <1>2. Grows(NodeStack, NodeStack')
    BY Unchanged
  <1>3. LeavesOnly(NodeStack, NodeStack')
    BY StackTypes DEF LeavesOnly
  <1>4. StaysOn(Parser_topContext)
    BY DEF StaysOn
  <1>5. PartsAre(NodeStack', Parser_topContext.Index, Len(NodeStack'), parts)
    BY <1>1
  <1>6. Form(call'.fn, parts)
    BY <1>1
  <1> QED  BY <1>2, <1>3, <1>4, <1>5, <1>6, WorksNext

\* The functions with operands between are working functions.
LEMMA LinearWorks == LinearFns \subseteq WorkingFns \ GroupFns
  BY DEF LinearFns, ChainFns, TripleFns, QuintFns, PostfixedFns, TagFns, WorkingFns,
       RunningFns,
         LoopFns, ReduceFns, ParseFns, ContextSensitiveFns, InnerReduce, GroupFns

\* An operator and an operand are taken, a leaf each.
LEMMA OperandGiven ==
  ASSUME Inv, Inv', Fitting, Shaped, call.fn \in LinearFns,
         NEW t \in Token, t.op \notin Trivia \union OperandTokens, NEW mid \in Seq(Node),
         Took(NodeStack, mid, t), LeavesOnly(NodeStack, mid),
         NEW e \in Token, e.op \in OperandTokens, NodeStack' = Append(mid, e),
         NEW ctxt, StaysOn(ctxt),
         \/ ctxt = Parser_topContext
         \/ ctxt.F \notin {"GroupParselet_parseLoop", "CallParselet_reduceCall"},
         call'.fn \in LinearFns \ (TagFns \union {"parseInfix"}),
         Follows(call.fn, call'.fn)
  PROVE  Shaped'
  <1> DEFINE b == Parser_topContext.Index
             fn == call'.fn
  <1>1. /\ NodeStack \in Seq(Node) /\ Len(NodeStack) \in Nat
        /\ b \in Nat /\ b < Len(NodeStack) /\ call.fn \in WorkingFns
    BY LinearWorks, WorkingParts
  <1>2. PICK parts \in Seq(Label) :
             PartsAre(NodeStack, b, Len(NodeStack), parts) /\ Form(call.fn, parts)
    BY <1>1, WorkingParts
  <1>3. Grows(NodeStack, mid) /\ Len(mid) \in Nat /\ b <= Len(mid) /\ b <= Len(NodeStack)
    BY <1>1 DEF Took, Grows
  <1> DEFINE more == Append(parts, LabelOf(t))
  <1> HIDE DEF b, fn
  <1>4. PartsAre(mid, b, Len(mid), more) /\ more \in Seq(Label) /\ LabelOf(t) \in Label
    BY <1>1, <1>2, <1>3, TookParts
  <1>5. ~IsOperand(LabelOf(t)) /\ IsOperand(LabelOf(e)) /\ LabelOf(e) \in Label
    BY TokenIsLeaf
  <1>6. Awaits(fn, more)
    BY <1>2, <1>4, <1>5, LinearGoesOn DEF fn
  <1>7. Took(mid, Append(mid, e), e) /\ Append(mid, e) \in Seq(Node)
    <2>1. e \in Node /\ ~LeafIn(e, Trivia)
      BY TokenIsLeaf, TokenSets
    <2> QED  BY <2>1, TookOne
  <1> HIDE DEF more
  <1>8. /\ PartsAre(NodeStack', b, Len(NodeStack'), Append(more, LabelOf(e)))
        /\ Append(more, LabelOf(e)) \in Seq(Label)
    BY <1>1, <1>3, <1>4, <1>7, TookParts
  <1>9. Form(fn, Append(more, LabelOf(e)))
    <2>1. fn # "GroupParselet_reduceGroup" /\ fn # "CallParselet_reduceCall"
      BY LinearPlain DEF fn, GroupFns
    <2> QED  BY <1>4, <1>5, <1>6, <2>1, Completed
  <1>10. Grows(NodeStack, NodeStack') /\ LeavesOnly(NodeStack, NodeStack')
    <2>1. Grows(mid, NodeStack') /\ LeavesOnly(mid, NodeStack')
      <3>1. e.kind = "Leaf"
        BY TokenIsLeaf
      <3> QED  BY <1>7, <3>1, TookLeaves DEF Took
    <2>2. NodeStack' \in Seq(Node)
      BY <1>7
    <2> QED  BY <1>1, <1>3, <2>1, <2>2, GrowsFurther, LeavesThenLeaves
  <1>11. call'.fn \in WorkingFns \ (TagFns \union {"parseInfix"}) /\ call'.fn \notin GroupFns
    BY LinearWorks
  <1>12. TokenFits(call')
    BY <1>11, CalledForNoToken
  <1> QED  BY <1>1, <1>8, <1>9, <1>10, <1>11, <1>12, WorksNext DEF b, fn

-----------------------------------------------------------------------------
(* The contexts that operators leave                                       *)

\* The function and the start of a changed top context.
LEMMA PartFields ==
  ASSUME Inv, Fitting, ContextStack # <<>>, NEW F
  PROVE  /\ ContextWith(F).F = F /\ ContextWith(F).Index = Parser_topContext.Index
         /\ \A P : /\ [ContextWith(F) EXCEPT !.P = P].F = F
                   /\ [ContextWith(F) EXCEPT !.P = P].Index = Parser_topContext.Index
         /\ \A n : /\ [ContextWith(F) EXCEPT !.Prec = n].F = F
                   /\ [ContextWith(F) EXCEPT !.Prec = n].Prec = n
                   /\ [ContextWith(F) EXCEPT !.Prec = n].Index = Parser_topContext.Index
         /\ \A n : /\ [Parser_topContext EXCEPT !.Prec = n].F = Parser_topContext.F
                   /\ [Parser_topContext EXCEPT !.Prec = n].Index = Parser_topContext.Index
  <1>1. Parser_topContext \in [F : ContextFns, P : Parselet, Index : Nat, Prec : Nat]
    BY FittingParts DEF Context
  <1> QED  BY <1>1 DEF ContextWith

\* The function and the start of a loop's context.
LEMMA LoopFields ==
  ASSUME Inv, Fitting, ContextStack # <<>>, NEW loop, NEW P
  PROVE  /\ LoopContext(loop, P).F = LoopF(loop)
         /\ LoopContext(loop, P).Index = Parser_topContext.Index
  <1>1. Parser_topContext \in [F : ContextFns, P : Parselet, Index : Nat, Prec : Nat]
    BY FittingParts DEF Context
  <1> QED  BY <1>1 DEF LoopContext, LoopF

-----------------------------------------------------------------------------
(* Binary, infix, postfix, comma, semicolon and product operators          *)

\* BinaryOperatorParselet::parseInfix.
LEMMA BinaryShape ==
  ASSUME Inv, Inv', Fitting, Shaped, BinaryOperatorParselet_parseInfix
  PROVE  Shaped'
  <1> DEFINE F    == "BinaryOperatorParselet_reduceBinaryOperator"
             ctxt == [ContextWith(F) EXCEPT !.P = call.P]
  <1>1. call.fn = "parseInfix" /\ TakeOperand(call.tok, ctxt)
    BY DEF BinaryOperatorParselet_parseInfix, Infix, Calling
  <1>2. ContextStack # <<>>
    BY <1>1, InfixCall, TopOfRunning DEF Calling
  <1>3. ctxt.F = F /\ ctxt.Index = Parser_topContext.Index
    BY <1>2, PartFields
  <1>4. F \in TripleFns
    BY DEF TripleFns
  <1> HIDE DEF F, ctxt
  <1> QED  BY <1>1, <1>3, <1>4, TakePartShape

\* An operator's loop begins: its operator is taken.
LEMMA LoopBegins ==
  ASSUME Inv, Inv', Fitting, Shaped, Calling("parseInfix"),
         NEW loop \in LoopFns \ {"GroupParselet_parseLoop"}, NEW P,
         ContextStack' = TopContext(LoopContext(loop, P)),
         Took(NodeStack, NodeStack', call.tok), LeavesOnly(NodeStack, NodeStack'),
         NEW s, s.op \in Tokens \ Trivia, ParsePrefix(s)
  PROVE  Shaped'
  <1> DEFINE ctxt == LoopContext(loop, P)
             gn   == WaitingFn(NodeStack', ctxt)
  <1>1. call.tok \in Token /\ call.tok.op \notin Trivia \union OperandTokens
    BY InfixToken
  <1>2. /\ call.fn \in LinearFns \intersect WorkingFns /\ call.fn \in WorkingFns \ GroupFns
        /\ call.fn = "parseInfix"
    BY LinearWorks DEF LinearFns, Calling
  <1>3. ContextStack # <<>>
    BY <1>2, WorkingParts
  <1>4. ctxt.F = LoopF(loop) /\ ctxt.Index = Parser_topContext.Index /\ StaysOn(ctxt)
    BY <1>3, LoopFields DEF StaysOn
  <1>5. Grows(NodeStack, NodeStack')
    BY DEF Took
  <1> HIDE DEF ctxt
  <1>6. /\ gn \in ChainFns
        /\ ctxt.F \notin {"GroupParselet_parseLoop", "CallParselet_reduceCall"}
    BY <1>2, <1>3, <1>4, <1>5, LoopWaits
  <1> HIDE DEF gn
  <1>7. gn \in LinearFns /\ Follows(call.fn, gn)
    BY <1>2, <1>6, FollowsFacts DEF LinearFns
  <1> QED  BY <1>1, <1>2, <1>4, <1>6, <1>7, OperatorShape DEF gn

\* A loop takes its operator and reads an operand.
LEMMA LoopOperandShape ==
  ASSUME Inv, Inv', Fitting, Shaped, Calling("parseInfix"),
         NEW loop \in LoopFns \ {"GroupParselet_parseLoop"}, NEW P,
         ContextStack' = TopContext(LoopContext(loop, P)),
         NodeStack' = WithOperator(call.tok), ParsePrefix(AfterOperator(call.tok))
  PROVE  Shaped'
  <1>1. /\ call.tok \in Token /\ call.tok.op \notin Trivia
        /\ call.tok.hi \in 0..Len(input)
    BY InfixToken
  <1>2. Took(NodeStack, NodeStack', call.tok) /\ LeavesOnly(NodeStack, NodeStack')
    BY <1>1, TakesOperator
  <1>3. AfterOperator(call.tok).op \in Tokens \ Trivia
    BY <1>1, EndOfTrivia DEF AfterOperator
  <1> QED  BY <1>2, <1>3, LoopBegins

\* InfixOperatorParselet::parseInfix.
LEMMA InfixOperatorShape ==
  ASSUME Inv, Inv', Fitting, Shaped, InfixOperatorParselet_parseInfix
  PROVE  Shaped'
  <1>1. /\ Calling("parseInfix") /\ NodeStack' = WithOperator(call.tok)
        /\ ContextStack' = TopContext(LoopContext("InfixOperatorParselet_parseLoop", call.P))
        /\ ParsePrefix(AfterOperator(call.tok))
    BY DEF InfixOperatorParselet_parseInfix, Infix, TakeOperand, TakeOperator
  <1>2. "InfixOperatorParselet_parseLoop" \in LoopFns \ {"GroupParselet_parseLoop"}
    BY DEF LoopFns
  <1> QED  BY <1>1, <1>2, LoopOperandShape

\* TimesParselet::parseInfix.
LEMMA TimesShape ==
  ASSUME Inv, Inv', Fitting, Shaped, TimesParselet_parseInfix
  PROVE  Shaped'
  <1>1. /\ Calling("parseInfix") /\ NodeStack' = WithOperator(call.tok)
        /\ ContextStack' = TopContext(LoopContext("TimesParselet_parseLoop", NoParselet))
        /\ ParsePrefix(AfterOperator(call.tok))
    BY DEF TimesParselet_parseInfix, Infix, TakeOperand, TakeOperator
  <1>2. "TimesParselet_parseLoop" \in LoopFns \ {"GroupParselet_parseLoop"}
    BY DEF LoopFns
  <1> QED  BY <1>1, <1>2, LoopOperandShape

\* Another operator of the loop is taken.
LEMMA LoopGoesOn ==
  ASSUME Inv, Inv', Fitting, Shaped,
         call.fn \in LoopFns \ {"GroupParselet_parseLoop"}, UNCHANGED ContextStack,
         NEW t \in Token, t.op \notin Trivia \union OperandTokens,
         Took(NodeStack, NodeStack', t), LeavesOnly(NodeStack, NodeStack'),
         NEW s, s.op \in Tokens \ Trivia, ParsePrefix(s)
  PROVE  Shaped'
  <1> DEFINE ctxt == Parser_topContext
             gn   == WaitingFn(NodeStack', ctxt)
  <1>1. call.fn \in ChainFns
    BY DEF LoopFns, ChainFns
  <1>2. call.fn \in LinearFns \intersect WorkingFns /\ call.fn \in WorkingFns \ GroupFns
    BY <1>1, LinearWorks DEF LinearFns
  <1>3. ContextStack # <<>>
    BY <1>2, WorkingParts
  <1>4. ctxt.F = LoopF(call.fn) /\ ctxt.Index = Parser_topContext.Index /\ StaysOn(ctxt)
    BY LoopCallFits DEF StaysOn
  <1>5. Grows(NodeStack, NodeStack')
    BY DEF Took
  <1> HIDE DEF ctxt
  <1>6. /\ gn \in ChainFns
        /\ ctxt.F \notin {"GroupParselet_parseLoop", "CallParselet_reduceCall"}
    BY <1>2, <1>3, <1>4, <1>5, LoopWaits
  <1> HIDE DEF gn
  <1>7. gn \in LinearFns /\ Follows(call.fn, gn)
    BY <1>1, <1>6, FollowsFacts DEF LinearFns
  <1> QED  BY <1>2, <1>4, <1>6, <1>7, OperatorShape DEF gn

\* A loop takes the next operator, or is done.
LEMMA ContinueLoopShape ==
  ASSUME Inv, Inv', Fitting, Shaped,
         call.fn \in LoopFns \ {"GroupParselet_parseLoop"},
         NEW q \in {TriviaEnd(buffer), TriviaButNotToplevelNewlinesEnd(buffer)},
         NEW t \in Token, t.op \notin Trivia \union OperandTokens,
         t.hi \in 0..Len(input), NEW loop, ContinueLoop(q, t, loop)
  PROVE  Shaped'
  <1>1. /\ NodeStack' = NodeStack \o TriviaTokens(buffer, q) \o <<t>>
                          \o TriviaTokens(t.hi, TriviaEnd(t.hi))
        /\ ParsePrefix(AfterOperator(t)) /\ UNCHANGED ContextStack
    BY DEF ContinueLoop
  <1>2. Took(NodeStack, NodeStack', t) /\ LeavesOnly(NodeStack, NodeStack')
    BY <1>1, TakesInLoop
  <1>3. AfterOperator(t).op \in Tokens \ Trivia
    BY EndOfTrivia DEF AfterOperator
  <1> QED  BY <1>1, <1>2, <1>3, LoopGoesOn

\* The loop ends with the nodes it has.
LEMMA EndLoopShape ==
  ASSUME Inv, Inv', Fitting, Shaped,
         call.fn \in ChainFns, NEW q, NEW fn \in ChainFns, EndLoop(q, fn)
  PROVE  Shaped'
  <1>1. UNCHANGED <<NodeStack, ContextStack>> /\ call'.fn = fn
    BY DEF EndLoop, Jump
  <1>2. call.fn \in WorkingFns /\ call'.fn \in WorkingFns \ GroupFns
    BY <1>1, LinearWorks DEF LinearFns
  <1>3. call'.fn \in WorkingFns \ (TagFns \union {"parseInfix"})
    BY <1>1, <1>2 DEF ChainFns, TagFns
  <1>4. TokenFits(call')
    BY <1>3, CalledForNoToken
  <1>5. \A parts : Form(call.fn, parts) => Form(call'.fn, parts)
    BY <1>1, FormAlike
  <1> QED  BY <1>1, <1>2, <1>3, <1>4, <1>5, SameNodesShape

\* InfixOperatorParselet_parseLoop.
LEMMA InfixOperatorLoopShape ==
  ASSUME Inv, Inv', Fitting, Shaped, InfixOperatorParselet_parseLoop
  PROVE  Shaped'
  <1> DEFINE loop == "InfixOperatorParselet_parseLoop"
             q    == TriviaEnd(buffer)
             Tok1 == Tokenizer_currentToken(q)
             fn   == "InfixOperatorParselet_reduceInfixOperator"
  <1>1. /\ call.fn = loop
        /\ \/ EndLoop(q, fn)
           \/ getOp(infixParselets[Tok1.op]) = call.P.op /\ ContinueLoop(q, Tok1, loop)
    BY DEF InfixOperatorParselet_parseLoop, Looping, Calling
  <1>2. call.fn \in LoopFns \ {"GroupParselet_parseLoop"}
    BY <1>1 DEF LoopFns
  <1>3. CASE EndLoop(q, fn)
    <2>1. call.fn \in ChainFns /\ fn \in ChainFns
      BY <1>1 DEF ChainFns
    <2> HIDE DEF fn, q
    <2> QED  BY <1>3, <2>1, EndLoopShape
  <1>4. CASE getOp(infixParselets[Tok1.op]) = call.P.op /\ ContinueLoop(q, Tok1, loop)
    <2>1. /\ Tok1 \in Token /\ Tok1.op \in Tokens \ Trivia /\ q \in 0..Len(input)
          /\ (Tok1.op # "ENDOFFILE" => Tok1.hi \in 0..Len(input))
      BY StackTypes, TriviaEndType, EndOfTrivia, TokenAt
    <2>2. call.P.op # "INTERNALINVALID"
      <3>1. call.P \in Parselet /\ call.P.class = "InfixOperator"
        BY <1>1, StackTypes, CallFields DEF ClassesFor
      <3> QED  BY <3>1, ParseletFields
    <2> HIDE DEF loop, q, Tok1
    <2>3. infixParselets[Tok1.op].op # "INTERNALINVALID"
      BY <1>4, <2>2 DEF getOp
    <2>4. Tok1.op \notin Trivia \union OperandTokens
      BY <2>1, <2>3, OperandTablesAssumption
    <2>5. Tok1.op # "ENDOFFILE"
      BY <2>3, EndOfFileAssumption DEF New
    <2> QED  BY <1>2, <1>4, <2>1, <2>4, <2>5, ContinueLoopShape DEF q
  <1> QED  BY <1>1, <1>3, <1>4

\* TimesParselet_parseLoop.
LEMMA TimesLoopShape ==
  ASSUME Inv, Inv', Fitting, Shaped, TimesParselet_parseLoop
  PROVE  Shaped'
  <1> DEFINE loop == "TimesParselet_parseLoop"
             q    == TimesLoopEnd
             t    == TimesAt(q)
             fn   == "TimesParselet_reduceTimes"
  <1>1. /\ call.fn = loop
        /\ \/ EndLoop(q, fn)
           \/ infixParselets[t.op].class = "Times" /\ ContinueLoop(q, t, loop)
    BY DEF TimesParselet_parseLoop, Looping, Calling
  <1>2. call.fn \in LoopFns \ {"GroupParselet_parseLoop"}
    BY <1>1 DEF LoopFns
  <1>3. CASE EndLoop(q, fn)
    <2>1. call.fn \in ChainFns /\ fn \in ChainFns
      BY <1>1 DEF ChainFns
    <2> HIDE DEF fn, q
    <2> QED  BY <1>3, <2>1, EndLoopShape
  <1>4. CASE infixParselets[t.op].class = "Times" /\ ContinueLoop(q, t, loop)
    <2>1. t \in Token /\ t.hi \in 0..Len(input)
      BY <1>4, TimesLoopEndType, TimesAtType
    <2>2. t.op \in {"STAR", "FAKE_IMPLICITTIMES"}
      <3>1. t.op \in LeafKinds
        BY <2>1, TokenIsNode
      <3> QED  BY <1>4, <3>1, OperatorTables
    <2>3. t.op \notin Trivia \union OperandTokens
      BY <2>2 DEF Trivia, Newlines, OperandTokens, Unders, Errors, TokenizerErrors,
                  ParserErrors, Fakes
    <2>4. q \in {TriviaEnd(buffer), TriviaButNotToplevelNewlinesEnd(buffer)}
      <3> DEFINE first == TriviaEnd(buffer)
                 back  == TriviaSeq_reset(first, TriviaTokens(buffer, first))
      <3>1. first \in buffer..Len(input)
        BY StackTypes, TriviaEndType
      <3>2. back = buffer
        <4> HIDE DEF first
        <4> QED  BY <3>1, StackTypes, TriviaResetType
      <3>3. q \in {first, TriviaButNotToplevelNewlinesEnd(back)}
        BY DEF TimesLoopEnd
      <3> QED  BY <3>2, <3>3
    <2> HIDE DEF loop, q, t
    <2> QED  BY <1>2, <1>4, <2>1, <2>3, <2>4, ContinueLoopShape
  <1> QED  BY <1>1, <1>3, <1>4

-----------------------------------------------------------------------------
(* Operators behind their operand, and operands that are not there         *)

\* An operator is taken, and its function has its nodes.
LEMMA PostfixShape ==
  ASSUME Inv, Inv', Fitting, Shaped, Calling("parseInfix"),
         NodeStack' = Append(NodeStack, call.tok), UNCHANGED ContextStack,
         call'.fn \in PostfixedFns
  PROVE  Shaped'
  <1> DEFINE b == Parser_topContext.Index
             t == call.tok
             fn == call'.fn
  <1>1. t \in Token /\ t.op \notin Trivia /\ t.op \notin OperandTokens
    BY InfixToken
  <1>2. call.fn = "parseInfix" /\ call.fn \in WorkingFns /\ call.fn \in LinearFns
    BY LinearWorks DEF LinearFns, Calling
  <1>3. /\ NodeStack \in Seq(Node) /\ Len(NodeStack) \in Nat
        /\ b \in Nat /\ b <= Len(NodeStack)
    BY <1>2, WorkingParts
  <1>4. PICK parts \in Seq(Label) :
             PartsAre(NodeStack, b, Len(NodeStack), parts) /\ Form("parseInfix", parts)
    BY <1>2, WorkingParts
  <1> HIDE DEF t, b, fn
  <1>5. /\ Took(NodeStack, NodeStack', t) /\ NodeStack' \in Seq(Node)
        /\ LeavesOnly(NodeStack, NodeStack') /\ Grows(NodeStack, NodeStack')
    BY <1>1, OneLeafTaken DEF t
  <1> DEFINE more == Append(parts, LabelOf(t))
  <1>6. PartsAre(NodeStack', b, Len(NodeStack'), more) /\ more \in Seq(Label)
        /\ LabelOf(t) \in Label
    BY <1>3, <1>4, <1>5, TookParts
  <1>7. Form(fn, more)
    <2>1. Len(parts) = 1 /\ Alternates(parts)
      <3>1. "parseInfix" \in LinearFns /\ Lengths("parseInfix") = {1}
        BY <1>2, LengthOf
      <3> QED  BY <1>4, <3>1, LinearForm
    <2>2. ~IsOperand(LabelOf(t))
      BY <1>1, TokenIsLeaf
    <2>3. Len(parts) + 1 = 2 /\ Len(parts) + 1 \notin Odd
      BY <2>1, OddFacts
    <2>4. Len(more) = 2 /\ Alternates(more)
      BY <1>6, <2>1, <2>2, <2>3, PartAppended DEF Alternates
    <2>5. fn \in LinearFns /\ Lengths(fn) = {2}
      BY LengthOf DEF LinearFns, fn
    <2> HIDE DEF more
    <2> QED  BY <2>4, <2>5, LinearForm
  <1>8. call'.fn \in WorkingFns \ (TagFns \union {"parseInfix"}) /\ call'.fn \notin GroupFns
    <2>1. call'.fn \in LinearFns /\ call'.fn \notin TagFns \union {"parseInfix"}
      BY DEF LinearFns, PostfixedFns, TagFns
    <2> QED  BY <2>1, LinearWorks
  <1>9. TokenFits(call')
    BY <1>8, CalledForNoToken
  <1>10. StaysOn(Parser_topContext)
    BY DEF StaysOn
  <1> HIDE DEF more
  <1> QED  BY <1>2, <1>5, <1>6, <1>7, <1>8, <1>9, <1>10, WorksNext DEF b, fn

\* PostfixOperatorParselet::parseInfix and SemiSemiParselet::parseInfix.
LEMMA PostfixOperatorShape ==
  ASSUME Inv, Inv', Fitting, Shaped,
         PostfixOperatorParselet_parseInfix \/ SemiSemiParselet_parseInfix
  PROVE  Shaped'
  <1>1. /\ Calling("parseInfix") /\ NodeStack' = Append(NodeStack, call.tok)
        /\ UNCHANGED ContextStack
        /\ call'.fn \in {"PostfixOperatorParselet_reducePostfixOperator",
                         "SemiSemiParselet_parse1"}
    BY DEF PostfixOperatorParselet_parseInfix, SemiSemiParselet_parseInfix, Infix, TakeLeaf,
           Goto, Jump
  <1>2. call'.fn \in PostfixedFns
    BY <1>1 DEF PostfixedFns
  <1> QED  BY <1>1, <1>2, PostfixShape

\* A token put in where an operand is missing is an operand.
LEMMA ImplicitIsOperand ==
  ASSUME NEW op \in Errors \union {"FAKE_IMPLICITNULL", "FAKE_IMPLICITONE",
                                   "FAKE_IMPLICITALL"},
         NEW t \in Token
  PROVE  /\ Empty(op, t) \in Token /\ Empty(op, t).op \in OperandTokens
         /\ Empty(op, t).op = op
  <1>1. op \in LeafKinds /\ op \in OperandTokens
    BY ErrorKinds, TokenSets
  <1> QED  BY <1>1, EmptyType

\* A loop takes an operator, and has an operand that is not there.
LEMMA LoopOperandGiven ==
  ASSUME Inv, Inv', Fitting, Shaped,
         call.fn \in {"parseInfix"} \union (LoopFns \ {"GroupParselet_parseLoop"}),
         \/ UNCHANGED ContextStack
         \/ \E loop \in LoopFns \ {"GroupParselet_parseLoop"} : \E P :
              ContextStack' = TopContext(LoopContext(loop, P)),
         NEW t \in Token, t.op \notin Trivia \union OperandTokens, NEW mid \in Seq(Node),
         Took(NodeStack, mid, t), LeavesOnly(NodeStack, mid),
         NEW e \in Token, e.op \in OperandTokens, NodeStack' = Append(mid, e),
         call'.fn \in ChainFns
  PROVE  Shaped'
  <1>1. /\ call.fn \in LinearFns /\ Follows(call.fn, call'.fn)
        /\ call'.fn \in LinearFns \ (TagFns \union {"parseInfix"})
    <2>1. call.fn \in ChainFns \union {"parseInfix"}
      BY DEF LoopFns, ChainFns
    <2>2. call'.fn \notin TagFns \union {"parseInfix"}
      BY DEF ChainFns, TagFns
    <2> QED  BY <2>1, <2>2, FollowsFacts DEF LinearFns
  <1>2. ContextStack # <<>>
    BY <1>1, LinearWorks, WorkingParts
  <1>3. CASE UNCHANGED ContextStack
    <2>1. StaysOn(Parser_topContext)
      BY <1>3 DEF StaysOn
    <2> QED  BY <1>1, <2>1, OperandGiven
  <1>4. CASE \E loop \in LoopFns \ {"GroupParselet_parseLoop"} : \E P :
               ContextStack' = TopContext(LoopContext(loop, P))
    <2>0. PICK loop \in LoopFns \ {"GroupParselet_parseLoop"} : \E P :
               ContextStack' = TopContext(LoopContext(loop, P))
      BY <1>4
    <2>1. PICK P : ContextStack' = TopContext(LoopContext(loop, P))
      BY <2>0
    <2> DEFINE ctxt == LoopContext(loop, P)
    <2>2. ctxt.F = LoopF(loop) /\ StaysOn(ctxt)
      BY <1>2, <2>1, LoopFields DEF StaysOn
    <2>3. ctxt.F \notin {"GroupParselet_parseLoop", "CallParselet_reduceCall"}
      <3> HIDE DEF ctxt
      <3> QED  BY <2>2 DEF LoopF, LoopFns
    <2> HIDE DEF ctxt
    <2> QED  BY <1>1, <2>2, <2>3, OperandGiven
  <1> QED  BY <1>3, <1>4

\* The tokens the loops look for are operators.
LEMMA CommasAreOperators ==
  (Commas \union {"SEMI", "SEMISEMI", "TILDE", "COLONCOLON", "EQUAL", "COLONEQUAL", "DOT"})
    \intersect (Trivia \union OperandTokens) = {}
  BY DEF Commas, Trivia, Newlines, OperandTokens, Unders, Errors, TokenizerErrors,
         ParserErrors, Fakes

\* CommaParselet::parseInfix.
LEMMA CommaShape ==
  ASSUME Inv, Inv', Fitting, Shaped, CommaParselet_parseInfix
  PROVE  Shaped'
  <1> DEFINE loop == "CommaParselet_parseLoop"
             Tok2 == AfterOperator(call.tok)
             w    == WithOperator(call.tok)
             E    == Empty("ERROR_INFIXIMPLICITNULL", Tok2)
  <1>1. /\ Calling("parseInfix")
        /\ ContextStack' = TopContext(LoopContext(loop, NoParselet))
        /\ \/ ImplicitOperand("ERROR_INFIXIMPLICITNULL", Tok2, w, loop)
           \/ NodeStack' = w /\ ParsePrefix(Tok2)
    BY DEF CommaParselet_parseInfix, Infix
  <1>2. /\ call.tok \in Token /\ call.tok.hi \in 0..Len(input)
        /\ call.tok.op \notin Trivia /\ call.tok.op \notin OperandTokens
    BY <1>1, InfixToken
  <1>3. loop \in LoopFns \ {"GroupParselet_parseLoop"} /\ loop \in ChainFns
    BY DEF LoopFns, ChainFns
  <1>4. CASE ImplicitOperand("ERROR_INFIXIMPLICITNULL", Tok2, w, loop)
    <2>1. NodeStack' = Append(w, E) /\ call'.fn = loop
      BY <1>4 DEF ImplicitOperand, Jump
    <2>2. Tok2 \in Token
      BY <1>2, OperatorType
    <2>3. E \in Token /\ E.op \in OperandTokens
      BY <2>2, ErrorKinds, ImplicitIsOperand
    <2>4. w \in Seq(Node) /\ Took(NodeStack, w, call.tok) /\ LeavesOnly(NodeStack, w)
      BY <1>2, TakesOperator
    <2>5. call.fn = "parseInfix"
      BY <1>1 DEF Calling
    <2> HIDE DEF w, E, loop
    <2> QED  BY <1>1, <1>2, <1>3, <2>1, <2>3, <2>4, <2>5, LoopOperandGiven
  <1>5. CASE NodeStack' = w /\ ParsePrefix(Tok2)
    BY <1>1, <1>3, <1>5, LoopOperandShape
  <1> QED  BY <1>1, <1>4, <1>5

\* CommaParselet_parseLoop.
LEMMA CommaLoopShape ==
  ASSUME Inv, Inv', Fitting, Shaped, CommaParselet_parseLoop
  PROVE  Shaped'
  <1> DEFINE loop  == "CommaParselet_parseLoop"
             q     == TriviaEnd(buffer)
             Tok1  == Tokenizer_currentToken(q)
             Tok2  == AfterOperator(Tok1)
             nodes == NodeStack \o TriviaTokens(buffer, q) \o <<Tok1>>
                        \o TriviaTokens(Tok1.hi, Tok2.lo)
             fn    == "CommaParselet_reduceComma"
             E     == Empty("ERROR_INFIXIMPLICITNULL", Tok2)
  <1>1. /\ call.fn = loop
        /\ \/ EndLoop(q, fn)
           \/ /\ Tok1.op \in Commas
              /\ ImplicitOperand("ERROR_INFIXIMPLICITNULL", Tok2, nodes, loop)
              /\ UNCHANGED ContextStack
           \/ Tok1.op \in Commas /\ ContinueLoop(q, Tok1, loop)
    BY DEF CommaParselet_parseLoop, Looping, Calling
  <1>2. call.fn \in LoopFns \ {"GroupParselet_parseLoop"} /\ loop \in ChainFns
    BY <1>1 DEF LoopFns, ChainFns
  <1>3. CASE EndLoop(q, fn)
    <2>1. call.fn \in ChainFns /\ fn \in ChainFns
      BY <1>1 DEF ChainFns
    <2> HIDE DEF fn, q
    <2> QED  BY <1>3, <2>1, EndLoopShape
  <1>4. /\ Tok1 \in Token /\ (Tok1.op # "ENDOFFILE" => Tok1.hi \in 0..Len(input))
    BY StackTypes, TriviaEndType, TokenAt
  <1>5. Tok1.op \in Commas =>
             Tok1.op \notin Trivia \union OperandTokens /\ Tok1.hi \in 0..Len(input)
    <2> HIDE DEF Tok1
    <2>1. Tok1.op \in Commas => Tok1.op # "ENDOFFILE"
      BY DEF Commas
    <2> QED  BY <1>4, <2>1, CommasAreOperators
  <1>6. CASE /\ Tok1.op \in Commas
             /\ ImplicitOperand("ERROR_INFIXIMPLICITNULL", Tok2, nodes, loop)
             /\ UNCHANGED ContextStack
    <2>1. NodeStack' = Append(nodes, E) /\ call'.fn = loop
      BY <1>6 DEF ImplicitOperand, Jump
    <2> HIDE DEF Tok1
    <2>2. Tok2 \in Token /\ Tok2.lo = TriviaEnd(Tok1.hi)
      BY <1>4, <1>5, <1>6, OperatorType
    <2>3. E \in Token /\ E.op \in OperandTokens
      BY <2>2, ErrorKinds, ImplicitIsOperand
    <2> HIDE DEF Tok2, E
    <2>4. nodes \in Seq(Node) /\ Took(NodeStack, nodes, Tok1) /\ LeavesOnly(NodeStack, nodes)
      BY <1>4, <1>5, <1>6, <2>2, TakesInLoop
    <2> HIDE DEF nodes, loop
    <2> QED  BY <1>2, <1>4, <1>5, <1>6, <2>1, <2>3, <2>4, LoopOperandGiven
  <1>7. CASE Tok1.op \in Commas /\ ContinueLoop(q, Tok1, loop)
    <2> HIDE DEF loop, q, Tok1
    <2> QED  BY <1>2, <1>4, <1>5, <1>7, ContinueLoopShape DEF q
  <1> QED  BY <1>1, <1>3, <1>6, <1>7

-----------------------------------------------------------------------------
(* Semicolons                                                              *)

\* What SemiParselet does behind a semicolon: an operand, an implicit Null,
\* or the end.
LEMMA AfterSemiShape ==
  ASSUME Inv, Inv', Fitting, Shaped,
         NEW t \in Token, t.op \notin Trivia \union OperandTokens, NEW nodes \in Seq(Node),
         Took(NodeStack, nodes, t), LeavesOnly(NodeStack, nodes),
         NEW p \in 0..Len(input), NEW q, q = TriviaButNotToplevelNewlinesEnd(p),
         AfterSemi(nodes, Tokenizer_currentToken(q)),
         \/ call.fn = "SemiParselet_parseLoop" /\ UNCHANGED ContextStack
         \/ /\ call.fn = "parseInfix" /\ t = call.tok
            /\ IF Tokenizer_currentToken(q).op \in PossibleBeginning \union {"SEMI"}
               THEN ContextStack' =
                      TopContext(LoopContext("SemiParselet_parseLoop", NoParselet))
               ELSE UNCHANGED ContextStack
  PROVE  Shaped'
  <1> DEFINE s    == Tokenizer_currentToken(q)
             E    == Empty("FAKE_IMPLICITNULL", s)
             loop == "SemiParselet_parseLoop"
             fn   == "SemiParselet_reduceCompoundExpression"
  <1>1. q \in 0..Len(input)
    BY TriviaEndType
  <1>2. s \in Token /\ s.op \in Tokens \ TriviaButNotToplevelNewline
    BY EndOfTrivia
  <1>3. E \in Token /\ E.op \in OperandTokens
    <2> HIDE DEF s
    <2> QED  BY <1>2, ImplicitIsOperand
  <1>4. Grows(NodeStack, nodes)
    BY DEF Took
  <1>5. \/ s.op = "SEMI" /\ NodeStack' = Append(nodes, E) /\ call'.fn = loop
        \/ s.op \in PossibleBeginning /\ NodeStack' = nodes /\ ParsePrefix(s)
        \/ /\ s.op \notin PossibleBeginning \union {"SEMI"}
           /\ NodeStack' = Append(nodes, E) /\ call'.fn = fn
    BY <1>1, <1>4, AfterSemiFacts
  <1>6. /\ loop \in ChainFns /\ fn \in ChainFns
            /\ loop \in LoopFns \ {"GroupParselet_parseLoop"}
    BY DEF ChainFns, LoopFns
  <1>7. "SEMI" \notin PossibleBeginning
    BY DEF PossibleBeginning, Unders, DifferentialDs, PossibleBeginningOpeners
  <1> HIDE DEF s, E, loop, fn
  <1>8. CASE NodeStack' = Append(nodes, E) /\ (call'.fn = loop \/ call'.fn = fn)
    <2>1. call.fn \in {"parseInfix"} \union (LoopFns \ {"GroupParselet_parseLoop"})
      BY <1>6 DEF loop
    <2>2. \/ UNCHANGED ContextStack
          \/ \E l \in LoopFns \ {"GroupParselet_parseLoop"} : \E P :
               ContextStack' = TopContext(LoopContext(l, P))
      BY <1>6 DEF loop
    <2>3. call'.fn \in ChainFns
      BY <1>6, <1>8
    <2> QED  BY <1>3, <1>8, <2>1, <2>2, <2>3, LoopOperandGiven
  <1>9. CASE s.op \in PossibleBeginning /\ NodeStack' = nodes /\ ParsePrefix(s)
    <2>1. s.op \in Tokens \ Trivia
      BY <1>2, <1>9 DEF PossibleBeginning, Unders, DifferentialDs, PossibleBeginningOpeners,
                        Trivia, Newlines
    <2>2. CASE call.fn = "SemiParselet_parseLoop" /\ UNCHANGED ContextStack
      BY <1>6, <1>9, <2>1, <2>2, LoopGoesOn DEF loop
    <2>3. CASE call.fn = "parseInfix"
      <3>1. ContextStack' = TopContext(LoopContext(loop, NoParselet)) /\ t = call.tok
        BY <1>9, <2>3 DEF loop, s
      <3>2. Calling("parseInfix")
        BY <2>3 DEF Calling
      <3> QED  BY <1>6, <1>9, <2>1, <3>1, <3>2, LoopBegins
    <2> QED  BY <2>2, <2>3
  <1> QED  BY <1>5, <1>8, <1>9

\* SemiParselet::parseInfix.
LEMMA SemiShape ==
  ASSUME Inv, Inv', Fitting, Shaped, SemiParselet_parseInfix
  PROVE  Shaped'
  <1> DEFINE t     == call.tok
             q     == TriviaButNotToplevelNewlinesEnd(t.hi)
             Tok2  == Tokenizer_currentToken(q)
             s     == Append(NodeStack, t)
             nodes == s \o TriviaTokens(t.hi, q)
  <1>1. /\ Calling("parseInfix") /\ AfterSemi(nodes, Tok2)
        /\ IF Tok2.op \in PossibleBeginning \union {"SEMI"}
           THEN ContextStack' = TopContext(LoopContext("SemiParselet_parseLoop", NoParselet))
           ELSE UNCHANGED ContextStack
    BY DEF SemiParselet_parseInfix, Infix
  <1>2. t \in Token /\ t.hi \in 0..Len(input) /\ t.op \notin Trivia \union OperandTokens
    BY <1>1, InfixToken
  <1> HIDE DEF t
  <1>3. /\ Took(NodeStack, s, t) /\ s \in Seq(Node) /\ LeavesOnly(NodeStack, s)
        /\ Grows(NodeStack, s) /\ NodeStack \in Seq(Node)
    BY <1>2, OneLeafTaken
  <1> HIDE DEF s
  <1>4. TookTrivia(s, nodes) /\ nodes \in Seq(Node)
    BY <1>2, <1>3, TakesTrivia
  <1> HIDE DEF nodes
  <1>5. Took(NodeStack, nodes, t)
    BY <1>3, <1>4, TookThenTrivia
  <1>6. LeavesOnly(NodeStack, nodes)
    BY <1>2, <1>5, TokenIsLeaf, TookLeaves
  <1>7. call.fn = "parseInfix"
    BY <1>1 DEF Calling
  <1> QED  BY <1>1, <1>2, <1>4, <1>5, <1>6, <1>7, AfterSemiShape DEF t

\* SemiParselet_parseLoop.
LEMMA SemiLoopShape ==
  ASSUME Inv, Inv', Fitting, Shaped, SemiParselet_parseLoop
  PROVE  Shaped'
  <1> DEFINE loop  == "SemiParselet_parseLoop"
             q     == TriviaEnd(buffer)
             Tok1  == Tokenizer_currentToken(q)
             r     == TriviaButNotToplevelNewlinesEnd(Tok1.hi)
             nodes == NodeStack \o TriviaTokens(buffer, q) \o <<Tok1>>
                        \o TriviaTokens(Tok1.hi, r)
             fn    == "SemiParselet_reduceCompoundExpression"
  <1>1. /\ call.fn = loop
        /\ \/ EndLoop(q, fn)
           \/ /\ Tok1.op = "SEMI" /\ AfterSemi(nodes, Tokenizer_currentToken(r))
              /\ UNCHANGED ContextStack
    BY DEF SemiParselet_parseLoop, Looping, Calling
  <1>2. CASE EndLoop(q, fn)
    <2>1. call.fn \in ChainFns /\ fn \in ChainFns
      BY <1>1 DEF ChainFns
    <2> HIDE DEF fn, q
    <2> QED  BY <1>2, <2>1, EndLoopShape
  <1>3. CASE /\ Tok1.op = "SEMI" /\ AfterSemi(nodes, Tokenizer_currentToken(r))
             /\ UNCHANGED ContextStack
    <2>1. /\ Tok1 \in Token /\ (Tok1.op # "ENDOFFILE" => Tok1.hi \in 0..Len(input))
      BY StackTypes, TriviaEndType, TokenAt
    <2> HIDE DEF Tok1
    <2>2. Tok1.op \notin Trivia \union OperandTokens /\ Tok1.hi \in 0..Len(input)
      BY <1>3, <2>1, CommasAreOperators
    <2>3. nodes \in Seq(Node) /\ Took(NodeStack, nodes, Tok1) /\ LeavesOnly(NodeStack, nodes)
      BY <2>1, <2>2, TakesInLoop
    <2> HIDE DEF nodes
    <2> QED  BY <1>1, <1>3, <2>1, <2>2, <2>3, AfterSemiShape
  <1> QED  BY <1>1, <1>2, <1>3

-----------------------------------------------------------------------------
(* Groups                                                                  *)

\* A first node that is no trivia is the first part.
LEMMA FirstPart ==
  ASSUME NEW nodes, NEW b \in Nat, NEW l \in Nat, b < l, NEW parts, Len(parts) \in Nat,
         PartsAre(nodes, b, l, parts), ~LeafIn(nodes[b + 1], Trivia)
  PROVE  Len(parts) # 0 /\ parts[1] = LabelOf(nodes[b + 1])
  <1>1. PICK h \in [1..Len(parts) -> (b + 1)..l] :
          /\ \A r, s \in 1..Len(parts) : r < s => h[r] < h[s]
          /\ \A k \in (b + 1)..l :
               ~LeafIn(nodes[k], Trivia) <=> \E r \in 1..Len(parts) : h[r] = k
          /\ \A r \in 1..Len(parts) : parts[r] = LabelOf(nodes[h[r]])
    BY DEF PartsAre
  <1>2. b + 1 \in (b + 1)..l
    OBVIOUS
  <1>3. PICK r \in 1..Len(parts) : h[r] = b + 1
    BY <1>1, <1>2
  <1>4. 1 \in 1..Len(parts) /\ Len(parts) # 0
    OBVIOUS
  <1>5. h[1] \in (b + 1)..l
    BY <1>1, <1>4
  <1>6. 1 < r => h[1] < h[r]
    BY <1>1, <1>4
  <1>7. r = 1
    BY <1>3, <1>5, <1>6
  <1> QED  BY <1>1, <1>3, <1>4, <1>7

\* The parts of a group that is read.
LEMMA GroupForm ==
  ASSUME NEW fn \in GroupFns \ {"GroupParselet_reduceGroup"}, NEW parts
  PROVE  Form(fn, parts) <=>
           /\ Len(parts) \in Nat \ {0}
           /\ OperandsAt(parts, Nat \ {0, 1})
           /\ parts[1][1] = "Leaf" /\ parts[1][2] \in Openers
  <1>1. Lengths(fn) = Nat \ {0} /\ Where(fn, Len(parts)) = Nat \ {0, 1}
    BY LengthOf, WhereOf
  <1>2. fn \notin CompoundFns /\ fn # "CallParselet_reduceCall"
    BY FnSets
  <1>3. EndsFit(fn, parts) <=> parts[1][1] = "Leaf" /\ parts[1][2] \in Openers
    BY <1>2 DEF EndsFit
  <1> QED  BY <1>1, <1>2, <1>3 DEF Form

\* A group that is read can always have another operand.
LEMMA GroupAwaits ==
  ASSUME NEW parts, Form("GroupParselet_parseLoop", parts)
  PROVE  Awaits("GroupParselet_parseLoop", parts)
  <1> DEFINE fn == "GroupParselet_parseLoop"
  <1>1. fn \in GroupFns \ {"GroupParselet_reduceGroup"}
    BY FnSets
  <1>2. /\ Len(parts) \in Nat \ {0} /\ OperandsAt(parts, Nat \ {0, 1})
    BY <1>1, GroupForm
  <1>3. Lengths(fn) = Nat \ {0} /\ Where(fn, 0) = Nat \ {0, 1}
    BY <1>1, LengthOf, WhereOf
  <1>4. Len(parts) + 1 \in Nat \ {0, 1}
    BY <1>2
  <1>5. EndsFit(fn, parts)
    BY DEF Form
  <1> HIDE DEF fn
  <1>6. Awaits(fn, parts)
    BY <1>2, <1>3, <1>4, <1>5 DEF Awaits
  <1> QED  BY <1>6 DEF fn

\* Its closer makes it whole.
LEMMA GroupClosed ==
  ASSUME NEW parts \in Seq(Label), Form("GroupParselet_parseLoop", parts),
         NEW o \in Label, ~IsOperand(o), o[1] = "Leaf",
         TokenToCloser(o[2]) = GroupOpenerToCloser(parts[1][2])
  PROVE  Form("GroupParselet_reduceGroup", Append(parts, o))
  <1> DEFINE loop == "GroupParselet_parseLoop"
             fn   == "GroupParselet_reduceGroup"
             more == Append(parts, o)
             n    == Len(parts)
  <1>1. loop \in GroupFns \ {"GroupParselet_reduceGroup"}
    BY FnSets
  <1>2. /\ n \in Nat \ {0} /\ OperandsAt(parts, Nat \ {0, 1})
        /\ parts[1][1] = "Leaf" /\ parts[1][2] \in Openers
    BY <1>1, GroupForm
  <1>3. /\ more \in Seq(Label) /\ Len(more) = n + 1
        /\ \A i \in 1..n : more[i] = parts[i]
        /\ more[n + 1] = o
    BY PartAppended
  <1>4. Top(more) = o /\ more[1] = parts[1]
    <2> HIDE DEF more, n
    <2> QED  BY <1>2, <1>3 DEF Top
  <1>5. fn \in GroupFns /\ fn \notin CompoundFns /\ fn # "CallParselet_reduceCall"
    BY FnSets DEF GroupFns
  <1>6. Lengths(fn) = Nat \ {0, 1} /\ Where(fn, n + 1) = 2..((n + 1) - 1)
    BY LengthOf, WhereOf
  <1> HIDE DEF more, n, fn
  <1>7. EndsFit(fn, more)
    BY <1>2, <1>4, <1>5 DEF EndsFit
  <1>8. n + 1 \in Lengths(fn)
    BY <1>2, <1>6
  <1>9. OperandsAt(more, 2..((n + 1) - 1))
    <2> SUFFICES ASSUME NEW i \in 1..(n + 1)
                 PROVE  IsOperand(more[i]) <=> i \in 2..((n + 1) - 1)
      BY <1>3 DEF OperandsAt
    <2>1. CASE i = n + 1
      BY <1>2, <1>3, <2>1
    <2>2. CASE i \in 1..n
      <3>1. IsOperand(parts[i]) <=> i \in Nat \ {0, 1}
        BY <1>2, <2>2 DEF OperandsAt, n
      <3>2. i \in Nat \ {0, 1} <=> i \in 2..((n + 1) - 1)
        BY <1>2, <2>2
      <3> QED  BY <1>3, <2>2, <3>1, <3>2
    <2> QED  BY <1>2, <2>1, <2>2
  <1>10. Form(fn, more)
    BY <1>3, <1>5, <1>6, <1>7, <1>8, <1>9 DEF Form
  <1> QED  BY <1>10 DEF fn, more

\* In the context of a group the first node is its opener.
LEMMA OpenedGroup ==
  ASSUME Inv, Fitting, Shaped, call.fn \in GroupFns
  PROVE  /\ call.fn \in WorkingFns /\ ContextStack # <<>>
         /\ Opens(NodeStack, Parser_topContext)
         /\ call.P.closer = GroupOpenerToCloser(NodeStack[Parser_topContext.Index + 1].op)
         /\ \A parts \in Seq(Label) :
              PartsAre(NodeStack, Parser_topContext.Index, Len(NodeStack), parts) =>
                parts[1] = LabelOf(NodeStack[Parser_topContext.Index + 1])
  <1>1. call.fn \in WorkingFns
    BY DEF GroupFns, WorkingFns, RunningFns, LoopFns, ReduceFns, InnerReduce
  <1>2. /\ ContextStack # <<>> /\ TopShaped(NodeStack, Parser_topContext, call)
        /\ Parser_topContext.Index \in Nat /\ Parser_topContext.Index < Len(NodeStack)
        /\ Len(NodeStack) \in Nat
    BY <1>1, WorkingParts
  <1>3. Opens(NodeStack, Parser_topContext)
    BY <1>1, <1>2, OpensForGroups
  <1>4. call.P.closer = GroupOpenerToCloser(NodeStack[Parser_topContext.Index + 1].op)
    BY <1>2 DEF TopShaped, CloserFits
  <1>5. ~LeafIn(NodeStack[Parser_topContext.Index + 1], Trivia)
    BY <1>3, TokenSets DEF Opens, LeafIn
  <1>6. ASSUME NEW parts \in Seq(Label),
               PartsAre(NodeStack, Parser_topContext.Index, Len(NodeStack), parts)
        PROVE  parts[1] = LabelOf(NodeStack[Parser_topContext.Index + 1])
    <2>1. Len(parts) \in Nat
      OBVIOUS
    <2> QED  BY <1>2, <1>5, <1>6, <2>1, FirstPart
  <1> QED  BY <1>1, <1>2, <1>3, <1>4, <1>6

\* The loop reads an operand.
LEMMA ReadInGroup ==
  ASSUME Inv, Inv', Fitting, Shaped, call.fn = "GroupParselet_parseLoop",
         NEW t, t.op \in Tokens \ Trivia, NEW P,
         P = prefixParselets[t.op]
           \/ (P.class = "PrefixToplevelCloser" /\ t.op \in CloserTokens),
         NodeStack' = NodeStack \o TriviaTokens(buffer, TriviaEnd(buffer)),
         Jump("parsePrefix", P, t), UNCHANGED ContextStack
  PROVE  Shaped'
  <1> DEFINE ctxt == Parser_topContext
             b    == ctxt.Index
  <1>1. call.fn \in GroupFns
    BY DEF GroupFns
  <1>2. /\ call.fn \in WorkingFns /\ ContextStack # <<>> /\ Opens(NodeStack, ctxt)
        /\ call.P.closer = GroupOpenerToCloser(NodeStack[b + 1].op)
    BY <1>1, OpenedGroup
  <1>3. /\ ctxt.F = LoopF("GroupParselet_parseLoop")
    BY LoopCallFits DEF LoopFns
  <1>4. /\ NodeStack \in Seq(Node) /\ b \in Nat /\ b <= Len(NodeStack)
        /\ TopShaped(NodeStack, ctxt, call)
    BY <1>2, WorkingParts
  <1>5. PICK parts \in Seq(Label) :
             PartsAre(NodeStack, b, Len(NodeStack), parts) /\ Form(call.fn, parts)
    BY <1>2, WorkingParts
  <1>6. TookTrivia(NodeStack, NodeStack') /\ NodeStack' \in Seq(Node)
    BY StackTypes, TakesTrivia
  <1>7. Grows(NodeStack, NodeStack') /\ LeavesOnly(NodeStack, NodeStack')
    BY <1>6, TookLeaves DEF TookTrivia
  <1>8. PartsAre(NodeStack', b, Len(NodeStack'), parts)
    BY <1>4, <1>5, <1>6, TriviaParts
  <1>9. /\ Opens(NodeStack', ctxt)
        /\ NodeStack'[b + 1] = NodeStack[b + 1]
    BY <1>2, <1>7, StillOpens
  <1>10. call'.fn = "parsePrefix" /\ call'.P = P /\ call'.tok = t
    BY DEF Jump
  <1>11. StaysOn(ctxt)
    BY DEF StaysOn
  <1> HIDE DEF ctxt, b
  <1>12. WaitingFn(NodeStack', ctxt) = "GroupParselet_parseLoop"
    BY <1>3, <1>9 DEF WaitingFn, LoopF
  <1>13. Waiting(NodeStack', ctxt, Len(NodeStack'))
    BY <1>5, <1>8, <1>12, GroupAwaits DEF Waiting, b
  <1>14. call'.fn \in ReadingFns /\ call'.fn \notin GroupFns
    BY <1>10 DEF ReadingFns, GroupFns
  <1>15. TopWaits(NodeStack', ctxt, call'.fn)
    BY <1>13, <1>14, PhasesDiffer DEF TopWaits
  <1>16. CloserFits(NodeStack', ctxt, call')
    BY <1>4, <1>9, <1>14 DEF CloserFits, TopShaped, b
  <1>17. CallWaits(NodeStack', ctxt, call')
    BY <1>3 DEF CallWaits, LoopF
  <1>18. CallShaped(NodeStack', call')
    <2>1. TokenFits(call')
      BY <1>10, <1>14, PhasesDiffer DEF TokenFits, ContextSensitiveFns, TagFns
    <2> QED  BY <1>14, <2>1, PhasesDiffer DEF CallShaped
  <1> QED  BY <1>2, <1>7, <1>11, <1>15, <1>16, <1>17, <1>18, LevelNext DEF TopShaped

\* GroupParselet_parseLoop: the closer, another group's closer, the end, or
\* an operand.
LEMMA GroupLoopShape ==
  ASSUME Inv, Inv', Fitting, Shaped, GroupParselet_parseLoop
  PROVE  Shaped'
  <1> DEFINE q    == TriviaEnd(buffer)
             Tok  == Tokenizer_currentToken(q)
             fn   == "GroupParselet_reduceGroup"
             miss == "GroupParselet_reduceMissingCloser"
             unt  == "GroupParselet_reduceUnterminatedGroup"
             b    == Parser_topContext.Index
  <1>1. call.fn = "GroupParselet_parseLoop" /\ call.fn \in GroupFns
    BY DEF GroupParselet_parseLoop, Looping, Calling, GroupFns
  <1>2. Tok \in Token /\ Tok.op \in Tokens \ Trivia
    BY StackTypes, EndOfTrivia
  <1>3. \/ /\ TokenToCloser(Tok.op) = call.P.closer
           /\ NodeStack' = NodeStack \o TriviaTokens(buffer, q) \o <<Tok>>
           /\ Jump(fn, call.P, NoToken)
           /\ UNCHANGED ContextStack
        \/ EndLoop(q, miss)
        \/ EndLoop(q, unt)
        \/ /\ Tok.op \in CloserTokens
           /\ ParseInGroup(q, prefixToplevelCloserParselet, Tok)
        \/ ParseInGroup(q, prefixParselets[Tok.op], Tok)
    BY DEF GroupParselet_parseLoop
  <1>4. /\ call.fn \in WorkingFns /\ Opens(NodeStack, Parser_topContext)
        /\ call.P.closer = GroupOpenerToCloser(NodeStack[b + 1].op)
        /\ \A parts \in Seq(Label) :
             PartsAre(NodeStack, b, Len(NodeStack), parts) =>
               parts[1] = LabelOf(NodeStack[b + 1])
    BY <1>1, OpenedGroup
  <1>5. \A f \in {fn, miss, unt} :
           f \in WorkingFns \ (TagFns \union {"parseInfix"}) /\ f \in GroupFns
    BY DEF WorkingFns, RunningFns, ReduceFns, GroupFns, TagFns, InnerReduce
  <1>6. CASE /\ TokenToCloser(Tok.op) = call.P.closer
             /\ NodeStack' = NodeStack \o TriviaTokens(buffer, q) \o <<Tok>>
             /\ Jump(fn, call.P, NoToken)
             /\ UNCHANGED ContextStack
    <2> DEFINE a == NodeStack \o TriviaTokens(buffer, q)
    <2>1. TookTrivia(NodeStack, a) /\ a \in Seq(Node)
      BY StackTypes, TakesTrivia
    <2>2. NodeStack' = a \o <<Tok>>
      BY <1>6
    <2>3. Tok.op \in CloserTokens
      <3>1. call.P.closer \in Closers
        BY <1>1, GroupLoop, StackTypes, CallFields, ParseletFields DEF GroupFns
      <3> HIDE DEF Tok
      <3> QED  BY <1>6, <3>1 DEF TokenToCloser, CloserTokens, Closers
    <2>4. /\ ~LeafIn(Tok, Trivia) /\ Tok \in Node /\ Tok.kind = "Leaf"
          /\ ~IsOperand(LabelOf(Tok)) /\ LabelOf(Tok) \in Label
          /\ LabelOf(Tok)[1] = "Leaf" /\ LabelOf(Tok)[2] = Tok.op
      BY <1>2, <2>3, TokenIsLeaf, TokenSets
    <2> HIDE DEF a, Tok
    <2>5. Took(a, NodeStack', Tok) /\ NodeStack' \in Seq(Node)
      BY <2>1, <2>2, <2>4, TookOne
    <2>6. /\ NodeStack \in Seq(Node) /\ b \in Nat /\ b <= Len(NodeStack)
      BY <1>4, WorkingParts
    <2>7. Took(NodeStack, NodeStack', Tok)
      BY <2>1, <2>5, <2>6, TriviaThenTook
    <2>8. Grows(NodeStack, NodeStack') /\ LeavesOnly(NodeStack, NodeStack')
      BY <2>4, <2>7, TookLeaves DEF Took
    <2>9. PICK parts \in Seq(Label) :
               PartsAre(NodeStack, b, Len(NodeStack), parts) /\ Form(call.fn, parts)
      BY <1>4, WorkingParts
    <2> DEFINE more == Append(parts, LabelOf(Tok))
    <2>10. PartsAre(NodeStack', b, Len(NodeStack'), more) /\ more \in Seq(Label)
      BY <2>5, <2>6, <2>7, <2>9, TookParts
    <2>11. parts[1][2] = NodeStack[b + 1].op
      BY <1>4, <2>9 DEF LabelOf
    <2>12. Form(fn, more)
      BY <1>1, <1>4, <1>6, <2>4, <2>9, <2>11, GroupClosed
    <2>13. call'.fn = fn /\ call'.P = call.P
      BY <1>6 DEF Jump
    <2>14. TokenFits(call')
      BY <1>5, <2>13, CalledForNoToken
    <2>15. StaysOn(Parser_topContext)
      BY <1>6 DEF StaysOn
    <2> HIDE DEF more, fn, miss, unt
    <2> QED  BY <1>1, <1>4, <1>5, <2>8, <2>10, <2>12, <2>13, <2>14, <2>15, WorksNext DEF b
  <1>7. ASSUME NEW f \in {miss, unt}, EndLoop(q, f) PROVE Shaped'
    <2>1. UNCHANGED <<NodeStack, ContextStack>> /\ call'.fn = f /\ call'.P = call.P
      BY <1>7 DEF EndLoop, Jump
    <2>2. TokenFits(call')
      BY <1>5, <2>1, CalledForNoToken
    <2>3. f \in GroupFns \ {"GroupParselet_reduceGroup"}
      BY <1>5
    <2>4. \A parts : Form(call.fn, parts) => Form(call'.fn, parts)
      BY <1>1, <2>1, <2>3, FnSets, GroupForm
    <2> HIDE DEF fn, miss, unt
    <2> QED  BY <1>1, <1>4, <1>5, <2>1, <2>2, <2>4, SameNodesShape
  <1>8. CASE /\ Tok.op \in CloserTokens
             /\ ParseInGroup(q, prefixToplevelCloserParselet, Tok)
    <2>1. prefixToplevelCloserParselet.class = "PrefixToplevelCloser"
      BY DEF prefixToplevelCloserParselet, New
    <2> HIDE DEF Tok
    <2> QED  BY <1>1, <1>2, <1>8, <2>1, ReadInGroup DEF ParseInGroup
  <1>9. CASE ParseInGroup(q, prefixParselets[Tok.op], Tok)
    <2> HIDE DEF Tok
    <2> QED  BY <1>1, <1>2, <1>9, ReadInGroup DEF ParseInGroup
  <1> HIDE DEF Tok, fn, miss, unt
  <1>10. CASE EndLoop(q, miss) \/ EndLoop(q, unt)
    BY <1>7, <1>10
  <1> QED  BY <1>3, <1>6, <1>8, <1>9, <1>10

-----------------------------------------------------------------------------
(* Calls                                                                   *)

\* CallParselet::parseInfix, which reads the group behind the head.
LEMMA CallInfixShape ==
  ASSUME Inv, Inv', Fitting, Shaped, CallParselet_parseInfix
  PROVE  Shaped'
  <1> DEFINE F    == "CallParselet_reduceCall"
             ctxt == [ContextWith(F) EXCEPT !.Prec = PRECEDENCE.HIGHEST]
             Q    == [New("Group") EXCEPT !.op = call.P.op, !.closer = call.P.closer]
             b    == Parser_topContext.Index
  <1>1. /\ Calling("parseInfix") /\ ContextStack' = TopContext(ctxt)
        /\ Jump("parsePrefix", Q, call.tok) /\ UNCHANGED NodeStack
    BY DEF CallParselet_parseInfix, Infix
  <1>2. /\ call.tok \in Token /\ call.tok.op \notin Trivia /\ call.fn = "parseInfix"
    BY <1>1, InfixToken DEF Calling
  <1>3. call.fn \in WorkingFns
    BY <1>2, LinearWorks DEF LinearFns
  <1>4. /\ ContextStack # <<>> /\ NodeStack \in Seq(Node)
        /\ TopShaped(NodeStack, Parser_topContext, call)
    BY <1>3, WorkingParts
  <1>5. PICK parts \in Seq(Label) :
             PartsAre(NodeStack, b, Len(NodeStack), parts) /\ Form("parseInfix", parts)
    BY <1>2, <1>3, WorkingParts
  <1>6. ctxt.F = F /\ ctxt.Index = b /\ ctxt.Prec = PRECEDENCE.HIGHEST
    <2> HIDE DEF F
    <2> QED  BY <1>4, PartFields
  <1>7. call'.fn = "parsePrefix" /\ call'.P = Q /\ call'.tok = call.tok
    BY <1>1 DEF Jump
  <1>8. Q.class = "Group"
    <2> DEFINE P == call.P
               r == New("Group")
    <2>1. r = [class |-> "Group", prec |-> 0, op |-> "INTERNALINVALID",
               op2 |-> "INTERNALINVALID", closer |-> "CLOSER_ASSERTFALSE"]
      BY DEF New
    <2> HIDE DEF P, r
    <2>2. [r EXCEPT !.op = P.op, !.closer = P.closer].class = "Group"
      BY <2>1
    <2> QED  BY <2>2 DEF P, r
  <1>9. call.tok.op \in Tokens
    <2>1. call.tok.op \in Openers
      BY <1>1, InfixCall, OperatorTables DEF CallParselet_parseInfix, Infix
    <2> QED  BY <2>1 DEF Openers, Tokens
  <1> HIDE DEF ctxt, Q, b
  <1>10. /\ Grows(NodeStack, NodeStack') /\ LeavesOnly(NodeStack, NodeStack')
    <2>1. TookTrivia(NodeStack, NodeStack')
      BY <1>1, <1>4, TookNothing
    <2> QED  BY <2>1, TookLeaves DEF TookTrivia
  <1>11. Awaits(F, parts)
    <2>1. /\ Len(parts) = 1 /\ Alternates(parts)
      <3>1. "parseInfix" \in LinearFns /\ Lengths("parseInfix") = {1}
        BY LengthOf DEF LinearFns
      <3> QED  BY <1>5, <3>1, LinearForm
    <2>2. Lengths(F) = {2} /\ Where(F, 0) = {1, 2}
      BY LengthOf, WhereOf
    <2>3. OperandsAt(parts, {1, 2})
      BY <2>1, OddFacts DEF Alternates, OperandsAt
    <2>4. EndsFit(F, parts)
      BY FnSets DEF EndsFit, GroupFns
    <2>5. Len(parts) + 1 = 2 /\ 2 \in {2} /\ 2 \in {1, 2} /\ Len(parts) # 0
      BY <2>1
    <2> HIDE DEF F
    <2>6. Len(parts) + 1 \in Lengths(F) /\ Len(parts) + 1 \in Where(F, 0)
      BY <2>2, <2>5
    <2>7. OperandsAt(parts, Where(F, 0))
      BY <2>2, <2>3
    <2> QED  BY <2>4, <2>5, <2>6, <2>7 DEF Awaits
  <1>12. WaitingFn(NodeStack', ctxt) = F
    BY <1>6 DEF WaitingFn
  <1>13. Waiting(NodeStack', ctxt, Len(NodeStack'))
    BY <1>1, <1>5, <1>6, <1>11, <1>12 DEF Waiting
  <1>14. call'.fn \in ReadingFns /\ call'.fn \notin GroupFns
    BY <1>7 DEF ReadingFns, GroupFns
  <1>15. TopWaits(NodeStack', ctxt, call'.fn)
    BY <1>13, <1>14, PhasesDiffer DEF TopWaits
  <1>16. CloserFits(NodeStack', ctxt, call')
    BY <1>6, <1>14 DEF CloserFits
  <1>17. CallWaits(NodeStack', ctxt, call')
    BY <1>6, <1>7, <1>8, <1>14, PhasesDiffer DEF CallWaits, ContextSensitiveFns
  <1>18. CallShaped(NodeStack', call')
    <2>1. TokenFits(call')
      BY <1>2, <1>7, <1>8, <1>9 DEF TokenFits, ContextSensitiveFns, TagFns
    <2> QED  BY <1>14, <2>1, PhasesDiffer DEF CallShaped
  <1>19. StaysOn(ctxt)
    BY <1>1, <1>6 DEF StaysOn, b
  <1> QED  BY <1>4, <1>10, <1>15, <1>16, <1>17, <1>18, <1>19, LevelNext DEF TopShaped

-----------------------------------------------------------------------------
(* Operators in several parts                                              *)

\* A context that says what runs after the operand, and what it waits for.
LEMMA NamedFields ==
  ASSUME Inv, Fitting, Shaped, call.fn \in WorkingFns, NEW F \in TripleFns \union QuintFns,
         NEW ctxt, ctxt = ContextWith(F) \/ \E n : ctxt = [ContextWith(F) EXCEPT !.Prec = n],
         NEW nodes
  PROVE  /\ ctxt.F = F /\ ctxt.Index = Parser_topContext.Index
         /\ WaitingFn(nodes, ctxt) = F /\ F \in LinearFns
         /\ F \notin {"GroupParselet_parseLoop", "CallParselet_reduceCall"}
  <1>1. ContextStack # <<>>
    BY WorkingParts
  <1>2. ctxt.F = F /\ ctxt.Index = Parser_topContext.Index
    <2>1. CASE ctxt = ContextWith(F)
      BY <1>1, <2>1, PartFields
    <2>2. CASE \E n : ctxt = [ContextWith(F) EXCEPT !.Prec = n]
      BY <1>1, <2>2, PartFields
    <2> QED  BY <2>1, <2>2
  <1>3. /\ F \in LinearFns
        /\ F \notin {"GroupParselet_parseLoop", "CallParselet_reduceCall"}
        /\ F \notin {"NULL", "Parser_identity"}
    BY DEF LinearFns, TripleFns, QuintFns, TagFns
  <1> QED  BY <1>2, <1>3 DEF WaitingFn

\* An operator whose operand is read for a function named beforehand.
LEMMA NamedPartShape ==
  ASSUME Inv, Inv', Fitting, Shaped, call.fn \in {"parseInfix"} \union TagFns,
         NEW F, IF call.fn = "parseInfix" THEN F \in TripleFns ELSE F \in QuintFns,
         NEW ctxt, ctxt = ContextWith(F) \/ \E n : ctxt = [ContextWith(F) EXCEPT !.Prec = n],
         TakeOperand(call.tok, ctxt)
  PROVE  Shaped'
  <1>1. call.fn \in WorkingFns
    BY LinearWorks DEF LinearFns, TripleFns
  <1>2. F \in TripleFns \union QuintFns
    OBVIOUS
  <1>3. ctxt.F = F /\ ctxt.Index = Parser_topContext.Index
    BY <1>1, <1>2, NamedFields
  <1> QED  BY <1>3, TakePartShape

\* The operators ~, :, /: and := read the operand behind them.
LEMMA PartOperatorsShape ==
  ASSUME Inv, Inv', Fitting, Shaped,
         \/ TildeParselet_parseInfix \/ ColonParselet_parseInfix
         \/ SlashColonParselet_parseInfix \/ ColonEqualParselet_parseInfix
         \/ ColonEqualParselet_parseInfixTag
  PROVE  Shaped'
  <1>1. \A F \in {"TildeParselet_parse1", "ColonParselet_reducePattern",
                  "ColonParselet_reduceOptional", "ColonParselet_reduceError",
                  "SlashColonParselet_parse1", "ColonEqualParselet_reduceSetDelayed"} :
          F \in TripleFns
    BY DEF TripleFns
  <1>2. CASE TildeParselet_parseInfix
    <2> DEFINE F    == "TildeParselet_parse1"
               ctxt == [ContextWith(F) EXCEPT !.Prec = PRECEDENCE.LOWEST]
    <2>1. call.fn = "parseInfix" /\ TakeOperand(call.tok, ctxt)
      BY <1>2 DEF TildeParselet_parseInfix, Infix, Calling
    <2>2. F \in TripleFns /\ \E n : ctxt = [ContextWith(F) EXCEPT !.Prec = n]
      BY <1>1
    <2> HIDE DEF F, ctxt
    <2> QED  BY <2>1, <2>2, NamedPartShape
  <1>3. CASE ColonParselet_parseInfix
    <2>1. /\ call.fn = "parseInfix"
          /\ \E F \in {"ColonParselet_reducePattern", "ColonParselet_reduceOptional",
                       "ColonParselet_reduceError"} : \E n :
               TakeOperand(call.tok, [ContextWith(F) EXCEPT !.Prec = n])
      BY <1>3 DEF ColonParselet_parseInfix, Infix, Calling
    <2>0. PICK F \in {"ColonParselet_reducePattern", "ColonParselet_reduceOptional",
                      "ColonParselet_reduceError"} : \E n :
               TakeOperand(call.tok, [ContextWith(F) EXCEPT !.Prec = n])
      BY <2>1
    <2>2. PICK n : TakeOperand(call.tok, [ContextWith(F) EXCEPT !.Prec = n])
      BY <2>0
    <2>3. F \in TripleFns
      BY <1>1
    <2> DEFINE ctxt == [ContextWith(F) EXCEPT !.Prec = n]
    <2>4. TakeOperand(call.tok, ctxt) /\ \E m : ctxt = [ContextWith(F) EXCEPT !.Prec = m]
      BY <2>2
    <2> HIDE DEF ctxt
    <2> QED  BY <2>1, <2>3, <2>4, NamedPartShape
  <1>4. CASE SlashColonParselet_parseInfix
    <2> DEFINE F    == "SlashColonParselet_parse1"
               ctxt == ContextWith(F)
    <2>1. call.fn = "parseInfix" /\ TakeOperand(call.tok, ctxt)
      BY <1>4 DEF SlashColonParselet_parseInfix, Infix, Calling
    <2>2. F \in TripleFns /\ ctxt = ContextWith(F)
      BY <1>1
    <2> HIDE DEF F, ctxt
    <2> QED  BY <2>1, <2>2, NamedPartShape
  <1>5. CASE ColonEqualParselet_parseInfix
    <2> DEFINE F    == "ColonEqualParselet_reduceSetDelayed"
               ctxt == ContextWith(F)
    <2>1. call.fn = "parseInfix" /\ TakeOperand(call.tok, ctxt)
      BY <1>5 DEF ColonEqualParselet_parseInfix, Infix, Calling
    <2>2. F \in TripleFns /\ ctxt = ContextWith(F)
      BY <1>1
    <2> HIDE DEF F, ctxt
    <2> QED  BY <2>1, <2>2, NamedPartShape
  <1>6. CASE ColonEqualParselet_parseInfixTag
    <2> DEFINE F    == "ColonEqualParselet_reduceTagSetDelayed"
               ctxt == ContextWith(F)
    <2>1. /\ call.fn \in TagFns /\ call.fn # "parseInfix"
          /\ TakeOperand(call.tok, ctxt)
      BY <1>6 DEF ColonEqualParselet_parseInfixTag, Looping, Calling, TagFns
    <2>2. F \in QuintFns /\ ctxt = ContextWith(F)
      BY DEF QuintFns
    <2> HIDE DEF F, ctxt
    <2> QED  BY <2>1, <2>2, NamedPartShape
  <1> QED  BY <1>2, <1>3, <1>4, <1>5, <1>6

\* A second operator makes room for a third operand.
LEMMA SecondOperatorShape ==
  ASSUME Inv, Inv', Fitting, Shaped, call.fn \in TripleFns, NEW F \in QuintFns,
         NEW ctxt, ctxt = ContextWith(F) \/ \E n : ctxt = [ContextWith(F) EXCEPT !.Prec = n],
         ContextStack' = TopContext(ctxt),
         NEW q \in {TriviaEnd(buffer), TriviaButNotToplevelNewlinesEnd(buffer)},
         NEW t \in Token, t.hi \in 0..Len(input), t.op \notin Trivia \union OperandTokens,
         NEW r \in {TriviaEnd(t.hi), TriviaButNotToplevelNewlinesEnd(t.hi)},
         NodeStack' = NodeStack \o TriviaTokens(buffer, q) \o <<t>> \o TriviaTokens(t.hi, r),
         NEW s, s.op \in Tokens \ Trivia, ParsePrefix(s)
  PROVE  Shaped'
  <1>1. call.fn \in LinearFns \intersect WorkingFns
    BY LinearWorks DEF LinearFns
  <1>2. /\ ctxt.F = F /\ ctxt.Index = Parser_topContext.Index
        /\ WaitingFn(NodeStack', ctxt) = F /\ F \in LinearFns
        /\ F \notin {"GroupParselet_parseLoop", "CallParselet_reduceCall"}
    BY <1>1, NamedFields
  <1>3. StaysOn(ctxt)
    BY <1>2 DEF StaysOn
  <1>4. Took(NodeStack, NodeStack', t) /\ LeavesOnly(NodeStack, NodeStack')
    BY TakesInLoop
  <1>5. Follows(call.fn, F)
    BY FollowsFacts
  <1> QED  BY <1>1, <1>2, <1>3, <1>4, <1>5, OperatorShape

\* With no second operator, the nodes are those of the first.
LEMMA EndTripleShape ==
  ASSUME Inv, Inv', Fitting, Shaped, call.fn \in TripleFns,
         UNCHANGED <<NodeStack, ContextStack>>, call'.fn \in TripleFns \ TagFns
  PROVE  Shaped'
  <1>1. /\ call.fn \in LinearFns /\ call'.fn \in LinearFns
        /\ Lengths(call.fn) = {3} /\ Lengths(call'.fn) = {3}
    BY LengthOf DEF LinearFns
  <1>2. /\ call.fn \in WorkingFns /\ call'.fn \in WorkingFns \ {"parseInfix"}
        /\ call'.fn \notin GroupFns
    BY <1>1, LinearWorks DEF TripleFns, TagFns
  <1>3. TokenFits(call')
    BY <1>2, CalledForNoToken
  <1>4. \A parts : Form(call.fn, parts) => Form(call'.fn, parts)
    BY <1>1, LinearForm
  <1> QED  BY <1>2, <1>3, <1>4, SameNodesShape

\* TildeParselet_parse1: the second ~, or an error.
LEMMA TildeLoopShape ==
  ASSUME Inv, Inv', Fitting, Shaped, TildeParselet_parse1
  PROVE  Shaped'
  <1> DEFINE q    == TriviaEnd(buffer)
             Tok1 == Tokenizer_currentToken(q)
             r    == TriviaEnd(Tok1.hi)
             F    == "TildeParselet_reduceTilde"
             ctxt == [ContextWith(F) EXCEPT !.Prec = PRECEDENCE.TILDE]
             s    == AfterOperator(Tok1)
  <1>1. /\ call.fn = "TildeParselet_parse1"
        /\ IF Tok1.op # "TILDE"
           THEN EndLoop(q, "TildeParselet_reduceError")
           ELSE /\ NodeStack' = NodeStack \o TriviaTokens(buffer, q) \o <<Tok1>>
                                 \o TriviaTokens(Tok1.hi, r)
                /\ ContextStack' = TopContext(ctxt) /\ ParsePrefix(s)
    BY DEF TildeParselet_parse1, Looping, Calling
  <1>2. call.fn \in TripleFns /\ F \in QuintFns
    BY <1>1 DEF TripleFns, QuintFns
  <1>3. CASE Tok1.op # "TILDE"
    <2>1. UNCHANGED <<NodeStack, ContextStack>> /\ call'.fn = "TildeParselet_reduceError"
      BY <1>1, <1>3 DEF EndLoop, Jump
    <2>2. call'.fn \in TripleFns \ TagFns
      BY <2>1 DEF TripleFns, TagFns
    <2> QED  BY <1>2, <2>1, <2>2, EndTripleShape
  <1>4. CASE Tok1.op = "TILDE"
    <2>1. /\ Tok1 \in Token /\ (Tok1.op # "ENDOFFILE" => Tok1.hi \in 0..Len(input))
      BY StackTypes, TriviaEndType, TokenAt
    <2>2. \E n : ctxt = [ContextWith(F) EXCEPT !.Prec = n]
      OBVIOUS
    <2> HIDE DEF Tok1, F, ctxt
    <2>3. Tok1.op \notin Trivia \union OperandTokens /\ Tok1.hi \in 0..Len(input)
      BY <1>4, <2>1, CommasAreOperators
    <2>4. s.op \in Tokens \ Trivia
      BY <2>3, EndOfTrivia DEF AfterOperator
    <2> HIDE DEF s
    <2> QED  BY <1>1, <1>2, <1>4, <2>1, <2>2, <2>3, <2>4, SecondOperatorShape
  <1> QED  BY <1>3, <1>4

-----------------------------------------------------------------------------
(* Assignments                                                             *)

\* SlashColonParselet_parse1: an = or := behind the tag, or an error.
LEMMA SlashColonLoopShape ==
  ASSUME Inv, Inv', Fitting, Shaped, SlashColonParselet_parse1
  PROVE  Shaped'
  <1> DEFINE q    == TriviaEnd(buffer)
             Tok  == Tokenizer_currentToken(q)
             ctxt == [Parser_topContext EXCEPT !.Prec = PRECEDENCE.EQUAL]
             b    == Parser_topContext.Index
  <1>1. /\ call.fn = "SlashColonParselet_parse1"
        /\ IF Tok.op \in {"EQUAL", "COLONEQUAL"}
           THEN /\ NodeStack' = NodeStack \o TriviaTokens(buffer, q)
                /\ ContextStack' = TopContext(ctxt)
                /\ call'.fn = TagFunction(Tok.op) /\ call'.tok = Tok
           ELSE EndLoop(q, "SlashColonParselet_reduceError")
    BY DEF SlashColonParselet_parse1, Looping, Calling, Jump
  <1>2. call.fn \in TripleFns
    BY <1>1 DEF TripleFns
  <1>3. CASE Tok.op \notin {"EQUAL", "COLONEQUAL"}
    <2>1. UNCHANGED <<NodeStack, ContextStack>>
          /\ call'.fn = "SlashColonParselet_reduceError"
      BY <1>1, <1>3 DEF EndLoop, Jump
    <2>2. call'.fn \in TripleFns \ TagFns
      BY <2>1 DEF TripleFns, TagFns
    <2> QED  BY <1>2, <2>1, <2>2, EndTripleShape
  <1>4. CASE Tok.op \in {"EQUAL", "COLONEQUAL"}
    <2>1. /\ NodeStack' = NodeStack \o TriviaTokens(buffer, q)
          /\ ContextStack' = TopContext(ctxt)
          /\ call'.fn \in TagFns /\ call'.tok.op \in {"EQUAL", "COLONEQUAL"}
      BY <1>1, <1>4 DEF TagFunction, TagFns
    <2>2. /\ call.fn \in WorkingFns /\ call.fn \in LinearFns
          /\ call'.fn \in LinearFns /\ call'.fn \in TripleFns
      BY <1>2, <2>1, LinearWorks DEF LinearFns, TripleFns
    <2>3. /\ ContextStack # <<>> /\ NodeStack \in Seq(Node)
          /\ b \in Nat /\ b <= Len(NodeStack)
      BY <2>2, WorkingParts
    <2>4. Parser_topContext.F = "SlashColonParselet_parse1"
      BY <1>1, FittingParts DEF CallFits, TopFits, PartLoops
    <2>5. ctxt.F = Parser_topContext.F /\ ctxt.Index = b
      BY <2>3, PartFields
    <2> HIDE DEF ctxt
    <2>6. /\ ctxt.F \notin {"GroupParselet_parseLoop", "CallParselet_reduceCall"}
          /\ StaysOn(ctxt)
      BY <2>1, <2>4, <2>5 DEF StaysOn
    <2>7. TookTrivia(NodeStack, NodeStack') /\ NodeStack' \in Seq(Node)
      BY <2>1, <2>3, StackTypes, TakesTrivia
    <2>8. Grows(NodeStack, NodeStack') /\ LeavesOnly(NodeStack, NodeStack')
      BY <2>7, TookLeaves DEF TookTrivia
    <2>9. PICK parts \in Seq(Label) :
               PartsAre(NodeStack, b, Len(NodeStack), parts) /\ Form(call.fn, parts)
      BY <2>2, WorkingParts
    <2>10. PartsAre(NodeStack', b, Len(NodeStack'), parts)
      BY <2>3, <2>7, <2>9, TriviaParts
    <2>11. Form(call'.fn, parts)
      BY <1>2, <2>2, <2>9, LengthOf, LinearForm
    <2>12. call'.fn \in WorkingFns \ {"parseInfix"} /\ call'.fn \notin GroupFns
      BY <2>1, <2>2, LinearWorks DEF TagFns
    <2>13. TokenFits(call')
      BY <2>1 DEF TokenFits, TagFns, ContextSensitiveFns
    <2> QED  BY <2>2, <2>6, <2>8, <2>10, <2>11, <2>12, <2>13, WorksNext DEF b
  <1> QED  BY <1>3, <1>4

\* An assignment of nothing: a dot is in the place of its right side.
LEMMA UnsetForm ==
  ASSUME NEW fn, NEW gn,
         \/ fn = "parseInfix" /\ gn = "EqualParselet_reduceUnset"
         \/ fn \in TagFns /\ gn = "EqualParselet_reduceTagUnset",
         NEW parts \in Seq(Label), Form(fn, parts),
         NEW o \in Label, ~IsOperand(o), NEW d \in Label, ~IsOperand(d)
  PROVE  Form(gn, Append(Append(parts, o), d))
  <1> DEFINE mid  == Append(parts, o)
             more == Append(mid, d)
  <1>1. fn \in LinearFns /\ (fn \in TagFns => fn \in TripleFns)
    BY DEF LinearFns, TripleFns
  <1>2. Len(parts) \in Lengths(fn) /\ Alternates(parts)
    BY <1>1, LinearForm
  <1>3. /\ mid \in Seq(Label) /\ Len(mid) = Len(parts) + 1 /\ Len(parts) \in Nat
        /\ \A S : OperandsAt(parts, S) /\ Len(parts) + 1 \notin S => OperandsAt(mid, S)
    BY PartAppended
  <1> HIDE DEF mid
  <1>4. /\ Len(more) = Len(mid) + 1
        /\ \A S : OperandsAt(mid, S) /\ Len(mid) + 1 \notin S => OperandsAt(more, S)
    BY <1>3, PartAppended
  <1> HIDE DEF more
  <1>5. gn \notin GroupFns \union CompoundFns /\ gn # "CallParselet_reduceCall"
    BY DEF GroupFns, CompoundFns, InnerReduce
  <1>6. EndsFit(gn, more)
    BY <1>5 DEF EndsFit, GroupFns
  <1>7. CASE fn = "parseInfix" /\ gn = "EqualParselet_reduceUnset"
    <2>1. Len(parts) = 1
      BY <1>2, <1>7, LengthOf
    <2>2. OperandsAt(parts, {1})
      BY <1>2, <2>1, OddFacts DEF Alternates, OperandsAt
    <2>3. Len(mid) = 2 /\ Len(more) = 3
      BY <1>3, <1>4, <2>1
    <2>4. OperandsAt(mid, {1})
      BY <1>3, <2>1, <2>2
    <2>5. OperandsAt(more, {1})
      BY <1>4, <2>3, <2>4
    <2>6. Lengths(gn) = {3} /\ Where(gn, Len(more)) = {1}
      BY <1>7, LengthOf, WhereOf
    <2> QED  BY <1>5, <1>6, <2>3, <2>5, <2>6 DEF Form, more, mid
  <1>8. CASE fn \in TagFns /\ gn = "EqualParselet_reduceTagUnset"
    <2>1. Len(parts) = 3
      BY <1>1, <1>2, <1>8, LengthOf
    <2>2. OperandsAt(parts, {1, 3})
      BY SMTT(60), <1>2, <2>1, OddFacts DEF Alternates, OperandsAt
    <2>3. Len(mid) = 4 /\ Len(more) = 5
      BY <1>3, <1>4, <2>1
    <2>4. OperandsAt(mid, {1, 3})
      BY <1>3, <2>1, <2>2
    <2>5. OperandsAt(more, {1, 3})
      BY <1>4, <2>3, <2>4
    <2>6. Lengths(gn) = {5} /\ Where(gn, Len(more)) = {1, 3}
      BY <1>8, LengthOf, WhereOf
    <2> QED  BY <1>5, <1>6, <2>3, <2>5, <2>6 DEF Form, more, mid
  <1> QED  BY <1>7, <1>8

\* The = and . of an Unset.
LEMMA TakeUnsetShape ==
  ASSUME Inv, Inv', Fitting, Shaped, NEW gn, TakeUnset(gn),
         \/ call.fn = "parseInfix" /\ gn = "EqualParselet_reduceUnset"
         \/ call.fn \in TagFns /\ gn = "EqualParselet_reduceTagUnset"
  PROVE  Shaped'
  <1> DEFINE t == call.tok
             d == AfterOperator(t)
             w == WithOperator(t)
             b == Parser_topContext.Index
  <1>1. /\ d.op = "DOT" /\ NodeStack' = Append(w, d) /\ call'.fn = gn
        /\ UNCHANGED ContextStack
    BY DEF TakeUnset, Goto, Jump
  <1>2. /\ t \in Token /\ t.hi \in 0..Len(input) /\ t.op \notin Trivia \union OperandTokens
        /\ call.fn \in WorkingFns
    <2>1. CASE call.fn = "parseInfix"
      BY <2>1, InfixToken, LinearWorks DEF Calling, LinearFns
    <2>2. CASE call.fn \in TagFns
      <3>1. t.op \in {"EQUAL", "COLONEQUAL"}
        BY <2>2 DEF Shaped, CallShaped, TokenFits
      <3>2. t.op \notin Trivia \union OperandTokens
        BY <3>1, CommasAreOperators
      <3>3. call.fn \in LinearFns
        BY <2>2 DEF LinearFns, TripleFns
      <3> QED  BY <2>2, <3>2, <3>3, TagCall, LinearWorks
    <2> QED  BY <2>1, <2>2
  <1> HIDE DEF t
  <1>3. d \in Token /\ d.op \notin Trivia \union OperandTokens
    BY <1>1, <1>2, EndOfTrivia, CommasAreOperators DEF AfterOperator
  <1>4. /\ Took(NodeStack, w, t) /\ w \in Seq(Node) /\ LeavesOnly(NodeStack, w)
        /\ Grows(NodeStack, w)
    BY <1>2, TakesOperator
  <1>5. /\ NodeStack \in Seq(Node) /\ b \in Nat /\ b <= Len(NodeStack)
        /\ Len(NodeStack) \in Nat
    BY <1>2, WorkingParts
  <1>6. PICK parts \in Seq(Label) :
             PartsAre(NodeStack, b, Len(NodeStack), parts) /\ Form(call.fn, parts)
    BY <1>2, WorkingParts
  <1>7. /\ ~IsOperand(LabelOf(t)) /\ ~IsOperand(LabelOf(d)) /\ ~LeafIn(d, Trivia)
        /\ d \in Node /\ d.kind = "Leaf" /\ LabelOf(t) \in Label /\ LabelOf(d) \in Label
    BY <1>2, <1>3, TokenIsLeaf
  <1> HIDE DEF d, w
  <1> DEFINE mid == Append(parts, LabelOf(t))
  <1>8. PartsAre(w, b, Len(w), mid) /\ mid \in Seq(Label)
    BY <1>4, <1>5, <1>6, TookParts
  <1>9. Took(w, NodeStack', d) /\ NodeStack' \in Seq(Node)
    BY <1>1, <1>4, <1>7, TookOne
  <1>10. b <= Len(w)
    <2>1. Len(NodeStack) <= Len(w)
      BY <1>4 DEF Grows
    <2> QED  BY <1>4, <1>5, <2>1
  <1> DEFINE more == Append(mid, LabelOf(d))
  <1>11. Form(gn, more)
    BY <1>6, <1>7, UnsetForm
  <1> HIDE DEF mid
  <1>12. PartsAre(NodeStack', b, Len(NodeStack'), more) /\ more \in Seq(Label)
    BY <1>4, <1>5, <1>8, <1>9, <1>10, TookParts
  <1> HIDE DEF more
  <1>13. Grows(w, NodeStack') /\ LeavesOnly(w, NodeStack')
    BY <1>7, <1>9, TookLeaves DEF Took
  <1>14. Grows(NodeStack, NodeStack') /\ LeavesOnly(NodeStack, NodeStack')
    BY <1>4, <1>5, <1>9, <1>13, GrowsFurther, LeavesThenLeaves
  <1>15. /\ gn \in WorkingFns \ (TagFns \union {"parseInfix"}) /\ gn \notin GroupFns
    BY DEF WorkingFns, RunningFns, ReduceFns, GroupFns, TagFns
  <1>16. TokenFits(call')
    BY <1>1, <1>15, CalledForNoToken
  <1>17. StaysOn(Parser_topContext)
    BY <1>1 DEF StaysOn
  <1> QED  BY <1>1, <1>2, <1>11, <1>12, <1>14, <1>15, <1>16, <1>17, WorksNext DEF b

\* EqualParselet::parseInfix and its counterpart behind a tag.
LEMMA EqualShape ==
  ASSUME Inv, Inv', Fitting, Shaped,
         EqualParselet_parseInfix \/ EqualParselet_parseInfixTag
  PROVE  Shaped'
  <1>1. CASE EqualParselet_parseInfix
    <2> DEFINE F    == "EqualParselet_reduceSet"
               ctxt == ContextWith(F)
    <2>1. /\ call.fn = "parseInfix"
          /\ TakeUnset("EqualParselet_reduceUnset") \/ TakeOperand(call.tok, ctxt)
      BY <1>1 DEF EqualParselet_parseInfix, Infix, Calling
    <2>2. CASE TakeUnset("EqualParselet_reduceUnset")
      BY <2>1, <2>2, TakeUnsetShape
    <2>3. CASE TakeOperand(call.tok, ctxt)
      <3>1. F \in TripleFns /\ ctxt = ContextWith(F)
        BY DEF TripleFns
      <3> HIDE DEF F, ctxt
      <3> QED  BY <2>1, <2>3, <3>1, NamedPartShape
    <2> QED  BY <2>1, <2>2, <2>3
  <1>2. CASE EqualParselet_parseInfixTag
    <2> DEFINE F    == "EqualParselet_reduceTagSet"
               ctxt == ContextWith(F)
    <2>1. /\ call.fn \in TagFns /\ call.fn # "parseInfix"
          /\ TakeUnset("EqualParselet_reduceTagUnset") \/ TakeOperand(call.tok, ctxt)
      BY <1>2 DEF EqualParselet_parseInfixTag, Looping, Calling, TagFns
    <2>2. CASE TakeUnset("EqualParselet_reduceTagUnset")
      BY <2>1, <2>2, TakeUnsetShape
    <2>3. CASE TakeOperand(call.tok, ctxt)
      <3>1. F \in QuintFns /\ ctxt = ContextWith(F)
        BY DEF QuintFns
      <3> HIDE DEF F, ctxt
      <3> QED  BY <2>1, <2>3, <3>1, NamedPartShape
    <2> QED  BY <2>1, <2>2, <2>3
  <1> QED  BY <1>1, <1>2

-----------------------------------------------------------------------------
(* Spans                                                                   *)

\* What begins a part of a span is no trivia.
LEMMA SpanPart ==
  ASSUME Inv, NEW p \in 0..Len(input),
         StartsSpanPart(Tokenizer_currentToken(TriviaButNotToplevelNewlinesEnd(p)))
  PROVE  Tokenizer_currentToken(TriviaButNotToplevelNewlinesEnd(p)).op \in Tokens \ Trivia
  <1> DEFINE t == Tokenizer_currentToken(TriviaButNotToplevelNewlinesEnd(p))
  <1>1. t.op \in Tokens \ TriviaButNotToplevelNewline
    BY EndOfTrivia
  <1>2. t.op \in PossibleBeginning
    BY DEF StartsSpanPart
  <1> HIDE DEF t
  <1>3. t.op \in Tokens \ Trivia
    BY <1>1, <1>2 DEF PossibleBeginning, Unders, DifferentialDs, PossibleBeginningOpeners,
                      Trivia, Newlines
  <1> QED  BY <1>3 DEF t

\* The parts of a span that waits for its second operand, and with one that is
\* not there.
LEMMA SpanForms ==
  ASSUME NEW parts \in Seq(Label), Form("SemiSemiParselet_parse1", parts),
         NEW e \in Label, IsOperand(e), NEW o \in Label, ~IsOperand(o)
  PROVE  /\ Awaits("SemiSemiParselet_parse2", parts)
         /\ Form("SemiSemiParselet_reduceBinary", Append(parts, e))
         /\ Awaits("SemiSemiParselet_reduceTernary", Append(Append(parts, e), o))
         /\ Append(parts, e) \in Seq(Label)
  <1> DEFINE one  == "SemiSemiParselet_parse1"
             two  == "SemiSemiParselet_parse2"
             bin  == "SemiSemiParselet_reduceBinary"
             ter  == "SemiSemiParselet_reduceTernary"
             mid  == Append(parts, e)
             more == Append(mid, o)
  <1>1. /\ one \in PostfixedFns /\ two \in TripleFns /\ bin \in TripleFns /\ ter \in QuintFns
    BY DEF PostfixedFns, TripleFns, QuintFns
  <1>2. /\ one \in LinearFns /\ two \in LinearFns /\ bin \in LinearFns /\ ter \in LinearFns
    BY <1>1 DEF LinearFns
  <1>3. Lengths(one) = {2} /\ Lengths(two) = {3} /\ Lengths(bin) = {3} /\ Lengths(ter) = {5}
    BY <1>1, LengthOf
  <1>4. Len(parts) = 2 /\ Alternates(parts)
    BY <1>2, <1>3, LinearForm
  <1>5. Len(parts) # 0 /\ Len(parts) + 1 = 3
    BY <1>4
  <1>6. /\ mid \in Seq(Label) /\ Len(mid) = Len(parts) + 1
        /\ OperandsAt(parts, Odd) /\ Len(parts) + 1 \in Odd => OperandsAt(mid, Odd)
    BY PartAppended
  <1>7. Len(mid) = 3 /\ Alternates(mid)
    BY <1>4, <1>5, <1>6, OddFacts DEF Alternates
  <1> HIDE DEF mid
  <1>8. /\ Len(more) = Len(mid) + 1
        /\ OperandsAt(mid, Odd) /\ Len(mid) + 1 \notin Odd => OperandsAt(more, Odd)
    BY <1>6, PartAppended
  <1> HIDE DEF more
  <1>9. Len(mid) + 1 = 4 /\ 4 # 0 /\ 4 + 1 = 5
    BY <1>7
  <1>10. Len(more) = 4 /\ Alternates(more)
    BY <1>7, <1>8, <1>9, OddFacts DEF Alternates
  <1> HIDE DEF one, two, bin, ter
  <1>11. Awaits(two, parts)
    BY <1>2, <1>3, <1>4, <1>5, OddFacts, LinearForm
  <1>12. Form(bin, mid)
    BY <1>2, <1>3, <1>7, LinearForm
  <1>13. Awaits(ter, more)
    <2>1. Len(more) # 0 /\ Len(more) + 1 = 5
      BY <1>9, <1>10
    <2> QED  BY <1>2, <1>3, <1>10, <2>1, OddFacts, LinearForm
  <1> QED  BY <1>6, <1>11, <1>12, <1>13 DEF mid, more, two, bin, ter

\* SemiSemiParselet_parse1: the second operand of ;;, given or implicit.
LEMMA SpanShape ==
  ASSUME Inv, Inv', Fitting, Shaped, SemiSemiParselet_parse1
  PROVE  Shaped'
  <1> DEFINE q         == TriviaButNotToplevelNewlinesEnd(buffer)
             SecondTok == Tokenizer_currentToken(q)
             nodes     == NodeStack \o TriviaTokens(buffer, q)
             e         == Empty("FAKE_IMPLICITALL", SecondTok)
             All       == Append(nodes, e)
             r         == TriviaButNotToplevelNewlinesEnd(SecondTok.hi)
             ThirdTok  == Tokenizer_currentToken(r)
             b         == Parser_topContext.Index
             two       == "SemiSemiParselet_parse2"
             bin       == "SemiSemiParselet_reduceBinary"
             ter       == "SemiSemiParselet_reduceTernary"
  <1>1. /\ call.fn = "SemiSemiParselet_parse1"
        /\ \/ NodeStack' = All /\ call'.fn = bin /\ UNCHANGED ContextStack
           \/ /\ StartsSpanPart(SecondTok) /\ NodeStack' = nodes
              /\ ContextStack' = TopContext(ContextWith(two)) /\ ParsePrefix(SecondTok)
           \/ /\ SecondTok.op = "SEMISEMI" /\ StartsSpanPart(ThirdTok)
              /\ NodeStack' = Append(All, SecondTok) \o TriviaTokens(SecondTok.hi, r)
              /\ ContextStack' = TopContext(ContextWith(ter)) /\ ParsePrefix(ThirdTok)
    BY DEF SemiSemiParselet_parse1, Looping, Calling, Goto, Jump
  <1>2. call.fn \in LinearFns /\ call.fn \in WorkingFns
    BY <1>1, LinearWorks DEF LinearFns, PostfixedFns
  <1>3. /\ NodeStack \in Seq(Node) /\ b \in Nat /\ b <= Len(NodeStack)
        /\ Len(NodeStack) \in Nat
    BY <1>2, WorkingParts
  <1>4. PICK parts \in Seq(Label) :
             PartsAre(NodeStack, b, Len(NodeStack), parts) /\ Form(call.fn, parts)
    BY <1>2, WorkingParts
  <1>5. buffer \in 0..Len(input) /\ SecondTok \in Token
        /\ (SecondTok.op # "ENDOFFILE" => SecondTok.hi \in 0..Len(input))
    BY StackTypes, TriviaEndType, TokenAt
  <1>6. TookTrivia(NodeStack, nodes) /\ nodes \in Seq(Node)
    BY <1>3, <1>5, TakesTrivia
  <1>7. PartsAre(nodes, b, Len(nodes), parts) /\ LeavesOnly(NodeStack, nodes)
        /\ Grows(NodeStack, nodes)
    BY <1>3, <1>4, <1>6, TriviaParts, TookLeaves DEF TookTrivia
  <1>8. Len(NodeStack) <= Len(nodes) /\ b <= Len(nodes)
    <2>1. Len(NodeStack) <= Len(nodes)
      BY <1>7 DEF Grows
    <2> HIDE DEF nodes
    <2> QED  BY <1>3, <1>6, <2>1
  <1>9. e \in Token /\ e.op \in OperandTokens
    <2> HIDE DEF SecondTok
    <2> QED  BY <1>5, ImplicitIsOperand
  <1>10. /\ IsOperand(LabelOf(e)) /\ LabelOf(e) \in Label /\ e \in Node /\ e.kind = "Leaf"
         /\ ~LeafIn(e, Trivia)
    BY <1>9, TokenIsLeaf, TokenSets
  <1>11. SecondTok.op = "SEMISEMI" =>
           /\ SecondTok.op \notin Trivia \union OperandTokens
           /\ SecondTok.hi \in 0..Len(input)
    <2> HIDE DEF SecondTok
    <2> QED  BY <1>5, CommasAreOperators
  <1>12. TookTrivia(nodes, nodes)
    BY <1>6, TookNothing
  <1>13. /\ two \in TripleFns \union QuintFns /\ ter \in TripleFns \union QuintFns
         /\ bin \in WorkingFns \ (TagFns \union {"parseInfix"}) /\ bin \notin GroupFns
    <2>1. bin \in LinearFns /\ bin \notin TagFns \union {"parseInfix"}
      BY DEF LinearFns, TripleFns, TagFns
    <2> QED  BY <2>1, LinearWorks DEF TripleFns, QuintFns
  <1> HIDE DEF SecondTok, nodes, e, b
  <1>14. Took(nodes, All, e) /\ All \in Seq(Node)
    BY <1>6, <1>10, TookOne
  <1> DEFINE mid == Append(parts, LabelOf(e))
  <1>15. PartsAre(All, b, Len(All), mid) /\ mid \in Seq(Label)
    BY <1>3, <1>6, <1>7, <1>8, <1>14, TookParts DEF b
  <1>16. Grows(NodeStack, All) /\ LeavesOnly(NodeStack, All) /\ Took(NodeStack, All, e)
    <2>1. Took(NodeStack, All, e)
      BY <1>3, <1>6, <1>14, TriviaThenTook
    <2> HIDE DEF All
    <2> QED  BY <1>10, <2>1, TookLeaves DEF Took
  <1>17. \E o \in Label : ~IsOperand(o)
    <2>1. "SEMISEMI" \notin OperandTokens
      BY CommasAreOperators
    <2>2. <<"Leaf", "SEMISEMI">> \in Label
      BY DEF Label, NodeKinds, LeafKinds, Tokens, PossibleBeginning
    <2> QED  BY <2>1, <2>2 DEF IsOperand
  <1>18. Awaits(two, parts) /\ Form(bin, mid)
    BY <1>1, <1>4, <1>10, <1>17, SpanForms
  <1>19. ASSUME NEW F \in TripleFns \union QuintFns
         PROVE  /\ ContextWith(F).F = F /\ ContextWith(F).Index = Parser_topContext.Index
                /\ WaitingFn(NodeStack', ContextWith(F)) = F
                /\ F \notin {"GroupParselet_parseLoop", "CallParselet_reduceCall"}
    BY <1>2, NamedFields
  <1>20. CASE NodeStack' = All /\ call'.fn = bin /\ UNCHANGED ContextStack
    <2>1. TokenFits(call')
      BY <1>13, <1>20, CalledForNoToken
    <2>2. StaysOn(Parser_topContext)
      BY <1>20 DEF StaysOn
    <2> HIDE DEF All, mid, bin
    <2> QED  BY <1>2, <1>13, <1>15, <1>16, <1>18, <1>20, <2>1, <2>2, WorksNext DEF b
  <1>21. CASE /\ StartsSpanPart(SecondTok) /\ NodeStack' = nodes
              /\ ContextStack' = TopContext(ContextWith(two)) /\ ParsePrefix(SecondTok)
    <2>1. SecondTok.op \in Tokens \ Trivia
      BY <1>5, <1>21, SpanPart DEF SecondTok
    <2> DEFINE ctxt == ContextWith(two)
    <2>2. /\ WaitingFn(NodeStack', ctxt) = two /\ StaysOn(ctxt)
          /\ ctxt.F \notin {"GroupParselet_parseLoop", "CallParselet_reduceCall"}
      BY <1>13, <1>19, <1>21 DEF StaysOn
    <2>3. ContextStack' = TopContext(ctxt)
      BY <1>21
    <2> HIDE DEF ctxt, two
    <2> QED  BY <1>2, <1>7, <1>18, <1>21, <2>1, <2>2, <2>3, ReadsNext DEF b
  <1>22. CASE /\ SecondTok.op = "SEMISEMI" /\ StartsSpanPart(ThirdTok)
              /\ NodeStack' = Append(All, SecondTok) \o TriviaTokens(SecondTok.hi, r)
              /\ ContextStack' = TopContext(ContextWith(ter)) /\ ParsePrefix(ThirdTok)
    <2>1. ThirdTok.op \in Tokens \ Trivia
      BY <1>11, <1>22, SpanPart
    <2>2. /\ ~LeafIn(SecondTok, Trivia) /\ SecondTok \in Node /\ SecondTok.kind = "Leaf"
          /\ ~IsOperand(LabelOf(SecondTok)) /\ LabelOf(SecondTok) \in Label
      BY <1>5, <1>11, <1>22, TokenIsLeaf
    <2> HIDE DEF All, ThirdTok
    <2> DEFINE s    == Append(All, SecondTok)
               more == Append(mid, LabelOf(SecondTok))
    <2>3. Took(All, s, SecondTok) /\ s \in Seq(Node)
      BY <1>14, <2>2, TookOne
    <2> HIDE DEF s
    <2>4. TookTrivia(s, NodeStack') /\ NodeStack' \in Seq(Node)
      BY <1>11, <1>22, <2>3, TakesTrivia DEF s
    <2>5. Took(All, NodeStack', SecondTok)
      BY <1>14, <2>3, <2>4, TookThenTrivia
    <2>6. b <= Len(All)
      <3>1. Len(NodeStack) <= Len(All)
        BY <1>16 DEF Grows
      <3> QED  BY <1>3, <1>14, <3>1 DEF b
    <2>7. b \in Nat
      BY <1>3 DEF b
    <2> HIDE DEF mid
    <2>8. PartsAre(NodeStack', b, Len(NodeStack'), more) /\ more \in Seq(Label)
      BY <1>14, <1>15, <2>4, <2>5, <2>6, <2>7, TookParts
    <2>9. Awaits(ter, more)
      BY <1>1, <1>4, <1>10, <2>2, SpanForms DEF mid
    <2>10. Grows(All, NodeStack') /\ LeavesOnly(All, NodeStack')
      BY <2>2, <2>5, TookLeaves DEF Took
    <2>11. Grows(NodeStack, NodeStack') /\ LeavesOnly(NodeStack, NodeStack')
      BY <1>3, <1>14, <1>16, <2>4, <2>10, GrowsFurther, LeavesThenLeaves
    <2> DEFINE ctxt == ContextWith(ter)
    <2>12. /\ WaitingFn(NodeStack', ctxt) = ter /\ StaysOn(ctxt)
           /\ ctxt.F \notin {"GroupParselet_parseLoop", "CallParselet_reduceCall"}
      BY <1>13, <1>19, <1>22 DEF StaysOn
    <2> HIDE DEF ctxt, ter, more
    <2> QED  BY <1>2, <1>22, <2>1, <2>8, <2>9, <2>11, <2>12, ReadsNext DEF b
  <1> QED  BY <1>1, <1>20, <1>21, <1>22

\* SemiSemiParselet_parse2: the third operand of ;;, or the end.
LEMMA SpanEndShape ==
  ASSUME Inv, Inv', Fitting, Shaped, SemiSemiParselet_parse2
  PROVE  Shaped'
  <1> DEFINE q         == TriviaButNotToplevelNewlinesEnd(buffer)
             ThirdTok  == Tokenizer_currentToken(q)
             r         == TriviaButNotToplevelNewlinesEnd(ThirdTok.hi)
             FourthTok == Tokenizer_currentToken(r)
             F         == "SemiSemiParselet_reduceTernary"
             ctxt      == ContextWith(F)
  <1>1. /\ call.fn = "SemiSemiParselet_parse2"
        /\ \/ /\ UNCHANGED <<NodeStack, ContextStack>>
              /\ call'.fn = "SemiSemiParselet_reduceBinary"
           \/ /\ ThirdTok.op = "SEMISEMI" /\ StartsSpanPart(FourthTok)
              /\ NodeStack' = NodeStack \o TriviaTokens(buffer, q) \o <<ThirdTok>>
                                \o TriviaTokens(ThirdTok.hi, r)
              /\ ContextStack' = TopContext(ctxt) /\ ParsePrefix(FourthTok)
    BY DEF SemiSemiParselet_parse2, Looping, Calling, Goto, Jump
  <1>2. call.fn \in TripleFns /\ F \in QuintFns
    BY <1>1 DEF TripleFns, QuintFns
  <1>3. CASE /\ UNCHANGED <<NodeStack, ContextStack>>
             /\ call'.fn = "SemiSemiParselet_reduceBinary"
    <2>1. call'.fn \in TripleFns \ TagFns
      BY <1>3 DEF TripleFns, TagFns
    <2> QED  BY <1>2, <1>3, <2>1, EndTripleShape
  <1>4. CASE /\ ThirdTok.op = "SEMISEMI" /\ StartsSpanPart(FourthTok)
             /\ NodeStack' = NodeStack \o TriviaTokens(buffer, q) \o <<ThirdTok>>
                               \o TriviaTokens(ThirdTok.hi, r)
             /\ ContextStack' = TopContext(ctxt) /\ ParsePrefix(FourthTok)
    <2>1. /\ ThirdTok \in Token
          /\ (ThirdTok.op # "ENDOFFILE" => ThirdTok.hi \in 0..Len(input))
      BY StackTypes, TriviaEndType, TokenAt
    <2>2. ctxt = ContextWith(F)
      OBVIOUS
    <2> HIDE DEF ThirdTok, F, ctxt
    <2>3. ThirdTok.op \notin Trivia \union OperandTokens /\ ThirdTok.hi \in 0..Len(input)
      BY <1>4, <2>1, CommasAreOperators
    <2>4. FourthTok.op \in Tokens \ Trivia
      BY <1>4, <2>3, SpanPart
    <2> HIDE DEF FourthTok
    <2> QED  BY <1>2, <1>4, <2>1, <2>2, <2>3, <2>4, SecondOperatorShape
  <1> QED  BY <1>1, <1>3, <1>4

-----------------------------------------------------------------------------
(* Integrals                                                               *)

\* IntegralParselet_parse1: the \[DifferentialD] behind the integrand, or
\* none.
LEMMA IntegralLoopShape ==
  ASSUME Inv, Inv', Fitting, Shaped, IntegralParselet_parse1
  PROVE  Shaped'
  <1> DEFINE q    == TriviaEnd(buffer)
             Tok  == Tokenizer_currentToken(q)
             one  == "IntegralParselet_parse1"
             int  == "IntegralParselet_reduceIntegral"
             F    == "IntegralParselet_reduceIntegrate"
             ctxt == [ContextWith(F) EXCEPT !.P = call.P]
             b    == Parser_topContext.Index
  <1>1. /\ call.fn = one
        /\ \/ EndLoop(q, int)
           \/ /\ NodeStack' = NodeStack \o TriviaTokens(buffer, q)
              /\ ContextStack' = TopContext(ctxt) /\ ParsePrefix(Tok)
    BY DEF IntegralParselet_parse1, Looping, Calling
  <1>2. /\ one \in PrefixedFns /\ int \in PrefixedFns
        /\ one \in WorkingFns /\ int \in WorkingFns \ (TagFns \union {"parseInfix"})
        /\ int \notin GroupFns
    BY DEF PrefixedFns, WorkingFns, RunningFns, ReduceFns, GroupFns, TagFns, ParseFns,
           ContextSensitiveFns
  <1>3. /\ ContextStack # <<>> /\ NodeStack \in Seq(Node) /\ b \in Nat
        /\ b <= Len(NodeStack)
    BY <1>1, <1>2, WorkingParts
  <1>4. PICK parts \in Seq(Label) :
             PartsAre(NodeStack, b, Len(NodeStack), parts) /\ Form(one, parts)
    BY <1>1, <1>2, WorkingParts
  <1>5. ASSUME NEW p, Form(one, p)
        PROVE  Len(p) = 2 /\ OperandsAt(p, {2})
    <2>1. Lengths(one) = {2} /\ Where(one, Len(p)) = {2}
      BY <1>2, LengthOf, WhereOf
    <2> HIDE DEF one
    <2> QED  BY <1>5, <2>1 DEF Form
  <1>6. CASE EndLoop(q, int)
    <2>1. UNCHANGED <<NodeStack, ContextStack>> /\ call'.fn = int
      BY <1>6 DEF EndLoop, Jump
    <2>2. TokenFits(call')
      BY <1>2, <2>1, CalledForNoToken
    <2>3. ASSUME NEW p, Form(one, p) PROVE Form(int, p)
      <3>1. Len(p) = 2 /\ OperandsAt(p, {2})
        BY <1>5, <2>3
      <3>2. Lengths(int) = {2} /\ Where(int, Len(p)) = {2}
        BY <1>2, LengthOf, WhereOf
      <3>3. EndsFit(int, p)
        BY <1>2, FnSets DEF EndsFit, GroupFns
      <3> HIDE DEF int
      <3> QED  BY <1>2, <3>1, <3>2, <3>3, FnSets DEF Form
    <2> HIDE DEF int, one
    <2> QED  BY <1>1, <1>2, <2>1, <2>2, <2>3, SameNodesShape
  <1>7. CASE /\ NodeStack' = NodeStack \o TriviaTokens(buffer, q)
             /\ ContextStack' = TopContext(ctxt) /\ ParsePrefix(Tok)
    <2>1. ctxt.F = F /\ ctxt.Index = b
      <3> HIDE DEF F
      <3> QED  BY <1>3, PartFields
    <2>2. Tok.op \in Tokens \ Trivia
      BY StackTypes, EndOfTrivia
    <2> HIDE DEF ctxt, Tok
    <2>3. TookTrivia(NodeStack, NodeStack') /\ NodeStack' \in Seq(Node)
      BY <1>3, <1>7, StackTypes, TakesTrivia
    <2>4. Grows(NodeStack, NodeStack') /\ LeavesOnly(NodeStack, NodeStack')
      BY <2>3, TookLeaves DEF TookTrivia
    <2>5. PartsAre(NodeStack', b, Len(NodeStack'), parts)
      BY <1>3, <1>4, <2>3, TriviaParts
    <2>6. Len(parts) = 2 /\ OperandsAt(parts, {2})
      BY <1>4, <1>5
    <2>7. OperandsAt(parts, {2, 3})
      BY <2>6 DEF OperandsAt
    <2>8. Lengths(F) = {3} /\ Where(F, 0) = {2, 3}
      BY LengthOf, WhereOf
    <2>9. EndsFit(F, parts)
      BY DEF EndsFit, GroupFns, CompoundFns, InnerReduce
    <2>10. Len(parts) # 0 /\ Len(parts) + 1 = 3
      BY <2>6
    <2>11. WaitingFn(NodeStack', ctxt) = F
      BY <2>1 DEF WaitingFn
    <2>12. /\ ctxt.F \notin {"GroupParselet_parseLoop", "CallParselet_reduceCall"}
           /\ StaysOn(ctxt)
      BY <1>7, <2>1 DEF StaysOn
    <2> HIDE DEF F, one, int
    <2>13. Awaits(F, parts)
      <3>1. Len(parts) + 1 \in Lengths(F) /\ Len(parts) + 1 \in Where(F, 0)
        BY <2>8, <2>10
      <3> QED  BY <2>7, <2>8, <2>9, <2>10, <3>1 DEF Awaits
    <2> QED  BY <1>1, <1>2, <1>7, <2>2, <2>4, <2>5, <2>11, <2>12, <2>13, ReadsNext DEF b
  <1> QED  BY <1>1, <1>6, <1>7

-----------------------------------------------------------------------------
(* Message names and files                                                 *)

\* The name behind a ::.
LEMMA TagShape ==
  ASSUME Inv, Inv', Fitting, Shaped,
         call.fn \in {"parseInfix", "ColonColonParselet_parseLoop"}, UNCHANGED ContextStack,
         NEW nodes \in Seq(Node), TookTrivia(NodeStack, nodes),
         NEW t \in Token, t.hi \in 0..Len(input), t.op \notin Trivia \union OperandTokens,
         TakeTag(nodes, t)
  PROVE  Shaped'
  <1> DEFINE tag == Tokenizer_currentToken_stringifyAsTag(t.hi)
             mid == Append(nodes, t)
  <1>1. NodeStack' = nodes \o <<t, tag>> /\ call'.fn = "ColonColonParselet_parseLoop"
    BY DEF TakeTag, Goto, Jump
  <1>2. tag \in Token /\ tag.op \in OperandTokens
    <2>1. input \in Seq(SourceTokens)
      BY StackTypes
    <2>2. tag.op \in {"STRING", "ERROR_EXPECTEDTAG"}
      BY DEF Tokenizer_currentToken_stringifyAsTag, Leaf
    <2>3. {"STRING", "ERROR_EXPECTEDTAG"} \subseteq OperandTokens
      <3>1. "ERROR_EXPECTEDTAG" \in Errors
        BY DEF Errors, ParserErrors
      <3> QED  BY <3>1 DEF OperandTokens
    <2> QED  BY <2>1, <2>2, <2>3, TagTokenType
  <1>3. t \in Node /\ tag \in Node /\ t.kind = "Leaf" /\ ~LeafIn(t, Trivia)
    BY <1>2, TokenIsLeaf
  <1> HIDE DEF tag
  <1>4. NodeStack' = Append(mid, tag)
    BY <1>1, <1>3
  <1>5. Took(nodes, mid, t) /\ mid \in Seq(Node)
    BY <1>3, TookOne
  <1>6. NodeStack \in Seq(Node)
    BY StackTypes
  <1> HIDE DEF mid
  <1>7. Took(NodeStack, mid, t)
    BY <1>5, <1>6, TriviaThenTook
  <1>8. LeavesOnly(NodeStack, mid)
    BY <1>3, <1>7, TookLeaves
  <1>9. /\ call.fn \in LinearFns /\ Follows(call.fn, call'.fn)
        /\ call'.fn \in LinearFns \ (TagFns \union {"parseInfix"})
    <2>1. /\ call.fn \in ChainFns \union {"parseInfix"} /\ call'.fn \in ChainFns
          /\ call'.fn \notin TagFns \union {"parseInfix"}
      BY <1>1 DEF ChainFns, TagFns
    <2> QED  BY <2>1, FollowsFacts DEF LinearFns
  <1>10. StaysOn(Parser_topContext)
    BY DEF StaysOn
  <1> QED  BY <1>2, <1>4, <1>5, <1>7, <1>8, <1>9, <1>10, OperandGiven

\* ColonColonParselet::parseInfix and ColonColonParselet_parseLoop.
LEMMA ColonColonShape ==
  ASSUME Inv, Inv', Fitting, Shaped,
         ColonColonParselet_parseInfix \/ ColonColonParselet_parseLoop
  PROVE  Shaped'
  <1>1. CASE ColonColonParselet_parseInfix
    <2>1. /\ Calling("parseInfix") /\ call.fn = "parseInfix"
          /\ TakeTag(NodeStack, call.tok) /\ UNCHANGED ContextStack
      BY <1>1 DEF ColonColonParselet_parseInfix, Infix, Calling
    <2>2. /\ call.tok \in Token /\ call.tok.hi \in 0..Len(input)
          /\ call.tok.op \notin Trivia \union OperandTokens
      BY <2>1, InfixToken
    <2>3. NodeStack \in Seq(Node) /\ TookTrivia(NodeStack, NodeStack)
      BY StackTypes, TookNothing
    <2> QED  BY <2>1, <2>2, <2>3, TagShape
  <1>2. CASE ColonColonParselet_parseLoop
    <2> DEFINE q     == TriviaEnd(buffer)
               Tok1  == Tokenizer_currentToken(q)
               nodes == NodeStack \o TriviaTokens(buffer, q)
               fn    == "ColonColonParselet_reduceMessageName"
    <2>1. /\ call.fn = "ColonColonParselet_parseLoop"
          /\ IF Tok1.op # "COLONCOLON" THEN EndLoop(q, fn)
             ELSE TakeTag(nodes, Tok1) /\ UNCHANGED ContextStack
      BY <1>2 DEF ColonColonParselet_parseLoop, Looping, Calling
    <2>2. call.fn \in ChainFns /\ fn \in ChainFns
      BY <2>1 DEF ChainFns
    <2>3. CASE Tok1.op # "COLONCOLON"
      <3> HIDE DEF fn, q
      <3> QED  BY <2>1, <2>2, <2>3, EndLoopShape DEF q
    <2>4. CASE Tok1.op = "COLONCOLON"
      <3>1. /\ Tok1 \in Token /\ (Tok1.op # "ENDOFFILE" => Tok1.hi \in 0..Len(input))
        BY StackTypes, TriviaEndType, TokenAt
      <3>2. TookTrivia(NodeStack, nodes) /\ nodes \in Seq(Node)
        BY StackTypes, TakesTrivia
      <3> HIDE DEF Tok1, nodes
      <3>3. Tok1.op \notin Trivia \union OperandTokens /\ Tok1.hi \in 0..Len(input)
        BY <2>4, <3>1, CommasAreOperators
      <3> QED  BY <2>1, <2>4, <3>1, <3>2, <3>3, TagShape
    <2> QED  BY <2>3, <2>4
  <1> QED  BY <1>1, <1>2

\* The file names behind >> and >>>.
LEMMA FileShape ==
  ASSUME Inv, Inv', Fitting, Shaped,
         GreaterGreaterParselet_parseInfix \/ GreaterGreaterGreaterParselet_parseInfix
  PROVE  Shaped'
  <1> DEFINE t == call.tok
             R == {"GreaterGreaterParselet_reducePut",
                   "GreaterGreaterGreaterParselet_reducePutAppend"}
  <1>1. /\ Calling("parseInfix") /\ call.fn = "parseInfix" /\ UNCHANGED ContextStack
        /\ \E fn \in R : TakeFile(t, fn)
    BY DEF GreaterGreaterParselet_parseInfix, GreaterGreaterGreaterParselet_parseInfix,
           Infix, Calling
  <1>2. PICK fn \in R : TakeFile(t, fn)
    BY <1>1
  <1>3. t \in Token /\ t.hi \in 0..Len(input) /\ t.op \notin Trivia \union OperandTokens
    BY <1>1, InfixToken
  <1> HIDE DEF t
  <1>4. call'.fn = fn
    BY <1>2, <1>3, FileTaken
  <1>5. PICK mid \in Seq(Node), file \in Token :
             /\ Took(NodeStack, mid, t) /\ LeavesOnly(NodeStack, mid)
             /\ NodeStack' = Append(mid, file) /\ file.op \in OperandTokens
    BY <1>2, <1>3, FileTaken
  <1>6. /\ call.fn \in LinearFns /\ Follows(call.fn, call'.fn)
        /\ call'.fn \in LinearFns \ (TagFns \union {"parseInfix"})
    <2>1. fn \in TripleFns /\ fn \notin TagFns \union {"parseInfix"}
      BY DEF TripleFns, TagFns
    <2> QED  BY <1>1, <1>4, <2>1, FollowsFacts DEF LinearFns
  <1>7. StaysOn(Parser_topContext)
    BY <1>1 DEF StaysOn
  <1> QED  BY <1>3, <1>5, <1>6, <1>7, OperandGiven

(* The nodes of a context become one node                                  *)

\* A node is made of the top context's nodes, and its context is left.
LEMMA PoppedShape ==
  ASSUME Inv, Inv', Fitting, Shaped, call.fn \in WorkingFns,
         NEW nodes \in {NodeStack, Pop(NodeStack)}, NEW N \in Node,
         NodeStack' = Append(NodesBelow(nodes), N), ContextStack' = Pop(ContextStack),
         call'.fn \in CompleteFns, WellFormedNode(N), IsOperand(LabelOf(N)),
         call.fn \in GroupFns => N.kind \in GroupKinds \union {"Abort"}
  PROVE  Shaped'
  <1> DEFINE k == Parser_topContext.Index
             b == NodesBelow(nodes)
  <1>1. /\ ContextStack # <<>> /\ NodeStack \in Seq(Node) /\ Len(NodeStack) \in Nat
        /\ k \in Nat /\ k < Len(NodeStack)
    BY WorkingParts
  <1>2. /\ Pop(NodeStack) \in Seq(Node) /\ Len(Pop(NodeStack)) = Len(NodeStack) - 1
        /\ \A i \in 1..(Len(NodeStack) - 1) : Pop(NodeStack)[i] = NodeStack[i]
    <2>1. NodeStack # <<>>
      BY <1>1
    <2> QED  BY <1>1, <2>1, PopFacts
  <1>3. /\ nodes \in Seq(Node) /\ k \in 0..Len(nodes) /\ Len(nodes) \in Nat
        /\ \A i \in 1..k : nodes[i] = NodeStack[i]
    <2>1. CASE nodes = NodeStack
      BY <1>1, <2>1
    <2>2. CASE nodes = Pop(NodeStack)
      <3>1. Len(nodes) = Len(NodeStack) - 1 /\ nodes \in Seq(Node)
            /\ \A i \in 1..Len(nodes) : nodes[i] = NodeStack[i]
        BY <1>2, <2>2
      <3> QED  BY <1>1, <3>1
    <2> QED  BY <2>1, <2>2
  <1>4. /\ b \in Seq(Node) /\ Len(b) = k /\ \A i \in 1..k : b[i] = nodes[i]
    <2>1. k \in 0..Len(nodes) /\ Len(nodes) \in Nat /\ nodes \in Seq(Node)
      BY <1>3
    <2> HIDE DEF k
    <2>2. SubSeq(nodes, 1, k) \in Seq(Node) /\ Len(SubSeq(nodes, 1, k)) = k
      BY <2>1, PrefixType
    <2>3. \A i \in 1..k : SubSeq(nodes, 1, k)[i] = nodes[i]
      BY <2>1
    <2> QED  BY <2>1, <2>2, <2>3 DEF NodesBelow, k
  <1> HIDE DEF b, k
  <1>5. NodeStack' = Append(b, N)
    BY DEF b
  <1>6. /\ Len(NodeStack') = k + 1 /\ Top(NodeStack') = N
        /\ \A i \in 1..k : NodeStack'[i] = b[i]
    BY <1>1, <1>4, <1>5, GrowsByOne DEF Grows, Agree
  <1>7. Agree(NodeStack, NodeStack', k)
    BY <1>3, <1>4, <1>6 DEF Agree
  <1>8. Opens(NodeStack, Parser_topContext) => N.kind \in GroupKinds \union {"Abort"}
    BY <1>1, OpensForGroups
  <1> QED  BY <1>1, <1>6, <1>7, <1>8, PopShaped DEF k

\* The aborts while a function waits.
LEMMA AbortsShape ==
  ASSUME Inv, Inv', Fitting, Shaped,
         parseInfix_abort \/ parseLoop_abort \/ GroupParselet_parseLoop_abort
           \/ TagAndSpan_abort
  PROVE  Shaped'
  <1>1. PICK nodes \in {NodeStack, Pop(NodeStack)} :
          /\ NodeStack' = Append(NodesBelow(nodes), AbortNode)
          /\ ContextStack' = Pop(ContextStack) /\ call'.fn = "Parser_tryContinue"
    <2>1. CASE parseInfix_abort
      BY <2>1 DEF parseInfix_abort, Goto, Jump
    <2>2. CASE parseLoop_abort
      BY <2>2 DEF parseLoop_abort, Goto, Jump
    <2>3. CASE GroupParselet_parseLoop_abort
      BY <2>3 DEF GroupParselet_parseLoop_abort, Goto, Jump
    <2>4. CASE TagAndSpan_abort
      BY <2>4 DEF TagAndSpan_abort, Goto, Jump
    <2> QED  BY <2>1, <2>2, <2>3, <2>4
  <1>2. call.fn \in {"parseInfix", "GroupParselet_parseLoop",
                     "EqualParselet_parseInfixTag", "ColonEqualParselet_parseInfixTag",
                     "SemiSemiParselet_parse1"} \union AbortableLoops
    BY DEF parseInfix_abort, parseLoop_abort, GroupParselet_parseLoop_abort,
           TagAndSpan_abort, Calling
  <1>3. call.fn \in WorkingFns
    BY <1>2 DEF WorkingFns, RunningFns, AbortableLoops, LoopFns, ParseFns,
                ContextSensitiveFns, InnerReduce
  <1>4. AbortNode \in Node /\ AbortNode.kind = "Abort" /\ IsOperand(LabelOf(AbortNode))
    BY AbortIsOperand
  <1>5. WellFormedNode(AbortNode)
    BY <1>4, LeavesWellFormed
  <1>6. call'.fn \in CompleteFns
    BY <1>1 DEF CompleteFns
  <1> QED  BY <1>1, <1>3, <1>4, <1>5, <1>6, PoppedShape

\* What a function makes of its parts.
Makes(fn, kind, op) ==
  \A parts \in Seq(Label), N \in Node :
    Form(fn, parts) /\ N.kind = kind /\ N.op = op /\ Parts(N) = parts =>
      WellFormedNode(N)

\* A reduction makes a node of its kind.
LEMMA ReduceShape ==
  ASSUME Inv, Inv', Fitting, Shaped, NEW fn \in WorkingFns,
         NEW kind \in NodeKinds \ {"Leaf"}, NEW op \in Ops, NEW next \in CompleteFns,
         ReduceContext(fn, kind, op, next), Makes(fn, kind, op),
         fn \in GroupFns => kind \in GroupKinds
  PROVE  Shaped'
  <1> DEFINE N == NewNode(kind, op, ArgsOf(NodeStack))
             k == Parser_topContext.Index
  <1>1. /\ call.fn = fn /\ ContextStack' = Pop(ContextStack)
        /\ NodeStack' = Append(NodesBelow(NodeStack), N) /\ call'.fn = next
    BY DEF ReduceContext, Calling, Goto, Jump
  <1>2. /\ NodeStack \in Seq(Node) /\ Len(NodeStack) \in Nat
        /\ k \in Nat /\ k < Len(NodeStack)
        /\ \E parts \in Seq(Label) :
              PartsAre(NodeStack, k, Len(NodeStack), parts) /\ Form(fn, parts)
    BY <1>1, WorkingParts
  <1>3. N \in Node
    BY <1>2, ReducedNode
  <1>4. N.kind = kind /\ N.op = op
    BY DEF NewNode
  <1>5. N.kids = [i \in 1..(Len(NodeStack) - k) |-> LabelOf(NodeStack[k + i])]
    <2> DEFINE args == ArgsOf(NodeStack)
               m    == Len(NodeStack) - k
    <2>1. Len(args) = m /\ \A i \in 1..m : args[i] = NodeStack[k + i]
      <3>1. args = SubSeq(NodeStack, k + 1, Len(NodeStack))
        BY DEF ArgsOf
      <3> HIDE DEF args, k
      <3>2. \A i \in 1..m : args[i] = NodeStack[k + i]
        BY <1>2, <3>1
      <3>3. Len(args) = m
        BY <1>2, <3>1
      <3> QED  BY <3>2, <3>3
    <2>2. N.kids = [i \in 1..Len(args) |-> LabelOf(args[i])]
      BY DEF NewNode
    <2> HIDE DEF args, m, N, k
    <2>4. N.kids = [i \in 1..m |-> LabelOf(NodeStack[k + i])]
      BY <2>1, <2>2
    <2> QED  BY <2>4 DEF m
  <1> HIDE DEF N, k
  <1>6. PICK parts \in Seq(Label) :
          PartsAre(NodeStack, k, Len(NodeStack), parts) /\ Form(fn, parts)
    BY <1>2
  <1>7. Parts(N) = parts
    <2>1. NodeStack \in Seq(Node) /\ k \in Nat /\ k < Len(NodeStack)
      BY <1>2
    <2>2. PartsAre(NodeStack, k, Len(NodeStack), parts)
      BY <1>6
    <2>3. \A M : M.kids = [i \in 1..(Len(NodeStack) - k) |-> LabelOf(NodeStack[k + i])]
                 => Parts(M) = parts
      BY <2>1, <2>2, PartsOfNode, ZenonT(30)
    <2> QED  BY <1>5, <2>3, ZenonT(30)
  <1>8. WellFormedNode(N)
    BY <1>3, <1>4, <1>6, <1>7 DEF Makes
  <1>9. IsOperand(LabelOf(N))
    BY <1>4 DEF IsOperand, LabelOf
  <1> QED  BY <1>1, <1>3, <1>4, <1>8, <1>9, PoppedShape

\* Where the operands of a few parts in a row are.
LEMMA FewParts ==
  ASSUME NEW parts
  PROVE  /\ Alternates(parts) /\ Len(parts) = 2 => OperandsAt(parts, {1})
         /\ Alternates(parts) /\ Len(parts) = 3 => OperandsAt(parts, {1, 3})
         /\ Alternates(parts) /\ Len(parts) = 5 => OperandsAt(parts, {1, 3, 5})
         /\ Alternates(parts) /\ Len(parts) \in Odd \ {1} =>
              /\ Len(parts) >= 3 /\ Len(parts) % 2 = 1
              /\ OperandsAt(parts, {i \in 1..Len(parts) : i % 2 = 1})
  <1>1. Alternates(parts) /\ Len(parts) = 2 => OperandsAt(parts, {1})
    <2> HAVE Alternates(parts) /\ Len(parts) = 2
    <2>1. \A i \in 1..2 : i \in Odd <=> i \in {1}
      BY OddFacts
    <2> QED  BY <2>1 DEF Alternates, OperandsAt
  <1>2. Alternates(parts) /\ Len(parts) = 3 => OperandsAt(parts, {1, 3})
    <2> HAVE Alternates(parts) /\ Len(parts) = 3
    <2>1. \A i \in 1..3 : i \in Odd <=> i \in {1, 3}
      BY OddFacts
    <2> QED  BY <2>1 DEF Alternates, OperandsAt
  <1>3. Alternates(parts) /\ Len(parts) = 5 => OperandsAt(parts, {1, 3, 5})
    <2> HAVE Alternates(parts) /\ Len(parts) = 5
    <2>1. \A i \in 1..5 : i \in Odd <=> i \in {1, 3, 5}
      BY OddFacts
    <2> QED  BY <2>1 DEF Alternates, OperandsAt
  <1>4. Alternates(parts) /\ Len(parts) \in Odd \ {1} =>
              /\ Len(parts) >= 3 /\ Len(parts) % 2 = 1
              /\ OperandsAt(parts, {i \in 1..Len(parts) : i % 2 = 1})
    <2> DEFINE n == Len(parts)
    <2> SUFFICES ASSUME Alternates(parts), n \in Odd \ {1}
                 PROVE  /\ n >= 3 /\ n % 2 = 1
                        /\ OperandsAt(parts, {i \in 1..n : i % 2 = 1})
      OBVIOUS
    <2>1. n \in Nat /\ n % 2 = 1 /\ n # 1
      BY DEF Odd
    <2> DEFINE W == {i \in 1..n : i % 2 = 1}
    <2>2. \A i \in 1..n : i \in Odd <=> i \in W
      BY <2>1 DEF Odd
    <2>3. \A i \in 1..n : IsOperand(parts[i]) <=> i \in Odd
      BY DEF Alternates, OperandsAt
    <2> HIDE DEF W
    <2>4. OperandsAt(parts, W)
      BY <2>2, <2>3 DEF OperandsAt
    <2> HIDE DEF n
    <2>5. n >= 3
      BY <2>1
    <2> QED  BY <2>1, <2>4, <2>5 DEF W
  <1> QED  BY <1>1, <1>2, <1>3, <1>4

\* Operands with operators between make the node of their kind.
LEMMA LinearMakes ==
  ASSUME NEW fn \in LinearFns, NEW kind, NEW op,
         \/ fn \in ChainFns /\ kind = "Infix"
         \/ fn \in TripleFns /\ kind = "Binary" /\ op # "Unset"
         \/ fn \in TripleFns /\ kind = "SyntaxError"
         \/ fn \in QuintFns /\ kind = "Ternary" /\ op # "TagUnset"
         \/ fn \in PostfixedFns /\ kind = "Postfix"
  PROVE  Makes(fn, kind, op)
  <1> SUFFICES ASSUME NEW parts \in Seq(Label), NEW N \in Node, Form(fn, parts),
                      N.kind = kind, N.op = op, Parts(N) = parts
               PROVE  WellFormedNode(N)
    BY DEF Makes
  <1>1. Len(parts) \in Lengths(fn) /\ Alternates(parts)
    BY LinearForm
  <1>2. CASE fn \in ChainFns /\ kind = "Infix"
    <2>1. Len(parts) \in Odd \ {1}
      BY <1>1, <1>2, LengthOf
    <2>2. /\ Len(parts) >= 3 /\ Len(parts) % 2 = 1
          /\ OperandsAt(parts, {i \in 1..Len(parts) : i % 2 = 1})
      BY <1>1, <2>1, FewParts
    <2> QED  BY <1>2, <2>2 DEF WellFormedNode, GroupKinds
  <1>3. CASE fn \in TripleFns /\ kind = "Binary" /\ op # "Unset"
    <2>1. Len(parts) = 3
      BY ZenonT(60), <1>1, <1>3, LengthOf
    <2>2. OperandsAt(parts, {1, 3})
      BY <1>1, <2>1, FewParts
    <2> QED  BY <1>3, <2>1, <2>2 DEF WellFormedNode, GroupKinds
  <1>4. CASE fn \in TripleFns /\ kind = "SyntaxError"
    <2>1. Len(parts) = 3
      BY ZenonT(60), <1>1, <1>4, LengthOf
    <2>2. OperandsAt(parts, {1, 3})
      BY <1>1, <2>1, FewParts
    <2> QED  BY <1>4, <2>1, <2>2 DEF WellFormedNode, GroupKinds
  <1>5. CASE fn \in QuintFns /\ kind = "Ternary" /\ op # "TagUnset"
    <2>1. Len(parts) = 5
      BY ZenonT(60), <1>1, <1>5, LengthOf
    <2>2. OperandsAt(parts, {1, 3, 5})
      BY <1>1, <2>1, FewParts
    <2> QED  BY <1>5, <2>1, <2>2 DEF WellFormedNode, GroupKinds
  <1>6. CASE fn \in PostfixedFns /\ kind = "Postfix"
    <2>1. Len(parts) = 2
      <3>1. Lengths(fn) = {2}
        BY <1>6, LengthOf
      <3> QED  BY <1>1, <3>1
    <2>2. OperandsAt(parts, {1})
      BY <1>1, <2>1, FewParts
    <2> QED  BY <1>6, <2>1, <2>2 DEF WellFormedNode, GroupKinds
  <1> QED  BY <1>2, <1>3, <1>4, <1>5, <1>6

\* An operator in front, and the two forms of Unset, make the node of their
\* kind.
LEMMA PrefixedMakes ==
  ASSUME NEW fn, NEW kind, NEW op,
         \/ fn \in PrefixedFns /\ kind = "Prefix"
         \/ fn = "IntegralParselet_reduceIntegrate" /\ kind = "PrefixBinary"
         \/ fn = "EqualParselet_reduceUnset" /\ kind = "Binary" /\ op = "Unset"
         \/ fn = "EqualParselet_reduceTagUnset" /\ kind = "Ternary" /\ op = "TagUnset"
  PROVE  Makes(fn, kind, op)
  <1> SUFFICES ASSUME NEW parts \in Seq(Label), NEW N \in Node, Form(fn, parts),
                      N.kind = kind, N.op = op, Parts(N) = parts
               PROVE  WellFormedNode(N)
    BY DEF Makes
  <1>1. Len(parts) \in Lengths(fn) /\ OperandsAt(parts, Where(fn, Len(parts)))
    BY DEF Form
  <1>2. CASE fn \in PrefixedFns /\ kind = "Prefix"
    <2>1. Len(parts) = 2 /\ Where(fn, Len(parts)) = {2}
      <3>1. Lengths(fn) = {2}
        BY <1>2, LengthOf
      <3>2. Where(fn, Len(parts)) = {2}
        BY <1>2, WhereOf
      <3> QED  BY <1>1, <3>1, <3>2
    <2> QED  BY <1>1, <1>2, <2>1 DEF WellFormedNode, GroupKinds
  <1>3. CASE fn = "IntegralParselet_reduceIntegrate" /\ kind = "PrefixBinary"
    <2>1. Len(parts) = 3 /\ Where(fn, Len(parts)) = {2, 3}
      <3>1. Lengths(fn) = {3}
        BY <1>3, LengthOf
      <3>2. Where(fn, Len(parts)) = {2, 3}
        BY <1>3, WhereOf
      <3> QED  BY <1>1, <3>1, <3>2
    <2> QED  BY <1>1, <1>3, <2>1 DEF WellFormedNode, GroupKinds
  <1>4. CASE fn = "EqualParselet_reduceUnset" /\ kind = "Binary" /\ op = "Unset"
    <2>1. Len(parts) = 3 /\ Where(fn, Len(parts)) = {1}
      <3>1. Lengths(fn) = {3}
        BY <1>4, LengthOf
      <3>2. Where(fn, Len(parts)) = {1}
        BY <1>4, WhereOf
      <3> QED  BY <1>1, <3>1, <3>2
    <2> QED  BY <1>1, <1>4, <2>1 DEF WellFormedNode, GroupKinds
  <1>5. CASE fn = "EqualParselet_reduceTagUnset" /\ kind = "Ternary" /\ op = "TagUnset"
    <2>1. Len(parts) = 5 /\ Where(fn, Len(parts)) = {1, 3}
      <3>1. Lengths(fn) = {5}
        BY <1>5, LengthOf
      <3>2. Where(fn, Len(parts)) = {1, 3}
        BY <1>5, WhereOf
      <3> QED  BY <1>1, <3>1, <3>2
    <2> QED  BY <1>1, <1>5, <2>1 DEF WellFormedNode, GroupKinds
  <1> QED  BY <1>2, <1>3, <1>4, <1>5

\* Two operands in a row make a compound or a call.
LEMMA CompoundMakes ==
  ASSUME NEW fn, NEW kind, NEW op,
         \/ fn \in CompoundFns /\ kind = "Compound"
         \/ fn = "CallParselet_reduceCall" /\ kind = "Call"
  PROVE  Makes(fn, kind, op)
  <1> SUFFICES ASSUME NEW parts \in Seq(Label), NEW N \in Node, Form(fn, parts),
                      N.kind = kind, N.op = op, Parts(N) = parts
               PROVE  WellFormedNode(N)
    BY DEF Makes
  <1>1. /\ Len(parts) \in Lengths(fn) /\ OperandsAt(parts, Where(fn, Len(parts)))
        /\ EndsFit(fn, parts)
        /\ fn = "CallParselet_reduceCall" => parts[2][1] \in GroupKinds \union {"Abort"}
    BY DEF Form
  <1>2. Len(parts) = 2 /\ Where(fn, Len(parts)) = {1, 2}
    BY <1>1, LengthOf, WhereOf
  <1>3. CASE fn \in CompoundFns /\ kind = "Compound"
    <2>1. parts[1][1] = "Leaf"
      BY <1>1, <1>3 DEF EndsFit
    <2> QED  BY <1>2, <1>3, <2>1 DEF WellFormedNode, GroupKinds
  <1>4. CASE fn = "CallParselet_reduceCall" /\ kind = "Call"
    <2>1. IsOperand(parts[1])
      BY <1>1, <1>2 DEF OperandsAt
    <2> QED  BY <1>1, <1>2, <1>4, <2>1 DEF WellFormedNode, GroupKinds
  <1> QED  BY <1>3, <1>4

\* An opener, operands and the closer, if there is one, make a group.
LEMMA GroupMakes ==
  ASSUME NEW fn \in GroupFns, NEW kind, NEW op,
         IF fn = "GroupParselet_reduceGroup" THEN kind = "Group"
                                             ELSE kind \in GroupKinds \ {"Group"}
  PROVE  Makes(fn, kind, op)
  <1> SUFFICES ASSUME NEW parts \in Seq(Label), NEW N \in Node, Form(fn, parts),
                      N.kind = kind, N.op = op, Parts(N) = parts
               PROVE  WellFormedNode(N)
    BY DEF Makes
  <1>1. /\ Len(parts) \in Lengths(fn) /\ OperandsAt(parts, Where(fn, Len(parts)))
        /\ EndsFit(fn, parts)
    BY DEF Form
  <1>2. parts[1][1] = "Leaf" /\ parts[1][2] \in Openers
    BY <1>1 DEF EndsFit
  <1>3. N.kind \in GroupKinds
    BY DEF GroupKinds
  <1>4. \A i \in 2..Len(parts) : IsOperand(parts[i]) \/ (N.kind = "Group" /\ i = Len(parts))
    <2> DEFINE n == Len(parts)
    <2> SUFFICES ASSUME NEW i \in 2..n
                 PROVE  IsOperand(parts[i]) \/ (N.kind = "Group" /\ i = n)
      OBVIOUS
    <2>1. n \in Nat
      BY <1>1, LengthOf
    <2>2. i \in 1..n
      BY <2>1
    <2>3. CASE fn = "GroupParselet_reduceGroup"
      <3>1. Where(fn, n) = 2..(n - 1)
        BY <2>3, WhereOf
      <3>2. CASE i = n
        BY <2>3, <3>2
      <3>3. CASE i # n
        BY <1>1, <2>1, <2>2, <3>1, <3>3 DEF OperandsAt
      <3> QED  BY <3>2, <3>3
    <2>4. CASE fn # "GroupParselet_reduceGroup"
      <3>1. Where(fn, n) = Nat \ {0, 1}
        BY <2>4, WhereOf
      <3>2. i \in Nat \ {0, 1}
        BY <2>1
      <3> QED  BY <1>1, <2>2, <3>1, <3>2 DEF OperandsAt
    <2> QED  BY <2>3, <2>4
  <1>5. N.kind = "Group" =>
           /\ parts[Len(parts)][1] = "Leaf"
           /\ TokenToCloser(parts[Len(parts)][2]) = GroupOpenerToCloser(parts[1][2])
    <2>1. N.kind = "Group" => fn = "GroupParselet_reduceGroup"
      OBVIOUS
    <2> QED  BY <1>1, <2>1 DEF EndsFit, Top
  <1>6. N.kind \notin {"Leaf", "Abort", "Prefix", "Postfix", "PrefixBinary", "Binary",
                       "SyntaxError", "Ternary", "Infix", "Compound", "Call"}
    BY <1>3 DEF GroupKinds
  <1> QED  BY <1>2, <1>3, <1>4, <1>5, <1>6 DEF WellFormedNode, GroupKinds

(* The reductions                                                          *)

\* A reduction from the function that waited.
LEMMA PlainReduceShape ==
  ASSUME Inv, Inv', Fitting, Shaped, NEW fn \in (ReduceFns \ GroupFns) \ {InnerReduce},
         NEW kind \in NodeKinds \ {"Leaf"}, NEW op \in Ops, Reduce(fn, kind, op),
         Makes(fn, kind, op)
  PROVE  Shaped'
  <1>1. fn \in WorkingFns /\ fn \notin GroupFns
    BY ReduceFnsRun DEF WorkingFns
  <1>2. ReduceContext(fn, kind, op, "Parser_parseClimb")
    BY DEF Reduce
  <1>3. "Parser_parseClimb" \in CompleteFns
    BY DEF CompleteFns
  <1> QED  BY <1>1, <1>2, <1>3, ReduceShape

\* The operators of a parselet are operators of nodes.
LEMMA CallOps ==
  ASSUME Inv
  PROVE  /\ call.P.op \in Ops /\ call.P.op2 \in Ops
         /\ call.fn = "BinaryOperatorParselet_reduceBinaryOperator" => call.P.op # "Unset"
  <1>1. call \in Call
    BY StackTypes
  <1>2. call.P \in Parselet /\ call.P.class \in ClassesFor(call.fn)
    BY <1>1, CallFields
  <1>3. ClassesFor("BinaryOperatorParselet_reduceBinaryOperator") = {"BinaryOperator"}
    BY DEF ClassesFor
  <1> QED  BY <1>2, <1>3, ParseletFields

\* The operators of the nodes that are always of the same kind.
LEMMA NamedOps ==
  {"TernaryTilde", "ExpectedTilde", "Pattern", "ExpectedSymbol", "Optional",
   "ExpectedSet", "Set", "Unset", "TagSet", "TagUnset", "SetDelayed", "TagSetDelayed",
   "Span", "Times", "Comma", "CompoundExpression", "MessageName", "Put", "PutAppend",
   "Get", "Slot", "SlotSequence", "Out", "PatternOptionalDefault", "Call"} \subseteq Ops
  BY DEF Ops

\* The kinds of node the reductions make.
LEMMA NodeKindsAre ==
  {"Prefix", "PrefixBinary", "Binary", "Infix", "Ternary", "Postfix", "Compound", "Group",
   "GroupMissingCloser", "UnterminatedGroupNeedsReparse", "Call", "SyntaxError"}
     \subseteq NodeKinds \ {"Leaf"}
  BY DEF NodeKinds

\* The functions that reduce operators in a row, with what they make.
LEMMA LinearReduceShape ==
  ASSUME Inv, Inv', Fitting, Shaped, NEW fn \in ReduceFns, NEW kind, NEW op \in Ops,
         Reduce(fn, kind, op),
         \/ fn \in ChainFns /\ kind = "Infix"
         \/ fn \in TripleFns /\ kind = "Binary" /\ op # "Unset"
         \/ fn \in TripleFns /\ kind = "SyntaxError"
         \/ fn \in QuintFns /\ kind = "Ternary" /\ op # "TagUnset"
         \/ fn \in PostfixedFns /\ kind = "Postfix"
  PROVE  Shaped'
  <1>1. fn \in LinearFns
    BY DEF LinearFns
  <1>2. fn \notin GroupFns /\ fn # InnerReduce
    BY <1>1, LinearPlain DEF CompoundFns
  <1>3. kind \in NodeKinds \ {"Leaf"}
    BY NodeKindsAre
  <1>4. Makes(fn, kind, op)
    BY <1>1, LinearMakes
  <1> QED  BY <1>2, <1>3, <1>4, PlainReduceShape

\* The reductions of the plain operators.
LEMMA OperatorReducesShape ==
  ASSUME Inv, Inv', Fitting, Shaped,
         \/ BinaryOperatorParselet_reduceBinaryOperator
         \/ PostfixOperatorParselet_reducePostfixOperator
         \/ InfixOperatorParselet_reduceInfixOperator \/ TimesParselet_reduceTimes
         \/ SemiParselet_reduceCompoundExpression
  PROVE  Shaped'
  <1>1. CASE BinaryOperatorParselet_reduceBinaryOperator
    <2> DEFINE fn == "BinaryOperatorParselet_reduceBinaryOperator"
    <2>1. Reduce(fn, "Binary", call.P.op) /\ call.fn = fn
      BY <1>1 DEF BinaryOperatorParselet_reduceBinaryOperator, Reduce, ReduceContext, Calling
    <2>2. fn \in TripleFns /\ fn \in ReduceFns
      BY DEF TripleFns, ReduceFns
    <2>3. call.P.op \in Ops /\ call.P.op # "Unset"
      BY <2>1, CallOps
    <2> HIDE DEF fn
    <2> QED  BY <2>1, <2>2, <2>3, LinearReduceShape
  <1>2. CASE PostfixOperatorParselet_reducePostfixOperator
    <2> DEFINE fn == "PostfixOperatorParselet_reducePostfixOperator"
    <2>1. Reduce(fn, "Postfix", call.P.op)
      BY <1>2 DEF PostfixOperatorParselet_reducePostfixOperator
    <2>2. fn \in PostfixedFns /\ fn \in ReduceFns
      BY DEF PostfixedFns, ReduceFns
    <2> HIDE DEF fn
    <2> QED  BY <2>1, <2>2, CallOps, LinearReduceShape
  <1>3. CASE InfixOperatorParselet_reduceInfixOperator
    <2> DEFINE fn == "InfixOperatorParselet_reduceInfixOperator"
    <2>1. Reduce(fn, "Infix", call.P.op)
      BY <1>3 DEF InfixOperatorParselet_reduceInfixOperator
    <2>2. fn \in ChainFns /\ fn \in ReduceFns
      BY DEF ChainFns, ReduceFns
    <2> HIDE DEF fn
    <2> QED  BY <2>1, <2>2, CallOps, LinearReduceShape
  <1>4. CASE TimesParselet_reduceTimes
    <2> DEFINE fn == "TimesParselet_reduceTimes"
    <2>1. Reduce(fn, "Infix", "Times")
      BY <1>4 DEF TimesParselet_reduceTimes
    <2>2. fn \in ChainFns /\ fn \in ReduceFns
      BY DEF ChainFns, ReduceFns
    <2> HIDE DEF fn
    <2> QED  BY <2>1, <2>2, NamedOps, LinearReduceShape
  <1>5. CASE SemiParselet_reduceCompoundExpression
    <2> DEFINE fn == "SemiParselet_reduceCompoundExpression"
    <2>1. Reduce(fn, "Infix", "CompoundExpression")
      BY <1>5 DEF SemiParselet_reduceCompoundExpression
    <2>2. fn \in ChainFns /\ fn \in ReduceFns
      BY DEF ChainFns, ReduceFns
    <2> HIDE DEF fn
    <2> QED  BY <2>1, <2>2, NamedOps, LinearReduceShape
  <1> QED  BY <1>1, <1>2, <1>3, <1>4, <1>5

\* The operators in parts that have two operands or three.
LEMMA PartReducesShape ==
  ASSUME Inv, Inv', Fitting, Shaped,
         \/ ColonParselet_reduce \/ SlashColonParselet_reduceError
         \/ ColonEqualParselet_reduce \/ SemiSemiParselet_reduce
         \/ ColonColonParselet_reduceMessageName \/ GreaterGreaterParselet_reducePut
         \/ GreaterGreaterGreaterParselet_reducePutAppend
         \/ Reduce("EqualParselet_reduceSet", "Binary", "Set")
         \/ Reduce("EqualParselet_reduceTagSet", "Ternary", "TagSet")
  PROVE  Shaped'
  <1> DEFINE Binaries == {"Pattern", "Optional", "SetDelayed", "Span", "Put", "PutAppend",
                          "Set"}
             BinaryFns ==
               {"ColonParselet_reducePattern", "ColonParselet_reduceOptional",
                "ColonEqualParselet_reduceSetDelayed", "SemiSemiParselet_reduceBinary",
                "GreaterGreaterParselet_reducePut",
                "GreaterGreaterGreaterParselet_reducePutAppend", "EqualParselet_reduceSet"}
             ErrorFns == {"ColonParselet_reduceError", "SlashColonParselet_reduceError"}
             TernaryFns ==
               {"ColonEqualParselet_reduceTagSetDelayed", "SemiSemiParselet_reduceTernary",
                "EqualParselet_reduceTagSet"}
  <1>1. \/ \E fn \in BinaryFns, op \in Binaries : Reduce(fn, "Binary", op)
        \/ \E fn \in ErrorFns, op \in {"ExpectedSymbol", "ExpectedSet"} :
             Reduce(fn, "SyntaxError", op)
        \/ \E fn \in TernaryFns, op \in {"TagSetDelayed", "Span", "TagSet"} :
             Reduce(fn, "Ternary", op)
        \/ Reduce("ColonColonParselet_reduceMessageName", "Infix", "MessageName")
    BY DEF ColonParselet_reduce, SlashColonParselet_reduceError, ColonEqualParselet_reduce,
           SemiSemiParselet_reduce, ColonColonParselet_reduceMessageName,
           GreaterGreaterParselet_reducePut, GreaterGreaterGreaterParselet_reducePutAppend
  <1>2. CASE \E fn \in BinaryFns, op \in Binaries : Reduce(fn, "Binary", op)
    <2>1. PICK fn \in BinaryFns, op \in Binaries : Reduce(fn, "Binary", op)
      BY <1>2
    <2>2. fn \in TripleFns /\ fn \in ReduceFns
      BY DEF TripleFns, ReduceFns
    <2>3. op \in Ops /\ op # "Unset"
      BY NamedOps
    <2> HIDE DEF BinaryFns, Binaries
    <2> QED  BY <2>1, <2>2, <2>3, LinearReduceShape
  <1>3. CASE \E fn \in ErrorFns, op \in {"ExpectedSymbol", "ExpectedSet"} :
               Reduce(fn, "SyntaxError", op)
    <2>1. PICK fn \in ErrorFns, op \in {"ExpectedSymbol", "ExpectedSet"} :
            Reduce(fn, "SyntaxError", op)
      BY <1>3
    <2>2. fn \in TripleFns /\ fn \in ReduceFns
      BY DEF TripleFns, ReduceFns
    <2>3. op \in Ops
      BY NamedOps
    <2> HIDE DEF ErrorFns
    <2> QED  BY <2>1, <2>2, <2>3, LinearReduceShape
  <1>4. CASE \E fn \in TernaryFns, op \in {"TagSetDelayed", "Span", "TagSet"} :
               Reduce(fn, "Ternary", op)
    <2>1. PICK fn \in TernaryFns, op \in {"TagSetDelayed", "Span", "TagSet"} :
            Reduce(fn, "Ternary", op)
      BY <1>4
    <2>2. fn \in QuintFns /\ fn \in ReduceFns
      BY DEF QuintFns, ReduceFns
    <2>3. op \in Ops /\ op # "TagUnset"
      BY NamedOps
    <2> HIDE DEF TernaryFns
    <2> QED  BY <2>1, <2>2, <2>3, LinearReduceShape
  <1>5. CASE Reduce("ColonColonParselet_reduceMessageName", "Infix", "MessageName")
    <2> DEFINE fn == "ColonColonParselet_reduceMessageName"
    <2>1. fn \in ChainFns /\ fn \in ReduceFns
      BY DEF ChainFns, ReduceFns
    <2>2. Reduce(fn, "Infix", "MessageName")
      BY <1>5
    <2> HIDE DEF fn
    <2> QED  BY <2>1, <2>2, NamedOps, LinearReduceShape
  <1> QED  BY <1>1, <1>2, <1>3, <1>4, <1>5

\* The reductions of =, =. and their tagged forms.
LEMMA EqualReduceShape ==
  ASSUME Inv, Inv', Fitting, Shaped, EqualParselet_reduce
  PROVE  Shaped'
  <1>1. CASE Reduce("EqualParselet_reduceSet", "Binary", "Set")
               \/ Reduce("EqualParselet_reduceTagSet", "Ternary", "TagSet")
    BY <1>1, PartReducesShape
  <1>2. CASE Reduce("EqualParselet_reduceUnset", "Binary", "Unset")
    <2> DEFINE fn == "EqualParselet_reduceUnset"
    <2>1. fn \in (ReduceFns \ GroupFns) \ {InnerReduce}
      BY DEF ReduceFns, GroupFns, InnerReduce
    <2>2. Makes(fn, "Binary", "Unset")
      BY PrefixedMakes
    <2>3. Reduce(fn, "Binary", "Unset")
      BY <1>2
    <2> HIDE DEF fn
    <2> QED  BY <2>1, <2>2, <2>3, NamedOps, NodeKindsAre, PlainReduceShape
  <1>3. CASE Reduce("EqualParselet_reduceTagUnset", "Ternary", "TagUnset")
    <2> DEFINE fn == "EqualParselet_reduceTagUnset"
    <2>1. fn \in (ReduceFns \ GroupFns) \ {InnerReduce}
      BY DEF ReduceFns, GroupFns, InnerReduce
    <2>2. Makes(fn, "Ternary", "TagUnset")
      BY PrefixedMakes
    <2>3. Reduce(fn, "Ternary", "TagUnset")
      BY <1>3
    <2> HIDE DEF fn
    <2> QED  BY <2>1, <2>2, <2>3, NamedOps, NodeKindsAre, PlainReduceShape
  <1> QED  BY <1>1, <1>2, <1>3 DEF EqualParselet_reduce

\* The operators with their operand behind them.
LEMMA PrefixReducesShape ==
  ASSUME Inv, Inv', Fitting, Shaped,
         PrefixOperatorParselet_reducePrefixOperator \/ IntegralParselet_reduce
           \/ LessLessParselet_reduceGet
  PROVE  Shaped'
  <1> DEFINE R == {"PrefixOperatorParselet_reducePrefixOperator",
                   "IntegralParselet_reduceIntegral", "LessLessParselet_reduceGet"}
             O == {call.P.op, call.P.op2, "Get"}
  <1>1. O \subseteq Ops
    BY CallOps, NamedOps
  <1> HIDE DEF O
  <1>2. \/ \E fn \in R, op \in O : Reduce(fn, "Prefix", op)
        \/ Reduce("IntegralParselet_reduceIntegrate", "PrefixBinary", call.P.op)
    BY DEF PrefixOperatorParselet_reducePrefixOperator, IntegralParselet_reduce,
           LessLessParselet_reduceGet, O
  <1>3. CASE \E fn \in R, op \in O : Reduce(fn, "Prefix", op)
    <2>1. PICK fn \in R, op \in O : Reduce(fn, "Prefix", op)
      BY <1>3
    <2>2. fn \in PrefixedFns /\ fn \in (ReduceFns \ GroupFns) \ {InnerReduce}
      BY DEF PrefixedFns, ReduceFns, GroupFns, InnerReduce
    <2> HIDE DEF R
    <2>3. Makes(fn, "Prefix", op)
      BY <2>2, PrefixedMakes
    <2> QED  BY <1>1, <2>1, <2>2, <2>3, NodeKindsAre, PlainReduceShape
  <1>4. CASE Reduce("IntegralParselet_reduceIntegrate", "PrefixBinary", call.P.op)
    <2> DEFINE fn == "IntegralParselet_reduceIntegrate"
    <2>1. fn \in (ReduceFns \ GroupFns) \ {InnerReduce}
      BY DEF ReduceFns, GroupFns, InnerReduce
    <2>2. Makes(fn, "PrefixBinary", call.P.op)
      BY PrefixedMakes
    <2>3. Reduce(fn, "PrefixBinary", call.P.op)
      BY <1>4
    <2> HIDE DEF fn
    <2> QED  BY <2>1, <2>2, <2>3, CallOps, NodeKindsAre, PlainReduceShape
  <1> QED  BY <1>2, <1>3, <1>4

\* The reductions of two-token operands.
LEMMA CompoundReducesShape ==
  ASSUME Inv, Inv', Fitting, Shaped,
         \/ SymbolParselet_reduce \/ UnderParselet_reduceBlank
         \/ HashParselet_reduceSlot \/ HashHashParselet_reduceSlotSequence
         \/ PercentParselet_reduceOut
  PROVE  Shaped'
  <1> DEFINE R == {"SymbolParselet_reducePatternBlank",
                   "SymbolParselet_reducePatternOptionalDefault",
                   "UnderParselet_reduceBlank", "HashParselet_reduceSlot",
                   "HashHashParselet_reduceSlotSequence", "PercentParselet_reduceOut"}
             O == {call.P.op, call.P.op2, "PatternOptionalDefault", "Slot", "SlotSequence",
                   "Out"}
  <1>1. O \subseteq Ops
    BY CallOps, NamedOps
  <1>2. \E fn \in R, op \in O : Reduce(fn, "Compound", op)
    BY DEF SymbolParselet_reduce, UnderParselet_reduceBlank, HashParselet_reduceSlot,
           HashHashParselet_reduceSlotSequence, PercentParselet_reduceOut
  <1> HIDE DEF O
  <1>3. PICK fn \in R, op \in O : Reduce(fn, "Compound", op)
    BY <1>2
  <1>4. fn \in CompoundFns /\ fn \in (ReduceFns \ GroupFns) \ {InnerReduce}
    BY DEF CompoundFns, ReduceFns, GroupFns, InnerReduce
  <1> HIDE DEF R
  <1>5. Makes(fn, "Compound", op)
    BY <1>4, CompoundMakes
  <1> QED  BY <1>1, <1>3, <1>4, <1>5, NodeKindsAre, PlainReduceShape

\* CallParselet_reduceCall.
LEMMA CallReduceShape ==
  ASSUME Inv, Inv', Fitting, Shaped, CallParselet_reduceCall
  PROVE  Shaped'
  <1> DEFINE fn == "CallParselet_reduceCall"
  <1>1. fn \in (ReduceFns \ GroupFns) \ {InnerReduce}
    BY DEF ReduceFns, GroupFns, InnerReduce
  <1>2. Makes(fn, "Call", "Call")
    BY CompoundMakes
  <1>3. Reduce(fn, "Call", "Call")
    BY DEF CallParselet_reduceCall
  <1> HIDE DEF fn
  <1> QED  BY <1>1, <1>2, <1>3, NamedOps, NodeKindsAre, PlainReduceShape

\* The reductions after which no operator is looked for, and that of a blank
\* with a name.
LEMMA OtherReducesShape ==
  ASSUME Inv, Inv', Fitting, Shaped,
         CommaParselet_reduceComma \/ TildeParselet_reduce
           \/ UnderParselet_reduceBlankContextSensitive
  PROVE  Shaped'
  <1>1. CompleteFns = {"Parser_parseClimb", "Parser_tryContinue", "return"}
    BY DEF CompleteFns
  <1>2. CASE CommaParselet_reduceComma
    <2> DEFINE fn   == "CommaParselet_reduceComma"
               next == "Parser_tryContinue"
    <2>1. ReduceContext(fn, "Infix", "Comma", next)
      BY <1>2 DEF CommaParselet_reduceComma
    <2>2. fn \in ChainFns /\ fn \in WorkingFns /\ fn \notin GroupFns
      BY DEF ChainFns, WorkingFns, RunningFns, ReduceFns, GroupFns, InnerReduce
    <2>3. next \in CompleteFns
      BY <1>1
    <2> HIDE DEF fn, next
    <2>4. Makes(fn, "Infix", "Comma")
      BY <2>2, LinearMakes DEF LinearFns
    <2> QED  BY <2>1, <2>2, <2>3, <2>4, NamedOps, NodeKindsAre, ReduceShape
  <1>3. CASE TildeParselet_reduce
    <2>1. CASE ReduceContext("TildeParselet_reduceTilde", "Ternary", "TernaryTilde",
                             "Parser_parseClimb")
      <3> DEFINE fn   == "TildeParselet_reduceTilde"
                 next == "Parser_parseClimb"
      <3>1. ReduceContext(fn, "Ternary", "TernaryTilde", next)
        BY <2>1
      <3>2. fn \in QuintFns /\ fn \in WorkingFns /\ fn \notin GroupFns
        BY DEF QuintFns, WorkingFns, RunningFns, ReduceFns, GroupFns, InnerReduce
      <3>3. next \in CompleteFns
        BY <1>1
      <3> HIDE DEF fn, next
      <3>4. Makes(fn, "Ternary", "TernaryTilde")
        BY <3>2, LinearMakes DEF LinearFns
      <3> QED  BY <3>1, <3>2, <3>3, <3>4, NamedOps, NodeKindsAre, ReduceShape
    <2>2. CASE ReduceContext("TildeParselet_reduceError", "SyntaxError", "ExpectedTilde",
                             "Parser_tryContinue")
      <3> DEFINE fn   == "TildeParselet_reduceError"
                 next == "Parser_tryContinue"
      <3>1. ReduceContext(fn, "SyntaxError", "ExpectedTilde", next)
        BY <2>2
      <3>2. fn \in TripleFns /\ fn \in WorkingFns /\ fn \notin GroupFns
        BY DEF TripleFns, WorkingFns, RunningFns, ReduceFns, GroupFns, InnerReduce
      <3>3. next \in CompleteFns
        BY <1>1
      <3> HIDE DEF fn, next
      <3>4. Makes(fn, "SyntaxError", "ExpectedTilde")
        BY <3>2, LinearMakes DEF LinearFns
      <3> QED  BY <3>1, <3>2, <3>3, <3>4, NamedOps, NodeKindsAre, ReduceShape
    <2> QED  BY <1>3, <2>1, <2>2 DEF TildeParselet_reduce
  <1>4. CASE UnderParselet_reduceBlankContextSensitive
    <2> DEFINE next == "return"
    <2>1. ReduceContext(InnerReduce, "Compound", call.P.op, next)
      BY <1>4 DEF UnderParselet_reduceBlankContextSensitive, InnerReduce
    <2>2. InnerReduce \in CompoundFns /\ InnerReduce \in WorkingFns
          /\ InnerReduce \notin GroupFns
      BY DEF CompoundFns, WorkingFns, GroupFns, InnerReduce
    <2>3. next \in CompleteFns
      BY <1>1
    <2> HIDE DEF next
    <2>4. Makes(InnerReduce, "Compound", call.P.op)
      BY <2>2, CompoundMakes
    <2> QED  BY <2>1, <2>2, <2>3, <2>4, CallOps, NodeKindsAre, ReduceShape
  <1> QED  BY <1>2, <1>3, <1>4

\* The reductions of a group.
LEMMA GroupReduceShape ==
  ASSUME Inv, Inv', Fitting, Shaped, GroupParselet_reduce
  PROVE  Shaped'
  <1>1. PICK fn \in GroupFns, kind \in GroupKinds, next \in CompleteFns :
          /\ ReduceContext(fn, kind, call.P.op, next)
          /\ IF fn = "GroupParselet_reduceGroup" THEN kind = "Group"
                                                 ELSE kind \in GroupKinds \ {"Group"}
    <2>1. {"GroupParselet_reduceGroup", "GroupParselet_reduceMissingCloser",
           "GroupParselet_reduceUnterminatedGroup"} \subseteq GroupFns
      BY DEF GroupFns
    <2>2. {"Parser_parseClimb", "Parser_tryContinue"} \subseteq CompleteFns
      BY DEF CompleteFns
    <2>3. GroupKinds = {"Group", "GroupMissingCloser", "UnterminatedGroupNeedsReparse"}
      BY DEF GroupKinds
    <2> QED  BY <2>1, <2>2, <2>3 DEF GroupParselet_reduce
  <1>2. fn \in WorkingFns
    BY LoopOfFacts, ReduceFnsRun DEF GroupFns, WorkingFns, RunningFns, LoopFns, ReduceFns,
         InnerReduce
  <1>3. kind \in NodeKinds \ {"Leaf"}
    BY NodeKindsAre DEF GroupKinds
  <1>4. Makes(fn, kind, call.P.op)
    BY <1>1, GroupMakes
  <1> QED  BY <1>1, <1>2, <1>3, <1>4, CallOps, ReduceShape

(* Every step                                                              *)

\* Nothing waits at the start.
LEMMA ShapedInit == Init => Shaped
  <1> SUFFICES ASSUME Init PROVE Shaped
    OBVIOUS
  <1>1. NodeStack = <<>> /\ ContextStack = <<>> /\ call.fn = "concreteParse"
    BY DEF Init
  <1>2. Len(NodeStack) = 0 /\ Len(ContextStack) = 0
    BY <1>1
  <1>3. WellFormed
    BY <1>2 DEF WellFormed
  <1>4. LowerFits(NodeStack, ContextStack)
    BY <1>2 DEF LowerFits
  <1>5. CallShaped(NodeStack, call)
    BY <1>1 DEF CallShaped, TokenFits, CompleteFns, ContextSensitiveFns, TagFns
  <1> QED  BY <1>1, <1>3, <1>4, <1>5 DEF Shaped

\* Every step of the parser keeps the shape.
LEMMA StepShaped ==
  ASSUME Inv, Inv', Fitting, Shaped, Step
  PROVE  Shaped'
  <1>1. CASE PrefixNext
    BY <1>1, PrefixLeavesShape, PrefixUnhandledShape, PrefixOperatorShape,
       PrefixReducesShape DEF PrefixNext
  <1>2. CASE OperatorNext
    BY <1>2, AbortsShape, BinaryShape, OperatorReducesShape, PostfixOperatorShape,
       InfixOperatorShape, InfixOperatorLoopShape, TimesShape, TimesLoopShape, CommaShape,
       CommaLoopShape, OtherReducesShape, SemiShape, SemiLoopShape DEF OperatorNext
  <1>3. CASE GroupNext
    BY <1>3, GroupPrefixShape, GroupLoopShape, AbortsShape, GroupReduceShape,
       CallInfixShape, CallReduceShape DEF GroupNext
  <1>4. CASE PatternNext
    BY <1>4, PatternPrefixShape, ReadsShape, CompoundReducesShape, OtherReducesShape,
       PrefixLeavesShape DEF PatternNext
  <1>5. CASE TernaryNext
    BY <1>5, PartOperatorsShape, TildeLoopShape, OtherReducesShape, PartReducesShape,
       SlashColonLoopShape, EqualShape, EqualReduceShape, AbortsShape, SemiSemiPrefixShape,
       PostfixOperatorShape, SpanShape, SpanEndShape, IntegralPrefixShape,
       IntegralLoopShape, PrefixReducesShape DEF TernaryNext
  <1>6. CASE StringifyNext
    BY <1>6, ColonColonShape, PartReducesShape, FileShape, LessLessPrefixShape,
       PrefixReducesShape DEF StringifyNext
  <1> QED  BY <1>1, <1>2, <1>3, <1>4, <1>5, <1>6, concreteParseShape, concreteParse_pushShape,
       Parser_parseClimbShape, Parser_parseClimb_abortShape, Parser_tryContinueShape,
       ReturnShape DEF Step

\* Every step of the session keeps it.
LEMMA NextShaped == Inv /\ Fitting /\ Shaped /\ [Next]_vars => Shaped'
  <1> SUFFICES ASSUME Inv, Fitting, Shaped, [Next]_vars PROVE Shaped'
    OBVIOUS
  <1>1. Inv'
    BY NextInv
  <1>2. CASE Step
    BY <1>1, <1>2, StepShaped
  <1>3. CASE Abort
    BY <1>3, UnchangedShape DEF Abort
  <1>4. CASE Terminated \/ UNCHANGED vars
    <2>1. UNCHANGED <<NodeStack, ContextStack, call>>
      BY <1>4 DEF Terminated, vars
    <2> QED  BY <2>1, UnchangedShape
  <1> QED  BY <1>2, <1>3, <1>4 DEF Next

\* The shape of the node stack is kept together with the invariants it rests
\* on, Inv and Fitting.
LEMMA ShapeInvariance == Spec => [](Inv /\ Fitting /\ Shaped)
  <1>1. Init => Inv /\ Fitting /\ Shaped
    BY InitInv, FittingInit, ShapedInit
  <1>2. (Inv /\ Fitting /\ Shaped) /\ [Next]_vars => (Inv /\ Fitting /\ Shaped)'
    BY NextInv, NextFits, NextShaped
  <1> QED  BY <1>1, <1>2, PTL DEF Spec

-----------------------------------------------------------------------------
(* The assertions                                                          *)

\* The last part of a context is its last node that is not trivia.
LEMMA LastPart ==
  ASSUME Parser_topContext.Index \in Nat, NEW l \in Nat, NEW parts \in Seq(Label),
         Len(parts) # 0, PartsAre(NodeStack, Parser_topContext.Index, l, parts)
  PROVE  LET j == LastNonTrivia(NodeStack, l)
         IN /\ j \in (Parser_topContext.Index + 1)..l
            /\ ~LeafIn(NodeStack[j], Trivia)
            /\ Top(parts) = LabelOf(NodeStack[j])
  <1> DEFINE b  == Parser_topContext.Index
             js == {j \in (b + 1)..l : ~LeafIn(NodeStack[j], Trivia)}
             n  == Len(parts)
  <1>1. n \in Nat \ {0} /\ n \in 1..n
    OBVIOUS
  <1>2. PICK h \in [1..n -> (b + 1)..l] :
          /\ \A r, s \in 1..n : r < s => h[r] < h[s]
          /\ \A k \in (b + 1)..l :
               ~LeafIn(NodeStack[k], Trivia) <=> \E r \in 1..n : h[r] = k
          /\ \A r \in 1..n : parts[r] = LabelOf(NodeStack[h[r]])
    BY DEF PartsAre
  <1>3. h[n] \in (b + 1)..l /\ ~LeafIn(NodeStack[h[n]], Trivia)
    BY <1>1, <1>2
  <1>4. h[n] \in js
    BY <1>3
  <1>5. ASSUME NEW k \in js PROVE k <= h[n]
    <2>1. PICK r \in 1..n : h[r] = k
      BY <1>2
    <2>2. r = n \/ r < n
      BY <1>1
    <2>3. h[r] \in Int /\ h[n] \in Int
      BY <1>1, <1>2
    <2> QED  BY <1>1, <1>2, <2>1, <2>2, <2>3
  <1>6. js # {}
    BY <1>4
  <1> DEFINE best == CHOOSE j \in js : \A k \in js : k <= j
  <1>7. best \in js /\ \A k \in js : k <= best
    BY <1>4, <1>5
  <1>8. best = h[n]
    BY <1>3, <1>4, <1>5, <1>7
  <1>9. LastNonTrivia(NodeStack, l) = best
    BY <1>6 DEF LastNonTrivia
  <1>10. Top(parts) = LabelOf(NodeStack[h[n]])
    BY <1>1, <1>2 DEF Top
  <1> HIDE DEF best
  <1> QED  BY <1>3, <1>8, <1>9, <1>10

\* What a colon has to its left is an operand.
LEMMA ColonHasLeft ==
  ASSUME Inv, Fitting, Shaped, Calling("parseInfix")
  PROVE  Parser_checkColonLHS # "COLONLHS_NONE"
  <1> DEFINE b == Parser_topContext.Index
             i == LastNonTrivia(NodeStack, Len(NodeStack))
             N == NodeStack[i]
  <1>1. call.fn = "parseInfix" /\ call.fn \in WorkingFns
    BY DEF Calling, WorkingFns, RunningFns
  <1>2. /\ NodeStack \in Seq(Node) /\ Len(NodeStack) \in Nat /\ b \in Nat
        /\ \E parts \in Seq(Label) :
             PartsAre(NodeStack, b, Len(NodeStack), parts) /\ Form("parseInfix", parts)
    BY <1>1, WorkingParts
  <1>3. PICK parts \in Seq(Label) :
          PartsAre(NodeStack, b, Len(NodeStack), parts) /\ Form("parseInfix", parts)
    BY <1>2
  <1>4. Len(parts) = 1 /\ IsOperand(Top(parts))
    <2> DEFINE fn == "parseInfix"
    <2>1. fn \in LinearFns /\ Lengths(fn) = {1}
      BY LengthOf DEF LinearFns
    <2>2. Form(fn, parts)
      BY <1>3
    <2> HIDE DEF fn
    <2>3. Len(parts) = 1 /\ Alternates(parts)
      BY <2>1, <2>2, LinearForm
    <2> QED  BY <2>3, OddFacts DEF Alternates, OperandsAt, Top
  <1>5. /\ i \in (b + 1)..Len(NodeStack) /\ Top(parts) = LabelOf(N)
    <2> DEFINE l == Len(NodeStack)
    <2>1. l \in Nat /\ PartsAre(NodeStack, b, l, parts) /\ Len(parts) # 0 /\ b \in Nat
      BY <1>2, <1>3, <1>4
    <2> HIDE DEF l
    <2>2. LET j == LastNonTrivia(NodeStack, l)
          IN j \in (b + 1)..l /\ Top(parts) = LabelOf(NodeStack[j])
      BY <2>1, LastPart
    <2> QED  BY <2>2 DEF l
  <1> HIDE DEF i
  <1>6. i # b
    BY <1>2, <1>5
  <1>7. N.kind # "Leaf" \/ N.op \in OperandTokens
    BY <1>4, <1>5 DEF IsOperand, LabelOf
  <1>8. ~LeafIn(N, {"COLON"})
    <2>1. "COLON" \notin OperandTokens
      BY DEF OperandTokens, Unders, Errors, TokenizerErrors, ParserErrors, Fakes
    <2> QED  BY <1>7, <2>1 DEF LeafIn
  <1>9. Unders \intersect Errors = {} /\ "SYMBOL" \notin Unders \union Errors
    BY DEF Unders, Errors, TokenizerErrors, ParserErrors
  <1> HIDE DEF N, b
  <1> DEFINE P == N.kind = "Binary" /\ N.op = "Pattern"
             C == N.kind = "Compound" /\ N.op \in PatternBlankOps
             S == LeafIn(N, {"SYMBOL"})
             U == LeafIn(N, Unders)
             E == LeafIn(N, Errors)
             L == LeafIn(N, {"COLON"})
  <1>10. Parser_checkColonLHS =
           CASE i = b -> "COLONLHS_NONE"
             [] P -> "COLONLHS_OPTIONAL"
             [] C -> "COLONLHS_OPTIONAL"
             [] S -> "COLONLHS_PATTERN"
             [] U -> "COLONLHS_OPTIONAL"
             [] L -> "COLONLHS_NONE"
             [] E -> "COLONLHS_PATTERN"
             [] OTHER -> "COLONLHS_ERROR"
    BY DEF Parser_checkColonLHS, i, b, N
  <1>11. ~(P /\ C) /\ ~(P /\ (S \/ U \/ E)) /\ ~(C /\ (S \/ U \/ E))
    BY DEF LeafIn
  <1>12. ~(S /\ U) /\ ~(S /\ E) /\ ~(U /\ E)
    BY <1>9 DEF LeafIn
  <1> HIDE DEF P, C, S, U, E
  <1> QED  BY <1>6, <1>8, <1>10, <1>11, <1>12

\* What a tilde has to its left is not all that its context has.
LEMMA TildeHasLeft ==
  ASSUME Inv, Fitting, Shaped, Calling("Parser_parseClimb"), ContextStack # <<>>
  PROVE  NodeBeforeOperand(NodeStack) # Parser_topContext.Index
  <1> DEFINE b == Parser_topContext.Index
             l == Len(NodeStack) - 1
  <1>1. b \in Nat /\ b < Len(NodeStack) /\ Len(NodeStack) \in Nat
    BY FittingParts
  <1>2. Waiting(NodeStack, Parser_topContext, l)
    <2>1. TopWaits(NodeStack, Parser_topContext, call.fn)
      BY DEF Shaped, TopShaped
    <2>2. call.fn \in CompleteFns
      BY DEF Calling, CompleteFns
    <2> QED  BY <2>1, <2>2 DEF TopWaits
  <1>3. PICK parts \in Seq(Label) :
          /\ PartsAre(NodeStack, b, l, parts)
          /\ Awaits(WaitingFn(NodeStack, Parser_topContext), parts)
    BY <1>2 DEF Waiting
  <1>4. Len(parts) # 0
    BY <1>3 DEF Awaits
  <1>5. l \in Nat
    BY <1>1
  <1> HIDE DEF l
  <1>6. LastNonTrivia(NodeStack, l) \in (b + 1)..l
    BY <1>1, <1>3, <1>4, <1>5, LastPart
  <1>7. LastNonTrivia(NodeStack, l) # b
    BY <1>1, <1>5, <1>6
  <1> QED  BY <1>7 DEF NodeBeforeOperand, l

\* Where the parser says assert(false), the shape says it does not come.
LEMMA ShapedAsserts == Inv /\ Fitting /\ Shaped => AssertsHold
  <1> SUFFICES ASSUME Inv, Fitting, Shaped PROVE AssertsHold
    OBVIOUS
  <1>1. ASSUME Calling("parseInfix")
        PROVE  /\ call.P.class \notin NeverParsesInfix
               /\ Parser_checkColonLHS # "COLONLHS_NONE"
    BY <1>1, InfixToken, ColonHasLeft
  <1>2. ASSUME Calling("parsePrefix")
        PROVE  /\ call.P.class = "PrefixError" => call.tok.op \in Errors
               /\ call.P.class = "PrefixUnhandled" =>
                    /\ call.tok.op \notin PossibleBeginning
                    /\ infixParselets[call.tok.op].class # "InfixImplicitTimes"
               /\ call.P.class \in {"PrefixCloser", "PrefixToplevelCloser"} =>
                    call.tok.op \in CloserTokens
    BY <1>2, PrefixToken
  <1>3. ASSUME Calling("Parser_parseClimb")
        PROVE  ClimbParselet.class # "InfixImplicitTimes"
    <2> DEFINE q == TriviaButNotToplevelNewlinesEnd(buffer)
               t == ClimbAt(q)
    <2>1. buffer \in 0..Len(input) /\ NodeStack \in Seq(Node)
      BY StackTypes
    <2>2. q \in 0..Len(input)
      BY <2>1, TakesTrivia
    <2>3. Tokenizer_currentToken(q).op \in Tokens \ TriviaButNotToplevelNewline
      BY <2>1, EndOfTrivia
    <2>4. ClimbParselet = infixParselets[t.op]
      BY DEF ClimbParselet, ClimbAt
    <2> HIDE DEF q
    <2>5. infixParselets[t.op].class # "InfixImplicitTimes"
      BY <2>2, <2>3, ClimbFinds
    <2> QED  BY <2>4, <2>5
  <1>4. ASSUME Calling("Parser_parseClimb"), ContextStack # <<>>
        PROVE  NodeBeforeOperand(NodeStack) # Parser_topContext.Index
    BY <1>4, TildeHasLeft
  <1> QED  BY <1>1, <1>2, <1>3, <1>4 DEF AssertsHold

\* Every node on the stack has the children of its kind (Node.h): one operand
\* and its operator for a prefix or postfix node, operands with operators
\* between them for a binary, ternary or infix one, the opener, the contents
\* and the closer for a group, whatever the tokens are and however the parse
\* was interrupted.
THEOREM NodesWellFormed == Spec => []WellFormed
  <1>1. Shaped => WellFormed
    BY DEF Shaped
  <1> QED  BY <1>1, ShapeInvariance, PTL

\* No assert(false) of Parselet.cpp and Parser.cpp is reached: no infix
\* parselet is called that has no infix meaning, a colon and a tilde have an
\* operand to their left, and the parselets for errors, closers and unhandled
\* tokens are called for those tokens only.
THEOREM AssertionsHold == Spec => []AssertsHold
  <1> QED  BY ShapedAsserts, ShapeInvariance, PTL

=============================================================================
