-------------------------- MODULE ParserProperties --------------------------
(***************************************************************************)
(* What the parser promises: the properties of ParserSession's behaviours. *)
(***************************************************************************)
EXTENDS ParserSession, FiniteSets

\* Every variable has its type; a call carries the parselet of its class.
TypeOK ==
  /\ input \in Seq(SourceTokens)
  /\ buffer \in 0..Len(input)
  /\ NodeStack \in Seq(Node)
  /\ ContextStack \in Seq(Context)
  /\ GroupStack \in Seq(AnyCloser)
  /\ call \in Call
  /\ frames \in Seq(Frame)
  /\ exprs \in Seq(Node)
  /\ aborted \in BOOLEAN

-----------------------------------------------------------------------------
(* The three stacks                                                        *)

\* Parser_isQuiescent: whenever concreteParse is at the head of its loop,
\* after an abort too, everything the last expression put on a stack is gone.
Quiescent ==
  Calling("concreteParse") =>
    NodeStack = <<>> /\ ContextStack = <<>> /\ GroupStack = <<>> /\ frames = <<>>

\* The contexts split the node stack into the operands of the operators that
\* wait: each starts at a node that exists, and after the one below it.
ContextsNest ==
  \A i \in 1..Len(ContextStack) :
    /\ ContextStack[i].Index < Len(NodeStack)
    /\ \A j \in 1..(i - 1) : ContextStack[j].Index < ContextStack[i].Index

OpenerOf(ctxt) == NodeStack[ctxt.Index + 1]

StartsGroup(ctxt) == LeafIn(OpenerOf(ctxt), Openers)

\* The contexts of the open groups.
GroupPlaces == {i \in 1..Len(ContextStack) : StartsGroup(ContextStack[i])}

\* The place that i has among those of S, from 1 on.
Rank(S, i) == Cardinality({j \in S : j <= i})

\* GroupStack, which decides whose a closer is, is popped apart from the
\* contexts, by four functions: it always has the closers of the groups whose
\* contexts are open, in that order.
GroupsMatchContexts ==
  /\ Len(GroupStack) = Cardinality(GroupPlaces)
  /\ \A i \in GroupPlaces :
       GroupStack[Rank(GroupPlaces, i)] =
         GroupOpenerToCloser(OpenerOf(ContextStack[i]).op)

IsLoop(frame) == frame.fn \in LoopFns

IsIdentity(ctxt) == ctxt.F = "Parser_identity"

\* The loop that a function belongs to.
LoopOf(fn) ==
  CASE fn \in LoopFns -> fn
    [] fn = "InfixOperatorParselet_reduceInfixOperator" -> "InfixOperatorParselet_parseLoop"
    [] fn = "TimesParselet_reduceTimes" -> "TimesParselet_parseLoop"
    [] fn = "CommaParselet_reduceComma" -> "CommaParselet_parseLoop"
    [] fn = "SemiParselet_reduceCompoundExpression" -> "SemiParselet_parseLoop"
    [] fn \in {"GroupParselet_reduceGroup", "GroupParselet_reduceMissingCloser",
               "GroupParselet_reduceUnterminatedGroup"} -> "GroupParselet_parseLoop"
    [] OTHER -> "NULL"

\* The contexts whose F says no more than to return.
IdentityPlaces == {i \in 1..Len(ContextStack) : IsIdentity(ContextStack[i])}

\* The loops on the C++ stack that called an operand ...
LoopPlaces == {j \in 1..Len(frames) : IsLoop(frames[j])}

\* ... and the one that is running, when there is one.
LoopRuns == LoopOf(call.fn) # "NULL" /\ IsIdentity(Parser_topContext)

RunningLoop == [fn |-> LoopOf(call.fn), P |-> call.P]

\* The loop that the native returns lead to when context i is on top.
LoopFor(i) ==
  LET rank == Rank(IdentityPlaces, i)
  IN IF \E j \in LoopPlaces : Rank(LoopPlaces, j) = rank
     THEN frames[CHOOSE j \in LoopPlaces : Rank(LoopPlaces, j) = rank]
     ELSE RunningLoop

\* The first operator among the nodes of a context.
FirstOperator(ctxt) ==
  LET i == CHOOSE i \in (ctxt.Index + 2)..Len(NodeStack) :
             /\ ~LeafIn(NodeStack[i], Trivia)
             /\ \A j \in (ctxt.Index + 2)..(i - 1) : LeafIn(NodeStack[j], Trivia)
  IN NodeStack[i].op

\* The context is one that the loop opened, for the parselet it has.
Owns(loop, ctxt) ==
  CASE loop.fn = "GroupParselet_parseLoop" ->
         /\ StartsGroup(ctxt)
         /\ GroupOpenerToCloser(OpenerOf(ctxt).op) = loop.P.closer
    [] loop.fn = "InfixOperatorParselet_parseLoop" ->
         getOp(infixParselets[FirstOperator(ctxt)]) = loop.P.op
    [] loop.fn = "CommaParselet_parseLoop" -> FirstOperator(ctxt) \in Commas
    [] loop.fn = "SemiParselet_parseLoop"  -> FirstOperator(ctxt) = "SEMI"
    [] OTHER -> FirstOperator(ctxt) \in {"STAR", "FAKE_IMPLICITTIMES"}

\* A context whose F is Parser_identity returns into whatever called last.
\* So the contexts with that F and the loops on the C++ stack must be the same
\* ones in the same order, or a loop would resume in another's context.
IdentityReturnsToOwner ==
  /\ Cardinality(IdentityPlaces) = Cardinality(LoopPlaces) + (IF LoopRuns THEN 1 ELSE 0)
  /\ \A i \in IdentityPlaces : Owns(LoopFor(i), ContextStack[i])

-----------------------------------------------------------------------------
(* Assertions of the code                                                  *)

\* assert(F) in Parser_tryContinue: who waits for an operand can go on with it.
ContinuationGiven ==
  Calling("Parser_tryContinue") /\ ContextStack # <<>> =>
    Parser_topContext.F # "NULL"

\* That one, and the assertions on Ctxt.F and Ctxt.P with which each parselet
\* expects the context as the one before it left it.
ContinuationAsserts ==
  /\ ContinuationGiven
  /\ call.fn \in {"parseInfix", "SemiSemiParselet_parse1"} =>
       Parser_topContext.F = "NULL" /\ Parser_topContext.P = NoParselet
  /\ call.fn \in LoopFns =>
       \/ IsIdentity(Parser_topContext)
       \/ Parser_topContext.F = call.fn /\ Parser_topContext.P = call.P
  /\ call.fn \in {"TildeParselet_parse1", "SlashColonParselet_parse1",
                  "SemiSemiParselet_parse2"} => Parser_topContext.F = call.fn
  /\ call.fn \in {"EqualParselet_parseInfixTag", "ColonEqualParselet_parseInfixTag"} =>
       Parser_topContext.F = "SlashColonParselet_parse1"

\* The infix parselet parseClimb finds next.
ClimbParselet ==
  LET peek == Tokenizer_currentToken(TriviaButNotToplevelNewlinesEnd(buffer))
  IN infixParselets[processImplicitTimes(infixParselets[peek.op], peek).op]

NeverParsesInfix == {"InfixAssertFalse", "InfixToplevelNewline",
                     "InfixImplicitTimes", "InfixDifferentialD"}

\* The assert(false)s: no infix parselet is called that has no infix meaning,
\* a colon and a tilde have an operand to their left, and a prefix parselet is
\* called for the tokens it expects.
AssertsHold ==
  /\ Calling("parseInfix") =>
       /\ call.P.class \notin NeverParsesInfix
       /\ call.P.class = "Colon" => Parser_checkColonLHS # "COLONLHS_NONE"
  /\ Calling("parsePrefix") =>
       /\ call.P.class = "PrefixError" => call.tok.op \in Errors
       /\ call.P.class = "PrefixUnhandled" =>
            /\ call.tok.op \notin PossibleBeginning
            /\ infixParselets[call.tok.op].class # "InfixImplicitTimes"
       /\ call.P.class \in {"PrefixCloser", "PrefixToplevelCloser"} =>
            call.tok.op \in CloserTokens
  /\ Calling("Parser_parseClimb") =>
       /\ ClimbParselet.class # "InfixImplicitTimes"
       /\ ClimbParselet.class = "Tilde" /\ ContextStack # <<>> =>
            NodeBeforeOperand(NodeStack) # Parser_topContext.Index

-----------------------------------------------------------------------------
(* The concrete syntax                                                     *)

\* The nodes lie end to end from the start of the source up to place n.
Tile(nodes, n) ==
  IF nodes = <<>> THEN n = 0
  ELSE /\ nodes[1].lo = 0
       /\ Top(nodes).hi = n
       /\ \A i \in 1..(Len(nodes) - 1) : nodes[i].hi = nodes[i + 1].lo

\* No token of the source is lost, duplicated or moved, whatever was peeked at
\* and given back: what has been parsed and what is on the node stack tile the
\* source up to the read position, and at the end all of it.
Lossless ==
  ~aborted => /\ Tile(exprs \o NodeStack, buffer)
              /\ Calling("done") => buffer = Len(input)

IsOperand(label) == label[1] # "Leaf" \/ label[2] \in OperandTokens

NotTrivia(label) == ~(label[1] = "Leaf" /\ label[2] \in Trivia)

PartPlaces(N) == {k \in 1..Len(N.kids) : NotTrivia(N.kids[k])}

\* The children that are not trivia.
Parts(N) ==
  [r \in 1..Cardinality(PartPlaces(N)) |->
     N.kids[CHOOSE k \in PartPlaces(N) : Rank(PartPlaces(N), k) = r]]

\* Operands at the places in where, and operator leaves at the others.
OperandsAt(parts, where) ==
  \A i \in 1..Len(parts) : IsOperand(parts[i]) <=> i \in where

GroupKinds == {"Group", "GroupMissingCloser", "UnterminatedGroupNeedsReparse"}

\* The children that each kind of node has, as Node.h describes them.
WellFormedNode(N) ==
  LET parts == Parts(N)
      n     == Len(parts)
  IN CASE N.kind \in {"Leaf", "Abort"} -> TRUE
       [] N.kind = "Prefix"  -> n = 2 /\ OperandsAt(parts, {2})
       [] N.kind = "Postfix" -> n = 2 /\ OperandsAt(parts, {1})
       [] N.kind = "PrefixBinary" -> n = 3 /\ OperandsAt(parts, {2, 3})
       [] N.kind = "Binary" -> n = 3 /\ OperandsAt(parts, IF N.op = "Unset" THEN {1} ELSE {1, 3})
       [] N.kind = "SyntaxError" -> n = 3 /\ OperandsAt(parts, {1, 3})
       [] N.kind = "Ternary" -> n = 5 /\ OperandsAt(parts, IF N.op = "TagUnset" THEN {1, 3} ELSE {1, 3, 5})
       [] N.kind = "Infix" -> n >= 3 /\ OperandsAt(parts, {i \in 1..n : i % 2 = 1}) /\ n % 2 = 1
       [] N.kind = "Compound" -> n = 2 /\ parts[1][1] = "Leaf"
       [] N.kind = "Call" -> n = 2 /\ IsOperand(parts[1]) /\ parts[2][1] \in GroupKinds \union {"Abort"}
       [] N.kind \in GroupKinds ->
            /\ parts[1][1] = "Leaf" /\ parts[1][2] \in Openers
            /\ \A i \in 2..n : IsOperand(parts[i]) \/ (N.kind = "Group" /\ i = n)
            /\ N.kind = "Group" =>
                 /\ parts[n][1] = "Leaf"
                 /\ TokenToCloser(parts[n][2]) = GroupOpenerToCloser(parts[1][2])

\* However a token sequence goes wrong, and wherever an abort comes, every node
\* is one the rest of the system can take apart by its kind.
WellFormed == \A i \in 1..Len(NodeStack) : WellFormedNode(NodeStack[i])

-----------------------------------------------------------------------------
(* Precedence                                                              *)

\* The levels at which the parselets of a class make nodes with this operator.
LevelsOfClass(table, class, op) ==
  {table[t].prec : t \in {u \in LeafKinds : table[u].class = class /\ table[u].op = op}}

\* The binding levels of the operators that make nodes with each label.
LevelTable ==
  [label \in {"Prefix", "Postfix", "Binary", "Infix"} \X Ops |->
     CASE label[1] = "Prefix"  -> LevelsOfClass(prefixParselets, "PrefixOperator", label[2])
       [] label[1] = "Postfix" -> LevelsOfClass(infixParselets, "PostfixOperator", label[2])
       [] label[1] = "Binary"  -> LevelsOfClass(infixParselets, "BinaryOperator", label[2])
       [] OTHER -> UNION {LevelsOfClass(infixParselets, class, label[2]) :
                            class \in {"InfixOperator", "Times"}}]

Levels(label) == IF label \in DOMAIN LevelTable THEN LevelTable[label] ELSE {}

RightAssociative(level) == level % 2 = 1

\* The level of the operator that makes the node: of its own token, since PLUS
\* and LONGNAME_IMPLICITPLUS make nodes of one label at two levels.
OperatorLevel(N, parts) ==
  IF N.kind = "Prefix" THEN prefixParselets[parts[1][2]].prec
                       ELSE infixParselets[parts[2][2]].prec

\* The operand binds tighter than the operator at this level, or as tightly
\* when the operator associates to that side.
Tighter(label, level, equalAllowed) ==
  Levels(label) # {} =>
    \E l \in Levels(label) : l > level \/ (l = level /\ equalAllowed)

\* What a prefix operator binds is to its right, and what a postfix operator
\* binds to its left: the operator on the other side cannot be one of theirs.
RightOperandFits(label, level) ==
  label[1] = "Prefix" \/ Tighter(label, level, RightAssociative(level))

LeftOperandFits(label, level, equalAllowed) ==
  label[1] = "Postfix" \/ Tighter(label, level, equalAllowed)

BetweenOperators(parts) == {i \in 2..(Len(parts) - 1) : i % 2 = 1}

\* After a token that is an error no operator is looked for, and what waits is
\* reduced whatever comes next.
NoErrorTokens ==
  \A i \in 1..Len(input) :
    input[i] \in LeafKinds =>
      prefixParselets[input[i]].class \notin {"PrefixError", "PrefixUnsupportedToken"}

\* Each operator has the operands that precedence and associativity give it:
\* no looser one but a postfix operator to its left, no looser one but a prefix
\* operator to its right, and none at all between two operators of a node.
PrecedenceRespected ==
  NoErrorTokens => \A i \in 1..Len(NodeStack) :
    LET N     == NodeStack[i]
        parts == Parts(N)
        level == OperatorLevel(N, parts)
    IN Levels(LabelOf(N)) # {} =>
         /\ N.kind \in {"Postfix", "Binary", "Infix"} =>
              LeftOperandFits(parts[1], level,
                              N.kind # "Infix" /\ ~RightAssociative(level))
         /\ N.kind \in {"Prefix", "Binary", "Infix"} =>
              RightOperandFits(Top(parts), level)
         /\ N.kind = "Infix" =>
              \A j \in BetweenOperators(parts) : Tighter(parts[j], level, FALSE)

\* As the comment in InfixOperatorParselet_parseLoop says of  a && b \[And] c ,
\* and stages.md of  1 + 2 \[ImplicitPlus] 3 , operators that have the same
\* meaning make a single Infix node.
FlatInfix ==
  \A i \in 1..Len(NodeStack) :
    LET N == NodeStack[i]
    IN N.kind = "Infix" =>
         \A j \in 1..Len(N.kids) : N.kids[j] # LabelOf(N)

-----------------------------------------------------------------------------
(* Lines.  At the top level, unlike in a group, a newline ends an expression *)
(* unless an operator needs what is on the next line.                        *)

\* Before place i of the children, up to the last that is not trivia, there is
\* a toplevel newline.
AfterNewline(kids, i) ==
  \E j \in 1..(i - 1) :
    /\ kids[j] = <<"Leaf", "TOPLEVELNEWLINE">>
    /\ \A k \in j..(i - 1) : ~NotTrivia(kids[k])

\* Juxtaposed factors, and the parts of a span, are on one line.
LinesDelimit ==
  \A i \in 1..Len(NodeStack) :
    LET kids == NodeStack[i].kids
    IN \A j \in 1..Len(kids) :
         kids[j] = <<"Leaf", "FAKE_IMPLICITTIMES">> \/ NodeStack[i].op = "Span" =>
           ~AfterNewline(kids, j)

\* "CompoundExpression should not cross toplevel newlines"
CompoundExpressionStaysOnLine ==
  \A i \in 1..Len(NodeStack) :
    NodeStack[i].op = "CompoundExpression" =>
      \A j \in 1..Len(NodeStack[i].kids) : ~AfterNewline(NodeStack[i].kids, j)

\* "Inside \[Integral], so \[DifferentialD] is treated specially": while an
\* integral waits for its differential no product of the integrand takes one,
\* short of an open group.
DifferentialEndsIntegrand ==
  \A i \in 1..Len(ContextStack) :
    ContextStack[i].F = "IntegralParselet_parse1"
      /\ (\A j \in i..Len(ContextStack) : ~StartsGroup(ContextStack[j]))
    => \A k \in (ContextStack[i].Index + 1)..Len(NodeStack) :
         NodeStack[k].op = "Times" =>
           \A m \in 1..Len(NodeStack[k].kids) :
             NodeStack[k].kids[m] # <<"Prefix", "DifferentialD">>

-----------------------------------------------------------------------------
(* Aborts and termination                                                  *)

\* After an abort the parser only unwinds: it enters no context, opens no
\* group, calls no operand natively and parses no further expression.
AbortOnlyUnwinds ==
  [][aborted => /\ Len(ContextStack') <= Len(ContextStack)
                /\ Len(GroupStack') <= Len(GroupStack)
                /\ Len(frames') <= Len(frames)
                /\ buffer' <= buffer + 1
                /\ Calling("concreteParse") => call'.fn = "done"]_vars

\* concreteParse returns, whatever the source and whenever the abort.
Terminates == <>Calling("done")

=============================================================================
