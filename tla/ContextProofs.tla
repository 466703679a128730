---------------------------- MODULE ContextProofs ----------------------------
(***************************************************************************)
(* Whose each context is.  GroupStack, the contexts, the nodes under them  *)
(* and the loops on the C++ stack are four stacks that different functions *)
(* push and pop; here they are shown to speak of the same groups and of    *)
(* the same operators in the same order.                                   *)
(***************************************************************************)
EXTENDS ParserProofs, FiniteSetTheorems

\* The functions that run in the context of a group.
GroupFns == {"GroupParselet_parseLoop", "GroupParselet_reduceGroup",
             "GroupParselet_reduceMissingCloser",
             "GroupParselet_reduceUnterminatedGroup"}

\* The loops that need no parselet.
PlainLoops == {"CommaParselet_parseLoop", "SemiParselet_parseLoop",
               "TimesParselet_parseLoop"}

\* How the context of a group can be told from all others, without the nodes.
GroupMark(ctxt) ==
  ctxt.Prec = 0 /\ ctxt.F \in {"Parser_identity", "GroupParselet_parseLoop"}

Opens(nodes, ctxt) == LeafIn(nodes[ctxt.Index + 1], Openers)

\* What a context says of itself.
ContextFits(nodes, ctxt) ==
  /\ ctxt.F \in PlainLoops => ctxt.P = NoParselet
  /\ ctxt.F \in GroupFns => GroupMark(ctxt)
  /\ GroupMark(ctxt) <=> Opens(nodes, ctxt)

ContextsFit(nodes, C) == \A i \in 1..Len(C) : ContextFits(nodes, C[i])

\* h maps the closers of G to the contexts of the groups they close.
Closes(h, nodes, C, G) ==
  /\ h \in [1..Len(G) -> 1..Len(C)]
  /\ \A i, j \in 1..Len(G) : i < j => h[i] < h[j]
  /\ \A i \in 1..Len(C) : Opens(nodes, C[i]) <=> \E j \in 1..Len(G) : h[j] = i
  /\ \A j \in 1..Len(G) : G[j] = GroupOpenerToCloser(nodes[C[h[j]].Index + 1].op)

GroupsOpen(nodes, C, G) ==
  \E h \in [1..Len(G) -> 1..Len(C)] : Closes(h, nodes, C, G)

-----------------------------------------------------------------------------
(* The loops and their contexts                                            *)

\* The node at place i is the first behind that at the bottom of the context
\* that is not trivia.
FirstAt(nodes, ctxt, i) ==
  /\ ~LeafIn(nodes[i], Trivia)
  /\ \A j \in (ctxt.Index + 2)..(i - 1) : LeafIn(nodes[j], Trivia)

\* The operators that a loop is called for.
OperatorsOf(loop) ==
  CASE loop.fn = "InfixOperatorParselet_parseLoop" ->
         {tok \in LeafKinds : getOp(infixParselets[tok]) = loop.P.op}
    [] loop.fn = "CommaParselet_parseLoop" -> Commas
    [] loop.fn = "SemiParselet_parseLoop"  -> {"SEMI"}
    [] OTHER -> {"STAR", "FAKE_IMPLICITTIMES"}

\* Its first operator is among the nodes up to place lim.
HasOperator(nodes, loop, ctxt, lim) ==
  \E i \in (ctxt.Index + 2)..lim :
    nodes[i].op \in OperatorsOf(loop) /\ FirstAt(nodes, ctxt, i)

\* The context is that of the loop.
Fits(nodes, loop, ctxt, lim) ==
  /\ GroupMark(ctxt) <=> loop.fn = "GroupParselet_parseLoop"
  /\ GroupMark(ctxt) =>
       GroupOpenerToCloser(nodes[ctxt.Index + 1].op) = loop.P.closer
  /\ ~GroupMark(ctxt) => HasOperator(nodes, loop, ctxt, lim)

\* The functions that run in a context that no frame waits for.
Busy(fn) == fn \in RunningFns \union {InnerReduce}

\* g maps the frames to the contexts that they will run in.
Witness(g, C, frs, busy) ==
  /\ g \in [1..Len(frs) -> 1..Len(C)]
  /\ Owner(g, C, frs)
  /\ busy => AllOwned(g, C, Len(C) - 1) /\ \A j \in 1..Len(frs) : g[j] < Len(C)
  /\ ~busy => AllOwned(g, C, Len(C))

\* The operand that the function fn is called for is above this place of the
\* node stack.
Limit(nodes, C, fn, i) ==
  IF i < Len(C) THEN C[i + 1].Index
  ELSE IF fn = "parsePrefix" THEN Len(nodes) ELSE Len(nodes) - 1

LoopsFit(nodes, C, frs, fn) ==
  \A g \in [1..Len(frs) -> 1..Len(C)] :
    Witness(g, C, frs, Busy(fn)) =>
      \A j \in 1..Len(frs) :
        IsLoop(frs[j]) => Fits(nodes, frs[j], C[g[j]], Limit(nodes, C, fn, g[j]))

-----------------------------------------------------------------------------
(* The function that is called                                             *)

\* The functions that expect their context with themselves as F.
PartLoops == {"TildeParselet_parse1", "SlashColonParselet_parse1",
              "SemiSemiParselet_parse2"}

TagFns == {"EqualParselet_parseInfixTag", "ColonEqualParselet_parseInfixTag"}

\* What the function finds in the top context.
TopFits(c, ctxt) ==
  /\ c.fn \in {"parseInfix", "SemiSemiParselet_parse1"} =>
       ctxt.F = "NULL" /\ ctxt.P = NoParselet
  /\ c.fn = "parseInfix" => ctxt.Prec > 0
  /\ USE_MUSTTAIL /\ c.fn \in LoopFns => ctxt.P = c.P
  /\ c.fn \in PartLoops => ctxt.F = c.fn
  /\ c.fn \in TagFns => ctxt.F = "SlashColonParselet_parse1"
  /\ Busy(c.fn) => (GroupMark(ctxt) <=> c.fn \in GroupFns)
  /\ Busy(c.fn) /\ IsIdentity(ctxt) => LoopOf(c.fn) # "NULL"

\* What it is called with.
ArgumentsFit(c) ==
  /\ c.fn = "parsePrefix" =>
       /\ c.P.class = "Group" <=> c.tok.op \in Openers
       /\ c.P.class = "Group" => c.P.closer = GroupOpenerToCloser(c.tok.op)
  /\ c.fn = "parseInfix" /\ c.P.class # "SemiSemi" => c.P = infixParselets[c.tok.op]
  /\ c.fn \in ContextSensitiveFns => c.tok.op \notin Openers

\* And what it finds on the node stack.
NodesFit(nodes, c, ctxt) ==
  /\ c.fn = "parseInfix" =>
       \A k \in (ctxt.Index + 2)..Len(nodes) : LeafIn(nodes[k], Trivia)
  /\ c.fn = "Parser_parseClimb" => ~LeafIn(Top(nodes), Openers)
  /\ LoopOf(c.fn) # "NULL" /\ IsIdentity(ctxt) =>
       Fits(nodes, [fn |-> LoopOf(c.fn), P |-> c.P], ctxt, Len(nodes) - 1)

CallFits(nodes, c, ctxt) ==
  TopFits(c, ctxt) /\ ArgumentsFit(c) /\ NodesFit(nodes, c, ctxt)

\* With Inv, the inductive invariant behind the properties of the contexts.
Fitting ==
  /\ ContextsFit(NodeStack, ContextStack)
  /\ GroupsOpen(NodeStack, ContextStack, GroupStack)
  /\ LoopsFit(NodeStack, ContextStack, frames, call.fn)
  /\ CallFits(NodeStack, call, Parser_topContext)

-----------------------------------------------------------------------------
(* What a step leaves                                                      *)

\* The first k nodes are the same.
Agree(nodes, more, k) == \A i \in 1..k : more[i] = nodes[i]

LEMMA AgreeOpens ==
  ASSUME NEW nodes, NEW more, NEW k \in Nat, Agree(nodes, more, k),
         NEW ctxt \in Context, ctxt.Index < k
  PROVE  /\ more[ctxt.Index + 1] = nodes[ctxt.Index + 1]
         /\ Opens(more, ctxt) <=> Opens(nodes, ctxt)
  <1>1. ctxt.Index + 1 \in 1..k
    BY ContextFields
  <1> QED  BY <1>1 DEF Agree, Opens

LEMMA AgreeFits ==
  ASSUME NEW nodes, NEW more, NEW k \in Nat, Agree(nodes, more, k),
         NEW ctxt \in Context, ctxt.Index < k, NEW loop, NEW lim \in Int, lim <= k,
         NEW limit \in Int, lim <= limit, Fits(nodes, loop, ctxt, lim)
  PROVE  Fits(more, loop, ctxt, limit)
  <1>1. more[ctxt.Index + 1] = nodes[ctxt.Index + 1]
    BY AgreeOpens
  <1>2. ASSUME HasOperator(nodes, loop, ctxt, lim)
        PROVE  HasOperator(more, loop, ctxt, limit)
    <2>1. PICK i \in (ctxt.Index + 2)..lim :
             nodes[i].op \in OperatorsOf(loop) /\ FirstAt(nodes, ctxt, i)
      BY <1>2 DEF HasOperator
    <2>2. ctxt.Index \in Nat
      BY ContextFields
    <2>3. i \in (ctxt.Index + 2)..limit /\ i \in 1..k
          /\ \A j \in (ctxt.Index + 2)..(i - 1) : j \in 1..k
      BY <2>2
    <2>4. more[i] = nodes[i]
          /\ \A j \in (ctxt.Index + 2)..(i - 1) : more[j] = nodes[j]
      BY <2>3 DEF Agree
    <2>5. FirstAt(more, ctxt, i)
      BY <2>1, <2>4 DEF FirstAt
    <2> QED  BY <2>1, <2>3, <2>4, <2>5 DEF HasOperator
  <1> QED  BY <1>1, <1>2 DEF Fits

-----------------------------------------------------------------------------
(* Steps that keep the number of contexts                                  *)

\* The same contexts, but that on top may say something else.
Level(C, D) ==
  /\ Len(D) = Len(C)
  /\ \A i \in 1..Len(C) : D[i].Index = C[i].Index
  /\ \A i \in 1..(Len(C) - 1) : D[i] = C[i]

LEMMA LevelOpens ==
  ASSUME NEW nodes \in Seq(Node), NEW more \in Seq(Node),
         NEW C \in Seq(Context), NEW D \in Seq(Context), Nested(Len(nodes), C),
         Agree(nodes, more, Len(nodes)), Level(C, D), NEW i \in 1..Len(C)
  PROVE  /\ Opens(more, D[i]) <=> Opens(nodes, C[i])
         /\ more[D[i].Index + 1] = nodes[C[i].Index + 1]
  <1>1. C[i] \in Context /\ D[i].Index = C[i].Index
    BY DEF Level
  <1>2. C[i].Index < Len(nodes) /\ Len(nodes) \in Nat
    BY DEF Nested
  <1> QED  BY <1>1, <1>2, AgreeOpens DEF Opens

LEMMA LevelContexts ==
  ASSUME NEW nodes \in Seq(Node), NEW more \in Seq(Node),
         NEW C \in Seq(Context), NEW D \in Seq(Context), Nested(Len(nodes), C),
         Agree(nodes, more, Len(nodes)), Level(C, D), ContextsFit(nodes, C),
         C # <<>> => ContextFits(more, Top(D))
  PROVE  ContextsFit(more, D)
  <1> SUFFICES ASSUME NEW i \in 1..Len(D) PROVE ContextFits(more, D[i])
    BY DEF ContextsFit
  <1>1. i \in 1..Len(C) /\ Len(C) \in Nat /\ Len(D) = Len(C)
    BY DEF Level
  <1>2. CASE i = Len(C)
    <2>1. C # <<>> /\ Top(D) = D[i]
      BY <1>1, <1>2 DEF Top
    <2> QED  BY <2>1
  <1>3. CASE i # Len(C)
    <2>1. i \in 1..(Len(C) - 1)
      BY <1>1, <1>3
    <2>2. D[i] = C[i] /\ ContextFits(nodes, C[i])
      BY <1>1, <2>1 DEF Level, ContextsFit
    <2> QED  BY <1>1, <2>2, LevelOpens DEF ContextFits
  <1> QED  BY <1>2, <1>3

LEMMA LevelGroups ==
  ASSUME NEW nodes \in Seq(Node), NEW more \in Seq(Node),
         NEW C \in Seq(Context), NEW D \in Seq(Context), Nested(Len(nodes), C),
         Agree(nodes, more, Len(nodes)), Level(C, D),
         NEW G \in Seq(AnyCloser), GroupsOpen(nodes, C, G)
  PROVE  GroupsOpen(more, D, G)
  <1>1. PICK h \in [1..Len(G) -> 1..Len(C)] : Closes(h, nodes, C, G)
    BY DEF GroupsOpen
  <1>2. Len(D) = Len(C)
    BY DEF Level
  <1>3. \A i \in 1..Len(D) : Opens(more, D[i]) <=> \E j \in 1..Len(G) : h[j] = i
    BY <1>1, <1>2, LevelOpens DEF Closes
  <1>4. ASSUME NEW j \in 1..Len(G)
        PROVE  G[j] = GroupOpenerToCloser(more[D[h[j]].Index + 1].op)
    <2>1. h[j] \in 1..Len(C) /\ G[j] = GroupOpenerToCloser(nodes[C[h[j]].Index + 1].op)
      BY <1>1 DEF Closes
    <2>2. more[D[h[j]].Index + 1] = nodes[C[h[j]].Index + 1]
      BY <2>1, LevelOpens
    <2> QED  BY <2>1, <2>2
  <1>5. Closes(h, more, D, G)
    BY <1>1, <1>2, <1>3, <1>4 DEF Closes
  <1> QED  BY <1>2, <1>5 DEF GroupsOpen

Unnamed == {"NULL", "Parser_identity"}

LEMMA OwnedUnnamed ==
  ASSUME NEW g, NEW C, NEW frs, Owner(g, C, frs), NEW j \in 1..Len(frs)
  PROVE  C[g[j]].F \in Unnamed
  BY DEF Owner, SuspendedF, Unnamed

\* The frames wait for the same contexts before the step and after it.
LEMMA LevelWitness ==
  ASSUME NEW C \in Seq(Context), NEW D \in Seq(Context), Level(C, D),
         NEW frs \in Seq(Frame), NEW b \in BOOLEAN, NEW b2 \in BOOLEAN,
         b /\ ~b2 => C # <<>> /\ Top(D).F \notin Unnamed,
         ~b /\ b2 => C # <<>> /\ Top(C).F \notin Unnamed,
         ~b /\ ~b2 => D = C,
         NEW g \in [1..Len(frs) -> 1..Len(D)], Witness(g, D, frs, b2)
  PROVE  /\ Witness(g, C, frs, b)
         /\ b \/ b2 => \A j \in 1..Len(frs) : g[j] < Len(C) /\ D[g[j]] = C[g[j]]
  <1>1. Len(D) = Len(C) /\ Len(C) \in Nat /\ Len(frs) \in Nat
        /\ \A i \in 1..(Len(C) - 1) : D[i] = C[i]
    BY DEF Level
  <1>2. CASE ~b /\ ~b2
    BY <1>2
  <1>3. CASE b \/ b2
    <2>1. ASSUME NEW j \in 1..Len(frs) PROVE g[j] < Len(C)
      <3>1. CASE b2
        BY <1>1, <3>1 DEF Witness
      <3>2. CASE ~b2
        <4>1. D[g[j]].F \in Unnamed
          BY OwnedUnnamed DEF Witness
        <4>2. g[j] # Len(D)
          BY <1>3, <3>2, <4>1 DEF Top
        <4>3. g[j] \in 1..Len(D)
          OBVIOUS
        <4> QED  BY <1>1, <4>2, <4>3
      <3> QED  BY <3>1, <3>2
    <2>2. \A j \in 1..Len(frs) : g[j] \in 1..(Len(C) - 1)
      BY <1>1, <2>1
    <2>3. \A j \in 1..Len(frs) : D[g[j]] = C[g[j]]
      BY <1>1, <2>2
    <2>4. Owner(g, C, frs)
      BY <1>1, <2>3 DEF Owner, Witness
    <2>5. AllOwned(g, C, Len(C) - 1)
      <3>1. \A i \in 1..(Len(C) - 1) : i \in 1..Len(C) /\ D[i] = C[i]
        BY <1>1
      <3>2. AllOwned(g, D, Len(C) - 1)
        BY <1>1, <3>1 DEF Witness, AllOwned
      <3> QED  BY <3>1, <3>2 DEF AllOwned
    <2>6. CASE b
      BY <1>1, <2>1, <2>3, <2>4, <2>5, <2>6 DEF Witness
    <2>7. CASE ~b
      <3>1. C[Len(C)].F \notin Unnamed
        BY <1>3, <2>7 DEF Top
      <3>2. AllOwned(g, C, Len(C))
        <4> SUFFICES ASSUME NEW i \in 1..Len(C), C[i].F \in Unnamed
                     PROVE  \E j \in DOMAIN g : g[j] = i
          BY DEF AllOwned, Unnamed
        <4>1. i \in 1..(Len(C) - 1)
          BY <1>1, <3>1
        <4> QED  BY <2>5, <4>1 DEF AllOwned, Unnamed
      <3> QED  BY <1>1, <2>1, <2>3, <2>4, <2>7, <3>2 DEF Witness
    <2> QED  BY <2>6, <2>7
  <1> QED  BY <1>2, <1>3

LEMMA LimitType ==
  ASSUME NEW nodes \in Seq(Node), NEW C \in Seq(Context), Nested(Len(nodes), C),
         NEW fn, NEW i \in 1..Len(C)
  PROVE  Limit(nodes, C, fn, i) \in Int /\ Limit(nodes, C, fn, i) <= Len(nodes)
  <1>1. Len(nodes) \in Nat /\ Len(C) \in Nat
    OBVIOUS
  <1>2. CASE i < Len(C)
    <2>1. i + 1 \in 1..Len(C)
      BY <1>1, <1>2
    <2>2. C[i + 1].Index \in Nat /\ C[i + 1].Index < Len(nodes)
      BY <2>1, ContextIndex DEF Nested
    <2> QED  BY <1>1, <1>2, <2>2 DEF Limit
  <1>3. CASE ~(i < Len(C))
    BY <1>1, <1>3 DEF Limit
  <1> QED  BY <1>2, <1>3

LEMMA LevelLoops ==
  ASSUME NEW nodes \in Seq(Node), NEW more \in Seq(Node),
         NEW C \in Seq(Context), NEW D \in Seq(Context), Nested(Len(nodes), C),
         Agree(nodes, more, Len(nodes)), Len(nodes) <= Len(more), Level(C, D),
         NEW frs \in Seq(Frame), NEW fn, NEW fn2, LoopsFit(nodes, C, frs, fn),
         Busy(fn) /\ ~Busy(fn2) => C # <<>> /\ Top(D).F \notin Unnamed,
         ~Busy(fn) /\ Busy(fn2) => C # <<>> /\ Top(C).F \notin Unnamed,
         ~Busy(fn) /\ ~Busy(fn2) =>
           /\ D = C
           /\ fn2 # "parsePrefix"
           /\ fn = "parsePrefix" => Len(nodes) < Len(more)
  PROVE  LoopsFit(more, D, frs, fn2)
  <1> SUFFICES ASSUME NEW g \in [1..Len(frs) -> 1..Len(D)],
                      Witness(g, D, frs, Busy(fn2)),
                      NEW j \in 1..Len(frs), IsLoop(frs[j])
               PROVE  Fits(more, frs[j], D[g[j]], Limit(more, D, fn2, g[j]))
    BY DEF LoopsFit
  <1>1. Busy(fn) \in BOOLEAN /\ Busy(fn2) \in BOOLEAN
    BY DEF Busy
  <1>2. /\ Witness(g, C, frs, Busy(fn))
        /\ Busy(fn) \/ Busy(fn2) =>
             \A k \in 1..Len(frs) : g[k] < Len(C) /\ D[g[k]] = C[g[k]]
    BY <1>1, LevelWitness
  <1> DEFINE i   == g[j]
             lim == Limit(nodes, C, fn, i)
  <1>3. Len(D) = Len(C) /\ i \in 1..Len(C) /\ C[i] \in Context
        /\ Len(C) \in Nat /\ Len(nodes) \in Nat /\ Len(more) \in Nat
    BY DEF Level
  <1>4. Fits(nodes, frs[j], C[i], lim)
    BY <1>2, <1>3 DEF LoopsFit
  <1>5. lim \in Int /\ lim <= Len(nodes) /\ C[i].Index < Len(nodes)
    BY <1>3, LimitType DEF Nested
  <1>6. CASE Busy(fn) \/ Busy(fn2)
    <2>1. i < Len(C) /\ D[i] = C[i]
      BY <1>2, <1>6
    <2>2. D[i + 1].Index = C[i + 1].Index
      BY <1>3, <2>1 DEF Level
    <2>3. Limit(more, D, fn2, i) = lim
      BY <1>3, <2>1, <2>2 DEF Limit
    <2> HIDE DEF i, lim
    <2>4. Fits(more, frs[j], C[i], lim)
      BY <1>3, <1>4, <1>5, AgreeFits
    <2> QED  BY <2>1, <2>3, <2>4 DEF i
  <1>7. CASE ~Busy(fn) /\ ~Busy(fn2)
    <2>1. Limit(more, D, fn2, i) \in Int /\ lim <= Limit(more, D, fn2, i)
      <3>1. CASE i < Len(C)
        BY <1>3, <1>5, <1>7, <3>1 DEF Limit
      <3>2. CASE ~(i < Len(C))
        BY <1>3, <1>7, <3>2 DEF Limit
      <3> QED  BY <3>1, <3>2
    <2> HIDE DEF i, lim
    <2>2. Fits(more, frs[j], C[i], Limit(more, D, fn2, i))
      BY <1>3, <1>4, <1>5, <2>1, AgreeFits
    <2> QED  BY <1>7, <2>2 DEF i
  <1> QED  BY <1>6, <1>7

\* The frame pushed last waits for the top context, and the others as before.
LEMMA PushedWitness ==
  ASSUME NEW D \in Seq(Context), D # <<>>, NEW frs \in Seq(Frame), NEW frame \in Frame,
         Top(D).F \in Unnamed,
         NEW g \in [1..Len(Append(frs, frame)) -> 1..Len(D)],
         Witness(g, D, Append(frs, frame), FALSE)
  PROVE  /\ g[Len(frs) + 1] = Len(D)
         /\ \E h \in [1..Len(frs) -> 1..Len(D)] :
              Witness(h, D, frs, TRUE) /\ \A j \in 1..Len(frs) : h[j] = g[j]
  <1> DEFINE k == Len(frs) + 1
             m == Len(D)
             f == Append(frs, frame)
             h == [j \in 1..Len(frs) |-> g[j]]
  <1>1. /\ Len(f) = k /\ Len(frs) \in Nat /\ k \in Nat /\ m \in Nat \ {0}
        /\ \A j \in 1..Len(frs) : f[j] = frs[j]
    BY PushFacts
  <1> HIDE DEF f
  <1>2. /\ g \in [1..k -> 1..m]
        /\ \A i, j \in 1..k : i < j => g[i] < g[j]
        /\ \A i \in 1..k : D[g[i]].F = SuspendedF(f[i])
        /\ AllOwned(g, D, m)
    BY <1>1 DEF Witness, Owner, f
  <1>3. PICK j \in 1..k : g[j] = m
    <2>1. m \in 1..m /\ D[m].F \in {"NULL", "Parser_identity"}
      BY <1>1 DEF Top, Unnamed
    <2>2. \E j \in DOMAIN g : g[j] = m
      BY <1>2, <2>1 DEF AllOwned
    <2> QED  BY <1>2, <2>2
  <1>4. g[k] = m
    BY <1>1, <1>2, <1>3, LastReachesTop
  <1>5. \A i \in 1..Len(frs) : i \in 1..k /\ k \in 1..k /\ i < k
    BY <1>1
  <1>6. \A i \in 1..Len(frs) : h[i] = g[i] /\ g[i] \in 1..m /\ h[i] < m
    BY <1>2, <1>4, <1>5
  <1>7. h \in [1..Len(frs) -> 1..m]
    BY <1>6
  <1>8. Owner(h, D, frs)
    <2>1. \A i, l \in 1..Len(frs) : i < l => h[i] < h[l]
      BY <1>2, <1>5, <1>6
    <2>2. \A i \in 1..Len(frs) : D[h[i]].F = SuspendedF(frs[i])
      BY <1>1, <1>2, <1>5, <1>6
    <2> HIDE DEF h
    <2> QED  BY <1>7, <2>1, <2>2 DEF Owner
  <1>9. AllOwned(h, D, m - 1)
    <2> SUFFICES ASSUME NEW i \in 1..(m - 1), D[i].F \in {"NULL", "Parser_identity"}
                 PROVE  \E l \in DOMAIN h : h[l] = i
      BY DEF AllOwned
    <2>1. i \in 1..m /\ i # m
      BY <1>1
    <2>2. PICK l \in 1..k : g[l] = i
      BY <1>2, <2>1 DEF AllOwned
    <2>3. l \in 1..Len(frs)
      BY <1>1, <1>4, <2>1, <2>2
    <2> QED  BY <1>6, <2>2, <2>3
  <1> HIDE DEF h
  <1>10. Witness(h, D, frs, TRUE)
    BY <1>6, <1>7, <1>8, <1>9 DEF Witness
  <1> QED  BY <1>4, <1>6, <1>7, <1>10

LEMMA CallLoops ==
  ASSUME NEW nodes \in Seq(Node), NEW more \in Seq(Node),
         NEW C \in Seq(Context), NEW D \in Seq(Context), Nested(Len(nodes), C),
         Agree(nodes, more, Len(nodes)), Len(nodes) <= Len(more), Level(C, D),
         C # <<>>, NEW frs \in Seq(Frame), NEW frame \in Frame, NEW fn, NEW fn2,
         LoopsFit(nodes, C, frs, fn), Busy(fn), ~Busy(fn2),
         Top(D).F = "Parser_identity",
         Fits(more, frame, Top(D), Limit(more, D, fn2, Len(D)))
  PROVE  LoopsFit(more, D, Append(frs, frame), fn2)
  <1> DEFINE f == Append(frs, frame)
  <1>1. /\ Len(f) = Len(frs) + 1 /\ Len(frs) \in Nat
        /\ \A j \in 1..Len(frs) : f[j] = frs[j]
        /\ f[Len(frs) + 1] = frame
    BY PushFacts
  <1>2. Len(D) = Len(C) /\ Len(C) \in Nat \ {0} /\ D # <<>>
        /\ Len(nodes) \in Nat
    BY DEF Level
  <1> SUFFICES ASSUME NEW g \in [1..Len(f) -> 1..Len(D)], Witness(g, D, f, Busy(fn2)),
                      NEW j \in 1..Len(f), IsLoop(f[j])
               PROVE  Fits(more, f[j], D[g[j]], Limit(more, D, fn2, g[j]))
    BY DEF LoopsFit
  <1>3. /\ g[Len(frs) + 1] = Len(D)
        /\ \E h \in [1..Len(frs) -> 1..Len(D)] :
             Witness(h, D, frs, TRUE) /\ \A l \in 1..Len(frs) : h[l] = g[l]
    <2>1. Top(D).F \in Unnamed
      BY DEF Unnamed
    <2>2. Witness(g, D, f, FALSE)
      BY DEF Witness
    <2> QED  BY ZenonT(40), <1>2, <2>1, <2>2, PushedWitness
  <1>4. CASE j = Len(frs) + 1
    <2>1. f[j] = frame /\ D[g[j]] = Top(D) /\ g[j] = Len(D)
      BY <1>1, <1>3, <1>4 DEF Top
    <2> QED  BY <2>1
  <1>5. CASE j # Len(frs) + 1
    <2>1. j \in 1..Len(frs) /\ f[j] = frs[j]
      BY <1>1, <1>5
    <2>2. PICK h \in [1..Len(frs) -> 1..Len(D)] :
            Witness(h, D, frs, TRUE) /\ \A l \in 1..Len(frs) : h[l] = g[l]
      BY <1>3
    <2>3. /\ Witness(h, C, frs, TRUE)
          /\ \A l \in 1..Len(frs) : h[l] < Len(C) /\ D[h[l]] = C[h[l]]
      BY ZenonT(40), <2>2, LevelWitness
    <2> DEFINE i == h[j]
    <2>4. i \in 1..Len(C) /\ i < Len(C) /\ D[i] = C[i] /\ g[j] = i /\ C[i] \in Context
      <3>1. h[j] \in 1..Len(D)
        BY <2>1
      <3>2. h[j] \in 1..Len(C)
        BY <1>2, <3>1
      <3>3. C[h[j]] \in Context
        BY <3>2
      <3> QED  BY <2>1, <2>2, <2>3, <3>2, <3>3
    <2>5. Fits(nodes, frs[j], C[i], Limit(nodes, C, fn, i))
      BY <1>2, <2>1, <2>3 DEF LoopsFit, Witness
    <2> HIDE DEF i
    <2>6. D[i + 1].Index = C[i + 1].Index
      BY <1>2, <2>4 DEF Level
    <2>7. Limit(more, D, fn2, i) = Limit(nodes, C, fn, i)
      BY <1>2, <2>4, <2>6 DEF Limit
    <2>8. Limit(nodes, C, fn, i) \in Int /\ Limit(nodes, C, fn, i) <= Len(nodes)
          /\ C[i].Index < Len(nodes)
      BY <2>4, LimitType DEF Nested
    <2>9. Fits(more, frs[j], C[i], Limit(nodes, C, fn, i))
      BY <1>2, <2>4, <2>5, <2>8, AgreeFits
    <2> QED  BY <2>1, <2>4, <2>7, <2>9
  <1> QED  BY <1>4, <1>5

\* A return leads to the loop of the top context.
LEMMA ReturnLoops ==
  ASSUME NEW nodes \in Seq(Node), NEW C \in Seq(Context), NEW frs \in Seq(Frame),
         Returning(Len(nodes), C, frs), frs # <<>>,
         LoopsFit(nodes, C, frs, "return"), NEW fn2, Busy(fn2), ~Busy("return")
  PROVE  /\ C # <<>> /\ Top(C).F = SuspendedF(Top(frs))
         /\ LoopsFit(nodes, C, Pop(frs), fn2)
         /\ IsLoop(Top(frs)) => Fits(nodes, Top(frs), Top(C), Len(nodes) - 1)
  <1> DEFINE k == Len(frs)
             m == Len(C)
             f == Pop(frs)
  <1>1. /\ k \in Nat \ {0} /\ Len(f) = k - 1 /\ Top(frs) = frs[k]
        /\ \A j \in 1..(k - 1) : f[j] = frs[j]
        /\ m \in Nat
    <2>1. m \in Nat
      OBVIOUS
    <2> QED  BY <2>1, PopFacts, Zenon
  <1> HIDE DEF f
  <1>2. PICK w \in [1..k -> 1..m] :
          Owner(w, C, frs) /\ AllOwned(w, C, m) /\ w[k] = m
    BY DEF Returning, TopOwned
  <1>3. k \in 1..k /\ w[k] \in 1..m /\ m \in Nat \ {0}
    BY <1>1, <1>2
  <1>4. C[m].F = SuspendedF(Top(frs)) /\ C # <<>> /\ Top(C) = C[m]
    BY <1>1, <1>2, <1>3 DEF Owner, Top
  <1>5. Witness(w, C, frs, Busy("return"))
    BY <1>2 DEF Witness
  <1>6. IsLoop(Top(frs)) => Fits(nodes, Top(frs), Top(C), Len(nodes) - 1)
    <2>1. IsLoop(frs[k]) => Fits(nodes, frs[k], C[w[k]], Limit(nodes, C, "return", w[k]))
      BY <1>2, <1>3, <1>5 DEF LoopsFit
    <2>2. Limit(nodes, C, "return", m) = Len(nodes) - 1
      BY <1>1 DEF Limit
    <2> QED  BY <1>1, <1>2, <1>4, <2>1, <2>2
  <1>7. ASSUME NEW g \in [1..Len(f) -> 1..m], Witness(g, C, f, Busy(fn2)),
               NEW j \in 1..Len(f), IsLoop(f[j])
        PROVE  Fits(nodes, f[j], C[g[j]], Limit(nodes, C, fn2, g[j]))
    <2> DEFINE h == [i \in 1..k |-> IF i = k THEN m ELSE g[i]]
    <2>1. /\ \A i \in 1..(k - 1) : g[i] < m /\ g[i] \in 1..m
          /\ \A i, l \in 1..(k - 1) : i < l => g[i] < g[l]
          /\ \A i \in 1..(k - 1) : C[g[i]].F = SuspendedF(f[i])
          /\ AllOwned(g, C, m - 1) /\ DOMAIN g = 1..(k - 1)
      BY <1>1, <1>7 DEF Witness, Owner
    <2>2. /\ h \in [1..k -> 1..m] /\ h[k] = m
          /\ \A i \in 1..(k - 1) : h[i] = g[i]
          /\ \A i \in 1..k : i = k \/ i \in 1..(k - 1)
      <3>1. k \in 1..k /\ m \in 1..m
        BY <1>1, <1>3
      <3>2. \A i \in 1..k : i = k \/ i \in 1..(k - 1)
        <4>1. k \in Nat
          BY <1>1
        <4> HIDE DEF k
        <4> QED  BY <4>1
      <3>3. \A i \in 1..(k - 1) : i \in 1..k /\ i # k
        BY <1>1
      <3>4. \A i \in 1..k : (IF i = k THEN m ELSE g[i]) \in 1..m
        BY <2>1, <3>1, <3>2
      <3> QED  BY <3>1, <3>2, <3>3, <3>4
    <2> HIDE DEF h
    <2>3. \A i, l \in 1..k : i < l => h[i] < h[l]
      <3> SUFFICES ASSUME NEW i \in 1..k, NEW l \in 1..k, i < l PROVE h[i] < h[l]
        OBVIOUS
      <3>1. i \in 1..(k - 1)
        BY <1>1
      <3>2. CASE l = k
        BY <2>1, <2>2, <3>1, <3>2
      <3>3. CASE l # k
        BY <2>1, <2>2, <3>1, <3>3
      <3> QED  BY <3>2, <3>3
    <2>4. \A i \in 1..k : C[h[i]].F = SuspendedF(frs[i])
      <3> SUFFICES ASSUME NEW i \in 1..k PROVE C[h[i]].F = SuspendedF(frs[i])
        OBVIOUS
      <3>1. CASE i = k
        BY <1>1, <1>4, <2>2, <3>1
      <3>2. CASE i # k
        BY <1>1, <2>1, <2>2, <3>2
      <3> QED  BY <3>1, <3>2
    <2>5. AllOwned(h, C, m)
      <3> SUFFICES ASSUME NEW i \in 1..m, C[i].F \in {"NULL", "Parser_identity"}
                   PROVE  \E l \in DOMAIN h : h[l] = i
        BY DEF AllOwned
      <3>1. CASE i = m
        BY <1>3, <2>2, <3>1
      <3>2. CASE i # m
        <4>1. i \in 1..(m - 1)
          BY <1>3, <3>2
        <4>2. PICK l \in 1..(k - 1) : g[l] = i
          BY <2>1, <4>1 DEF AllOwned
        <4>3. l \in 1..k
          BY <1>1
        <4> QED  BY <2>2, <4>2, <4>3
      <3> QED  BY <3>1, <3>2
    <2>6. Witness(h, C, frs, Busy("return"))
      BY <2>2, <2>3, <2>4, <2>5 DEF Witness, Owner
    <2>7. j \in 1..(k - 1) /\ j \in 1..k /\ f[j] = frs[j] /\ h[j] = g[j]
      BY <1>1, <2>2
    <2>8. Fits(nodes, frs[j], C[g[j]], Limit(nodes, C, "return", g[j]))
      BY <1>7, <2>2, <2>6, <2>7 DEF LoopsFit
    <2>9. Limit(nodes, C, "return", g[j]) = Limit(nodes, C, fn2, g[j])
      BY <2>1, <2>7 DEF Limit
    <2> QED  BY <2>7, <2>8, <2>9
  <1>8. LoopsFit(nodes, C, f, fn2)
    BY <1>7 DEF LoopsFit
  <1> QED  BY <1>4, <1>6, <1>8 DEF f

-----------------------------------------------------------------------------
(* Steps that push a context                                               *)

LEMMA PushContexts ==
  ASSUME NEW nodes \in Seq(Node), NEW more \in Seq(Node),
         NEW C \in Seq(Context), NEW c \in Context, Nested(Len(nodes), C),
         Agree(nodes, more, Len(nodes)), ContextsFit(nodes, C), ContextFits(more, c)
  PROVE  ContextsFit(more, Append(C, c))
  <1> DEFINE D == Append(C, c)
  <1>1. /\ Len(D) = Len(C) + 1 /\ Len(C) \in Nat /\ D[Len(C) + 1] = c
        /\ \A i \in 1..Len(C) : D[i] = C[i]
    BY PushFacts
  <1> HIDE DEF D
  <1> SUFFICES ASSUME NEW i \in 1..Len(D) PROVE ContextFits(more, D[i])
    BY DEF ContextsFit, D
  <1>2. CASE i \in 1..Len(C)
    <2>1. D[i] = C[i] /\ C[i] \in Context /\ C[i].Index < Len(nodes)
          /\ Len(nodes) \in Nat /\ ContextFits(nodes, C[i])
      BY <1>1, <1>2 DEF Nested, ContextsFit
    <2>2. Opens(more, C[i]) <=> Opens(nodes, C[i])
      BY <2>1, AgreeOpens
    <2> QED  BY <2>1, <2>2 DEF ContextFits
  <1>3. CASE i \notin 1..Len(C)
    BY <1>1, <1>3
  <1> QED  BY <1>2, <1>3

\* The groups are the same, or there is one more.
LEMMA PushGroups ==
  ASSUME NEW nodes \in Seq(Node), NEW more \in Seq(Node),
         NEW C \in Seq(Context), NEW c \in Context, Nested(Len(nodes), C),
         Agree(nodes, more, Len(nodes)), NEW G \in Seq(AnyCloser),
         GroupsOpen(nodes, C, G)
  PROVE  /\ ~Opens(more, c) => GroupsOpen(more, Append(C, c), G)
         /\ \A closer \in AnyCloser :
              Opens(more, c) /\ closer = GroupOpenerToCloser(more[c.Index + 1].op) =>
                GroupsOpen(more, Append(C, c), Append(G, closer))
  <1> DEFINE D == Append(C, c)
             n == Len(G)
  <1>1. /\ Len(D) = Len(C) + 1 /\ Len(C) \in Nat /\ D[Len(C) + 1] = c
        /\ \A i \in 1..Len(C) : D[i] = C[i]
        /\ n \in Nat
    BY PushFacts
  <1> HIDE DEF D
  <1>2. PICK h \in [1..n -> 1..Len(C)] : Closes(h, nodes, C, G)
    BY DEF GroupsOpen
  <1>3. \A i \in 1..Len(C) : /\ Opens(more, D[i]) <=> Opens(nodes, C[i])
                             /\ more[D[i].Index + 1] = nodes[C[i].Index + 1]
    <2> SUFFICES ASSUME NEW i \in 1..Len(C)
                 PROVE  /\ Opens(more, D[i]) <=> Opens(nodes, C[i])
                        /\ more[D[i].Index + 1] = nodes[C[i].Index + 1]
      OBVIOUS
    <2>1. D[i] = C[i] /\ C[i] \in Context /\ C[i].Index < Len(nodes) /\ Len(nodes) \in Nat
      BY <1>1 DEF Nested
    <2> QED  BY <2>1, AgreeOpens
  <1>4. \A j \in 1..n : /\ h[j] \in 1..Len(C) /\ h[j] \in 1..Len(D)
                        /\ G[j] = GroupOpenerToCloser(more[D[h[j]].Index + 1].op)
    <2>1. \A j \in 1..n : h[j] \in 1..Len(C)
      BY <1>2
    <2>2. \A j \in 1..n : G[j] = GroupOpenerToCloser(nodes[C[h[j]].Index + 1].op)
      BY <1>2 DEF Closes
    <2> QED  BY <1>1, <1>3, <2>1, <2>2
  <1>5. \A i \in 1..Len(D) : i \in 1..Len(C) \/ i = Len(C) + 1
    BY <1>1
  <1>6. ASSUME ~Opens(more, c) PROVE GroupsOpen(more, D, G)
    <2>1. h \in [1..n -> 1..Len(D)]
      BY <1>2, <1>4
    <2>2. ASSUME NEW i \in 1..Len(D)
          PROVE  Opens(more, D[i]) <=> \E j \in 1..n : h[j] = i
      <3>1. CASE i \in 1..Len(C)
        BY <1>2, <1>3, <3>1 DEF Closes
      <3>2. CASE i = Len(C) + 1
        BY <1>1, <1>4, <1>6, <3>2
      <3> QED  BY <1>5, <3>1, <3>2
    <2>3. Closes(h, more, D, G)
      BY <1>2, <1>4, <2>1, <2>2 DEF Closes
    <2> QED  BY <2>1, <2>3 DEF GroupsOpen
  <1>7. ASSUME NEW closer \in AnyCloser, Opens(more, c),
               closer = GroupOpenerToCloser(more[c.Index + 1].op)
        PROVE  GroupsOpen(more, D, Append(G, closer))
    <2> DEFINE H == Append(G, closer)
               f == [j \in 1..(n + 1) |-> IF j = n + 1 THEN Len(C) + 1 ELSE h[j]]
    <2>1. /\ Len(H) = n + 1 /\ H[n + 1] = closer
          /\ \A j \in 1..n : H[j] = G[j]
      BY <1>1
    <2>2. \A j \in 1..(n + 1) : j = n + 1 \/ j \in 1..n
      BY <1>1
    <2>3. (n + 1) \in 1..(n + 1) /\ \A j \in 1..n : j \in 1..(n + 1) /\ j # n + 1
      BY <1>1
    <2>4. f[n + 1] = Len(C) + 1 /\ \A j \in 1..n : f[j] = h[j]
      BY <2>3
    <2>5. f \in [1..(n + 1) -> 1..Len(D)]
      <3>1. Len(C) + 1 \in 1..Len(D)
        BY <1>1
      <3>2. \A j \in 1..(n + 1) : f[j] \in 1..Len(D)
        BY <1>4, <2>2, <2>4, <3>1
      <3> QED  BY <3>2
    <2> HIDE DEF f, H
    <2>6. \A i, j \in 1..(n + 1) : i < j => f[i] < f[j]
      <3> SUFFICES ASSUME NEW i \in 1..(n + 1), NEW j \in 1..(n + 1), i < j
                   PROVE  f[i] < f[j]
        OBVIOUS
      <3>1. i \in 1..n
        BY <1>1
      <3>2. CASE j = n + 1
        BY <1>1, <1>4, <2>4, <3>1, <3>2
      <3>3. CASE j # n + 1
        <4>1. j \in 1..n /\ h[i] < h[j]
          BY <1>2, <2>2, <3>1, <3>3 DEF Closes
        <4> QED  BY <2>4, <3>1, <4>1
      <3> QED  BY <3>2, <3>3
    <2>7. ASSUME NEW i \in 1..Len(D)
          PROVE  Opens(more, D[i]) <=> \E j \in 1..(n + 1) : f[j] = i
      <3>1. CASE i \in 1..Len(C)
        <4>1. Opens(more, D[i]) <=> \E j \in 1..n : h[j] = i
          BY <1>2, <1>3, <3>1 DEF Closes
        <4>2. i # Len(C) + 1
          BY <1>1, <3>1
        <4> QED  BY <2>2, <2>3, <2>4, <4>1, <4>2
      <3>2. CASE i = Len(C) + 1
        BY <1>1, <1>7, <2>3, <2>4, <3>2
      <3> QED  BY <1>5, <3>1, <3>2
    <2>8. \A j \in 1..(n + 1) : H[j] = GroupOpenerToCloser(more[D[f[j]].Index + 1].op)
      <3> SUFFICES ASSUME NEW j \in 1..(n + 1)
                   PROVE  H[j] = GroupOpenerToCloser(more[D[f[j]].Index + 1].op)
        OBVIOUS
      <3>1. CASE j = n + 1
        BY <1>1, <1>7, <2>1, <2>4, <3>1
      <3>2. CASE j # n + 1
        BY <1>4, <2>1, <2>2, <2>4, <3>2
      <3> QED  BY <3>1, <3>2
    <2>9. Closes(f, more, D, H)
      BY <2>1, <2>5, <2>6, <2>7, <2>8 DEF Closes
    <2> QED  BY <2>1, <2>5, <2>9 DEF GroupsOpen, H
  <1> QED  BY <1>6, <1>7 DEF D

LEMMA PushLoops ==
  ASSUME NEW nodes \in Seq(Node), NEW more \in Seq(Node),
         NEW C \in Seq(Context), NEW c \in Context, Nested(Len(nodes), C),
         Agree(nodes, more, Len(nodes)), NEW frs \in Seq(Frame), NEW fn, NEW fn2,
         LoopsFit(nodes, C, frs, fn), ~Busy(fn),
         C # <<>> => Limit(nodes, C, fn, Len(C)) <= c.Index,
         Busy(fn2) \/ c.F \notin Unnamed
  PROVE  LoopsFit(more, Append(C, c), frs, fn2)
  <1> DEFINE D == Append(C, c)
  <1>1. /\ Len(D) = Len(C) + 1 /\ Len(C) \in Nat /\ D[Len(C) + 1] = c
        /\ \A i \in 1..Len(C) : D[i] = C[i]
        /\ Len(nodes) \in Nat
    BY PushFacts
  <1> HIDE DEF D
  <1> SUFFICES ASSUME NEW g \in [1..Len(frs) -> 1..Len(D)],
                      Witness(g, D, frs, Busy(fn2)),
                      NEW j \in 1..Len(frs), IsLoop(frs[j])
               PROVE  Fits(more, frs[j], D[g[j]], Limit(more, D, fn2, g[j]))
    BY DEF LoopsFit, D
  <1>2. ASSUME NEW l \in 1..Len(frs) PROVE g[l] \in 1..Len(C)
    <2>1. g[l] \in 1..Len(D)
      OBVIOUS
    <2>2. CASE Busy(fn2)
      BY <1>1, <2>1, <2>2 DEF Witness
    <2>3. CASE ~Busy(fn2)
      <3>1. D[g[l]].F \in Unnamed
        BY OwnedUnnamed DEF Witness
      <3>2. g[l] # Len(C) + 1
        BY <1>1, <2>3, <3>1
      <3> QED  BY <1>1, <2>1, <3>2
    <2> QED  BY <2>2, <2>3
  <1>3. g \in [1..Len(frs) -> 1..Len(C)]
    BY <1>2
  <1>4. Owner(g, C, frs)
    BY <1>1, <1>2, <1>3 DEF Owner, Witness
  <1>5. AllOwned(g, C, Len(C))
    <2>1. AllOwned(g, D, Len(C))
      <3>1. CASE Busy(fn2)
        BY <1>1, <3>1 DEF Witness
      <3>2. CASE ~Busy(fn2)
        BY <1>1, <3>2 DEF Witness, AllOwned
      <3> QED  BY <3>1, <3>2
    <2> QED  BY <1>1, <2>1 DEF AllOwned
  <1>6. Witness(g, C, frs, Busy(fn))
    BY <1>3, <1>4, <1>5 DEF Witness
  <1> DEFINE i == g[j]
  <1>7. i \in 1..Len(C) /\ C[i] \in Context /\ D[i] = C[i]
    BY <1>1, <1>2
  <1>8. Fits(nodes, frs[j], C[i], Limit(nodes, C, fn, i))
    BY <1>3, <1>6 DEF LoopsFit
  <1> HIDE DEF i
  <1>9. Limit(nodes, C, fn, i) \in Int /\ Limit(nodes, C, fn, i) <= Len(nodes)
        /\ C[i].Index < Len(nodes)
    BY <1>7, LimitType DEF Nested
  <1>10. Limit(more, D, fn2, i) \in Int
         /\ Limit(nodes, C, fn, i) <= Limit(more, D, fn2, i)
    <2>1. CASE i = Len(C)
      <3>1. C # <<>> /\ c.Index \in Nat
        BY <1>7, ContextFields
      <3>2. Limit(more, D, fn2, i) = c.Index
        BY <1>1, <2>1 DEF Limit
      <3> QED  BY <2>1, <3>1, <3>2
    <2>2. CASE i # Len(C)
      <3>3. i < Len(C) /\ i < Len(D) /\ i + 1 \in 1..Len(C)
        BY <1>1, <1>7, <2>2
      <3>1. i < Len(C) /\ i < Len(D) /\ D[i + 1] = C[i + 1]
        BY <1>1, <3>3
      <3>2. Limit(more, D, fn2, i) = Limit(nodes, C, fn, i)
        BY <3>1 DEF Limit
      <3> QED  BY <1>9, <3>2
    <2> QED  BY <2>1, <2>2
  <1>11. Fits(more, frs[j], C[i], Limit(more, D, fn2, i))
    BY <1>1, <1>7, <1>8, <1>9, <1>10, AgreeFits
  <1> QED  BY <1>7, <1>11 DEF i

\* A context for the part of a pattern that is read natively.
LEMMA PushPattern ==
  ASSUME NEW nodes \in Seq(Node), NEW more \in Seq(Node),
         NEW C \in Seq(Context), NEW c \in Context, Nested(Len(nodes), C),
         Agree(nodes, more, Len(nodes)), NEW frs \in Seq(Frame), NEW fn, NEW fn2,
         LoopsFit(nodes, C, frs, fn), ~Busy(fn),
         C # <<>> => Limit(nodes, C, fn, Len(C)) <= c.Index,
         c.F = "NULL", NEW frame \in Frame, ~IsLoop(frame), ~Busy(fn2)
  PROVE  LoopsFit(more, Append(C, c), Append(frs, frame), fn2)
  <1> DEFINE D == Append(C, c)
             f == Append(frs, frame)
  <1>1. /\ Len(f) = Len(frs) + 1 /\ Len(frs) \in Nat
        /\ \A j \in 1..Len(frs) : f[j] = frs[j]
        /\ f[Len(frs) + 1] = frame
    BY PushFacts
  <1>2. D \in Seq(Context) /\ D # <<>> /\ Top(D).F \in Unnamed /\ Len(D) \in Nat
    BY PushFacts, PopPush DEF Unnamed
  <1>3. LoopsFit(more, D, frs, "parseInfix") /\ Busy("parseInfix")
    <2>1. Busy("parseInfix")
      BY DEF Busy, RunningFns
    <2> QED  BY <2>1, PushLoops
  <1> HIDE DEF D
  <1> SUFFICES ASSUME NEW g \in [1..Len(f) -> 1..Len(D)], Witness(g, D, f, Busy(fn2)),
                      NEW j \in 1..Len(f), IsLoop(f[j])
               PROVE  Fits(more, f[j], D[g[j]], Limit(more, D, fn2, g[j]))
    BY DEF LoopsFit, D
  <1>4. PICK h \in [1..Len(frs) -> 1..Len(D)] :
          Witness(h, D, frs, TRUE) /\ \A l \in 1..Len(frs) : h[l] = g[l]
    <2>1. Witness(g, D, f, FALSE)
      BY DEF Witness
    <2> QED  BY <1>2, <2>1, PushedWitness
  <1>5. j \in 1..Len(frs) /\ f[j] = frs[j]
    BY <1>1
  <1> DEFINE i == h[j]
  <1>6. i \in 1..Len(D) /\ i < Len(D) /\ g[j] = i
    BY <1>4, <1>5 DEF Witness
  <1>7. Fits(more, frs[j], D[i], Limit(more, D, "parseInfix", i))
    <2>1. Witness(h, D, frs, Busy("parseInfix"))
      BY <1>3, <1>4 DEF Witness
    <2> QED  BY <1>3, <1>5, <2>1 DEF LoopsFit
  <1>8. Limit(more, D, "parseInfix", i) = Limit(more, D, fn2, i)
    BY <1>6 DEF Limit
  <1> QED  BY <1>5, <1>6, <1>7, <1>8

-----------------------------------------------------------------------------
(* Steps that pop a context                                                *)

LEMMA PoppedContexts ==
  ASSUME NEW n \in Nat, NEW C \in Seq(Context), C # <<>>, Nested(n, C)
  PROVE  /\ Len(Pop(C)) = Len(C) - 1 /\ Len(C) \in Nat \ {0} /\ Top(C) = C[Len(C)]
         /\ \A i \in 1..(Len(C) - 1) : Pop(C)[i] = C[i]
         /\ Top(C).Index \in Nat
  <1>1. Top(C).Index \in Nat
    BY NestedBelow
  <1>2. /\ Len(Pop(C)) = Len(C) - 1
        /\ \A i \in 1..(Len(C) - 1) : Pop(C)[i] = C[i]
        /\ Len(C) \in Nat \ {0}
        /\ Top(C) = C[Len(C)]
    BY PopFacts
  <1> QED  BY <1>1, <1>2

LEMMA PopContexts ==
  ASSUME NEW nodes \in Seq(Node), NEW more \in Seq(Node),
         NEW C \in Seq(Context), C # <<>>, Nested(Len(nodes), C),
         Agree(nodes, more, Top(C).Index), ContextsFit(nodes, C)
  PROVE  ContextsFit(more, Pop(C))
  <1> DEFINE D == Pop(C)
  <1>1. /\ Len(D) = Len(C) - 1 /\ Len(C) \in Nat \ {0} /\ Top(C) = C[Len(C)]
        /\ \A i \in 1..(Len(C) - 1) : D[i] = C[i]
        /\ Top(C).Index \in Nat
    BY PoppedContexts
  <1> HIDE DEF D
  <1> SUFFICES ASSUME NEW i \in 1..Len(D) PROVE ContextFits(more, D[i])
    BY DEF ContextsFit, D
  <1>2. i \in 1..Len(C) /\ Len(C) \in 1..Len(C) /\ i < Len(C)
    BY <1>1
  <1>3. D[i] = C[i] /\ C[i] \in Context /\ ContextFits(nodes, C[i])
        /\ C[i].Index < Top(C).Index
    BY <1>1, <1>2 DEF ContextsFit, Nested
  <1>4. Opens(more, C[i]) <=> Opens(nodes, C[i])
    BY <1>1, <1>3, AgreeOpens
  <1> QED  BY <1>3, <1>4 DEF ContextFits

LEMMA PopGroups ==
  ASSUME NEW nodes \in Seq(Node), NEW more \in Seq(Node),
         NEW C \in Seq(Context), C # <<>>, Nested(Len(nodes), C),
         Agree(nodes, more, Top(C).Index), NEW G \in Seq(AnyCloser),
         GroupsOpen(nodes, C, G)
  PROVE  /\ ~Opens(nodes, Top(C)) => GroupsOpen(more, Pop(C), G)
         /\ Opens(nodes, Top(C)) => G # <<>> /\ GroupsOpen(more, Pop(C), Pop(G))
  <1> DEFINE D == Pop(C)
             n == Len(G)
             m == Len(C)
  <1>1. /\ Len(D) = m - 1 /\ m \in Nat \ {0} /\ Top(C) = C[m]
        /\ \A i \in 1..(m - 1) : D[i] = C[i]
        /\ Top(C).Index \in Nat /\ n \in Nat
    BY PoppedContexts
  <1> HIDE DEF D
  <1>2. PICK h \in [1..n -> 1..m] : Closes(h, nodes, C, G)
    BY DEF GroupsOpen
  <1>3. \A i \in 1..(m - 1) : /\ Opens(more, D[i]) <=> Opens(nodes, C[i])
                              /\ more[D[i].Index + 1] = nodes[C[i].Index + 1]
    <2> SUFFICES ASSUME NEW i \in 1..(m - 1)
                 PROVE  /\ Opens(more, D[i]) <=> Opens(nodes, C[i])
                        /\ more[D[i].Index + 1] = nodes[C[i].Index + 1]
      OBVIOUS
    <2>1. i \in 1..m /\ m \in 1..m /\ i < m
      BY <1>1
    <2>2. D[i] = C[i] /\ C[i] \in Context /\ C[i].Index < Top(C).Index
      BY <1>1, <2>1 DEF Nested
    <2> QED  BY <1>1, <2>2, AgreeOpens
  <1>4. \A j \in 1..n : /\ h[j] \in 1..m
                        /\ G[j] = GroupOpenerToCloser(nodes[C[h[j]].Index + 1].op)
    BY <1>2 DEF Closes
  <1>5. \A i \in 1..(m - 1) : i \in 1..m /\ i # m
    BY <1>1
  <1>6. m \in 1..m
    BY <1>1
  <1>7. ASSUME ~Opens(nodes, Top(C)) PROVE GroupsOpen(more, D, G)
    <2>1. ASSUME NEW j \in 1..n PROVE h[j] \in 1..(m - 1)
      <3>1. h[j] # m
        BY <1>1, <1>2, <1>6, <1>7 DEF Closes
      <3> QED  BY <1>1, <1>4, <3>1
    <2>2. h \in [1..n -> 1..Len(D)]
      BY <1>1, <1>2, <2>1
    <2>3. \A i \in 1..Len(D) : Opens(more, D[i]) <=> \E j \in 1..n : h[j] = i
      BY <1>1, <1>2, <1>3, <1>5 DEF Closes
    <2>4. \A j \in 1..n : G[j] = GroupOpenerToCloser(more[D[h[j]].Index + 1].op)
      BY <1>3, <1>4, <2>1
    <2>5. Closes(h, more, D, G)
      BY <1>2, <2>2, <2>3, <2>4 DEF Closes
    <2> QED  BY <2>2, <2>5 DEF GroupsOpen
  <1>8. ASSUME Opens(nodes, Top(C)) PROVE G # <<>> /\ GroupsOpen(more, D, Pop(G))
    <2>1. PICK k \in 1..n : h[k] = m
      BY <1>1, <1>2, <1>6, <1>8 DEF Closes
    <2>2. n \in 1..n /\ h[n] = m
      BY SMTT(30), <1>1, <1>2, <2>1, LastReachesTop DEF Closes
    <2>3. G # <<>>
      BY <2>2
    <2> DEFINE H == Pop(G)
               f == [j \in 1..(n - 1) |-> h[j]]
    <2>4. Len(H) = n - 1 /\ \A j \in 1..(n - 1) : H[j] = G[j]
      BY <2>3, PopFacts
    <2> HIDE DEF H
    <2>5. \A j \in 1..(n - 1) : j \in 1..n /\ j < n
      BY <1>1
    <2>6. ASSUME NEW j \in 1..(n - 1) PROVE h[j] \in 1..(m - 1)
      <3>1. h[j] < h[n]
        BY <1>2, <2>2, <2>5 DEF Closes
      <3>2. h[j] \in 1..m
        BY <1>4, <2>5
      <3> QED  BY <1>1, <2>2, <3>1, <3>2
    <2>7. \A j \in 1..(n - 1) : f[j] = h[j] /\ f[j] \in 1..Len(D)
      BY <1>1, <2>6
    <2>8. f \in [1..(n - 1) -> 1..Len(D)]
      BY <2>7
    <2> HIDE DEF f
    <2>9. \A i, j \in 1..(n - 1) : i < j => f[i] < f[j]
      BY <1>2, <2>5, <2>7 DEF Closes
    <2>10. \A i \in 1..Len(D) : Opens(more, D[i]) <=> \E j \in 1..(n - 1) : f[j] = i
      <3> SUFFICES ASSUME NEW i \in 1..(m - 1)
                   PROVE  Opens(more, D[i]) <=> \E j \in 1..(n - 1) : f[j] = i
        BY <1>1
      <3>1. Opens(more, D[i]) <=> \E j \in 1..n : h[j] = i
        BY <1>2, <1>3, <1>5 DEF Closes
      <3>2. \A j \in 1..n : h[j] = i => j \in 1..(n - 1)
        BY <1>1, <1>5, <2>2
      <3> QED  BY <2>5, <2>7, <3>1, <3>2
    <2>11. \A j \in 1..(n - 1) : H[j] = GroupOpenerToCloser(more[D[f[j]].Index + 1].op)
      BY ZenonT(40), <1>3, <1>4, <2>4, <2>5, <2>6, <2>7
    <2>12. Closes(f, more, D, H)
      BY <2>4, <2>8, <2>9, <2>10, <2>11 DEF Closes
    <2> QED  BY <2>3, <2>4, <2>8, <2>12 DEF GroupsOpen, H
  <1> QED  BY <1>7, <1>8 DEF D

LEMMA PopLoops ==
  ASSUME NEW nodes \in Seq(Node), NEW more \in Seq(Node),
         NEW C \in Seq(Context), C # <<>>, Nested(Len(nodes), C),
         Agree(nodes, more, Top(C).Index), Top(C).Index < Len(more),
         NEW frs \in Seq(Frame), NEW fn, NEW fn2, LoopsFit(nodes, C, frs, fn),
         Busy(fn), ~Busy(fn2)
  PROVE  LoopsFit(more, Pop(C), frs, fn2)
  <1> DEFINE D == Pop(C)
             m == Len(C)
  <1>1. /\ Len(D) = m - 1 /\ m \in Nat \ {0} /\ Top(C) = C[m]
        /\ \A i \in 1..(m - 1) : D[i] = C[i]
        /\ Top(C).Index \in Nat /\ Len(more) \in Nat
    BY PoppedContexts
  <1> HIDE DEF D
  <1> SUFFICES ASSUME NEW g \in [1..Len(frs) -> 1..Len(D)],
                      Witness(g, D, frs, Busy(fn2)),
                      NEW j \in 1..Len(frs), IsLoop(frs[j])
               PROVE  Fits(more, frs[j], D[g[j]], Limit(more, D, fn2, g[j]))
    BY DEF LoopsFit, D
  <1>2. \A l \in 1..Len(frs) : g[l] \in 1..(m - 1) /\ g[l] \in 1..m /\ g[l] < m
    BY <1>1
  <1>3. g \in [1..Len(frs) -> 1..m]
    BY <1>2
  <1>4. Owner(g, C, frs)
    BY <1>1, <1>2, <1>3 DEF Owner, Witness
  <1>5. AllOwned(g, C, m - 1)
    BY <1>1 DEF AllOwned, Witness
  <1>6. Witness(g, C, frs, Busy(fn))
    BY <1>2, <1>3, <1>4, <1>5 DEF Witness
  <1> DEFINE i == g[j]
  <1>7. i \in 1..(m - 1) /\ i \in 1..m /\ C[i] \in Context /\ D[i] = C[i]
    <2>1. i \in 1..(m - 1) /\ i \in 1..m
      BY <1>2
    <2> HIDE DEF i
    <2> QED  BY SMTT(30), <1>1, <2>1
  <1>8. Fits(nodes, frs[j], C[i], Limit(nodes, C, fn, i))
    BY <1>3, <1>6 DEF LoopsFit
  <1> HIDE DEF i
  <1>9. i < m /\ i + 1 \in 1..m /\ m \in 1..m /\ i + 1 \in Int
    BY <1>1, <1>7
  <1>10. /\ Limit(nodes, C, fn, i) = C[i + 1].Index
         /\ C[i + 1].Index \in Nat
         /\ i + 1 < m => C[i + 1].Index < Top(C).Index
         /\ i + 1 = m => C[i + 1].Index = Top(C).Index
         /\ C[i].Index < Top(C).Index
    BY <1>1, <1>7, <1>9, ContextIndex DEF Limit, Nested
  <1>11. C[i + 1].Index <= Top(C).Index
    BY <1>1, <1>9, <1>10
  <1>12. Limit(more, D, fn2, i) \in Int
         /\ C[i + 1].Index <= Limit(more, D, fn2, i)
    <2>1. CASE i < Len(D)
      <3>1. i + 1 \in 1..(m - 1)
        BY <1>1, <1>7, <2>1
      <3>2. Limit(more, D, fn2, i) = C[i + 1].Index
        BY <1>1, <2>1, <3>1 DEF Limit
      <3> QED  BY <1>10, <3>2
    <2>2. CASE ~(i < Len(D))
      <3>1. Limit(more, D, fn2, i) \in {Len(more), Len(more) - 1}
        BY <2>2 DEF Limit
      <3> QED  BY <1>1, <1>10, <1>11, <3>1
    <2> QED  BY <2>1, <2>2
  <1>13. Fits(more, frs[j], C[i], Limit(more, D, fn2, i))
    <2>1. Fits(nodes, frs[j], C[i], C[i + 1].Index)
      BY <1>8, <1>10
    <2> QED  BY SMTT(30), <1>1, <1>7, <1>10, <1>11, <1>12, <2>1, AgreeFits
  <1> QED  BY <1>7, <1>13 DEF i

-----------------------------------------------------------------------------
(* The ways in which an action acts.  Inv holds before and after it.        *)

\* Nodes are added at the top.
Grows(nodes, more) == Len(nodes) <= Len(more) /\ Agree(nodes, more, Len(nodes))

LEMMA GrowsSame == ASSUME NEW s \in Seq(Node) PROVE Grows(s, s)
  BY DEF Grows, Agree

LEMMA GrowsFurther ==
  ASSUME NEW s \in Seq(Node), NEW t \in Seq(Node), NEW u \in Seq(Node),
         Grows(s, t), Grows(t, u)
  PROVE  Grows(s, u)
  BY DEF Grows, Agree

LEMMA GrowsByOne ==
  ASSUME NEW s \in Seq(Node), NEW N \in Node
  PROVE  /\ Grows(s, Append(s, N)) /\ Len(Append(s, N)) = Len(s) + 1
         /\ Append(s, N)[Len(s) + 1] = N /\ Top(Append(s, N)) = N
         /\ Append(s, N) \in Seq(Node) /\ Len(s) \in Nat
  BY PushFacts, PopPush DEF Grows, Agree

LEMMA GrowsByMore ==
  ASSUME NEW s \in Seq(Node), NEW u \in Seq(Node)
  PROVE  /\ Grows(s, s \o u) /\ s \o u \in Seq(Node)
         /\ Len(s \o u) = Len(s) + Len(u)
         /\ \A i \in 1..Len(u) : (s \o u)[Len(s) + i] = u[i]
         /\ Len(s) \in Nat /\ Len(u) \in Nat
  <1>1. /\ s \o u \in Seq(Node) /\ Len(s \o u) = Len(s) + Len(u)
        /\ Len(s) \in Nat /\ Len(u) \in Nat
    OBVIOUS
  <1>2. \A i \in 1..(Len(s) + Len(u)) :
          (s \o u)[i] = IF i <= Len(s) THEN s[i] ELSE u[i - Len(s)]
    OBVIOUS
  <1>3. \A i \in 1..Len(s) : (s \o u)[i] = s[i]
    BY <1>1, <1>2
  <1>4. ASSUME NEW i \in 1..Len(u) PROVE (s \o u)[Len(s) + i] = u[i]
    <2>1. Len(s) + i \in 1..(Len(s) + Len(u)) /\ ~(Len(s) + i <= Len(s))
          /\ (Len(s) + i) - Len(s) = i
      BY <1>1
    <2> QED  BY <1>2, <2>1
  <1> QED  BY <1>1, <1>3, <1>4 DEF Grows, Agree

\* Functions that no context is theirs.
QuietFns == {"parsePrefix", "Parser_parseClimb", "Parser_tryContinue", "return",
             "concreteParse", "done"} \union ContextSensitiveFns

LEMMA FnFacts ==
  /\ \A fn \in QuietFns : ~Busy(fn) /\ LoopOf(fn) = "NULL"
  /\ \A fn \in RunningFns : Busy(fn)
  /\ Busy(InnerReduce) /\ LoopOf(InnerReduce) = "NULL"
  <1>1. ASSUME NEW fn \in QuietFns PROVE ~Busy(fn)
    <2>1. fn \notin RunningFns
      BY RunningFnsExclude DEF QuietFns
    <2>2. fn # InnerReduce
      BY DEF QuietFns, InnerReduce, ContextSensitiveFns
    <2> QED  BY <2>1, <2>2 DEF Busy
  <1>2. \A fn \in QuietFns \union {InnerReduce} : LoopOf(fn) = "NULL"
    BY DEF QuietFns, LoopOf, LoopFns, InnerReduce, ContextSensitiveFns
  <1> QED  BY <1>1, <1>2 DEF Busy

\* What Fitting says of the step from its parts.
LEMMA KeptByParts ==
  ASSUME ContextsFit(NodeStack', ContextStack'),
         GroupsOpen(NodeStack', ContextStack', GroupStack'),
         LoopsFit(NodeStack', ContextStack', frames', call'.fn),
         CallFits(NodeStack', call', Top(ContextStack'))
  PROVE  Fitting'
  BY DEF Fitting, Parser_topContext

LEMMA FittingParts ==
  ASSUME Inv, Fitting
  PROVE  /\ ContextsFit(NodeStack, ContextStack)
         /\ GroupsOpen(NodeStack, ContextStack, GroupStack)
         /\ LoopsFit(NodeStack, ContextStack, frames, call.fn)
         /\ CallFits(NodeStack, call, Parser_topContext)
         /\ NodeStack \in Seq(Node) /\ ContextStack \in Seq(Context)
         /\ GroupStack \in Seq(AnyCloser) /\ frames \in Seq(Frame) /\ call \in Call
         /\ Nested(Len(NodeStack), ContextStack) /\ Len(NodeStack) \in Nat
         /\ ContextStack # <<>> =>
              /\ Parser_topContext = Top(ContextStack) /\ Parser_topContext \in Context
              /\ ContextFits(NodeStack, Parser_topContext)
              /\ Parser_topContext.Index \in Nat
              /\ Parser_topContext.Index < Len(NodeStack)
  <1>1. Nested(Len(NodeStack), ContextStack)
    BY StacksAreNested
  <1>2. ASSUME ContextStack # <<>>
        PROVE  /\ Parser_topContext = Top(ContextStack) /\ Parser_topContext \in Context
               /\ ContextFits(NodeStack, Parser_topContext)
               /\ Parser_topContext.Index \in Nat
               /\ Parser_topContext.Index < Len(NodeStack)
    <2>1. /\ Len(ContextStack) \in 1..Len(ContextStack)
          /\ Top(ContextStack) = ContextStack[Len(ContextStack)]
          /\ Top(ContextStack) \in Context
      BY <1>2, StackTypes, PopFacts
    <2>2. ContextStack[Len(ContextStack)].Index < Len(NodeStack)
      BY <1>1, <2>1 DEF Nested
    <2> QED  BY <2>1, <2>2, ContextFields DEF Fitting, ContextsFit, Parser_topContext
  <1> QED  BY <1>1, <1>2, StackTypes DEF Fitting

\* The contexts with another one on top.
LEMMA TopLevel ==
  ASSUME Inv, ContextStack # <<>>, NEW ctxt \in Context,
         ctxt.Index = Parser_topContext.Index, ContextStack' = TopContext(ctxt)
  PROVE  Level(ContextStack, ContextStack') /\ Top(ContextStack') = ctxt
  <1>1. ContextStack \in Seq(Context) /\ Len(ContextStack) \in Nat \ {0}
    BY StackTypes, PopFacts
  <1>2. /\ Len(ContextStack') = Len(ContextStack)
        /\ ContextStack'[Len(ContextStack)] = ctxt
        /\ \A i \in 1..(Len(ContextStack) - 1) : ContextStack'[i] = ContextStack[i]
    BY <1>1 DEF TopContext
  <1>3. \A i \in 1..Len(ContextStack) : ContextStack'[i].Index = ContextStack[i].Index
    BY <1>1, <1>2 DEF Parser_topContext, Top
  <1> QED  BY <1>2, <1>3 DEF Level, Top

LEMMA SameLevel == ASSUME NEW C PROVE Level(C, C)
  BY DEF Level

\* No context is pushed or popped, and no frame.
LEMMA LevelKept ==
  ASSUME Inv, Inv', Fitting, Grows(NodeStack, NodeStack'),
         Level(ContextStack, ContextStack'), UNCHANGED <<GroupStack, frames>>,
         ContextStack # <<>> => ContextFits(NodeStack', Top(ContextStack')),
         Busy(call.fn) /\ ~Busy(call'.fn) =>
           ContextStack # <<>> /\ Top(ContextStack').F \notin Unnamed,
         ~Busy(call.fn) /\ Busy(call'.fn) =>
           ContextStack # <<>> /\ Top(ContextStack).F \notin Unnamed,
         ~Busy(call.fn) /\ ~Busy(call'.fn) =>
           /\ ContextStack' = ContextStack
           /\ call'.fn # "parsePrefix"
           /\ call.fn = "parsePrefix" => Len(NodeStack) < Len(NodeStack'),
         CallFits(NodeStack', call', Top(ContextStack'))
  PROVE  Fitting'
  <1>1. NodeStack' \in Seq(Node) /\ ContextStack' \in Seq(Context)
    BY StackTypes, Zenon DEF Inv, TypeOK
  <1>2. ContextsFit(NodeStack', ContextStack')
    BY <1>1, FittingParts, LevelContexts DEF Grows
  <1>3. GroupsOpen(NodeStack', ContextStack', GroupStack')
    BY <1>1, FittingParts, LevelGroups DEF Grows
  <1>4. LoopsFit(NodeStack', ContextStack', frames', call'.fn)
    BY <1>1, FittingParts, LevelLoops DEF Grows
  <1> QED  BY <1>2, <1>3, <1>4, KeptByParts

\* No context, group or frame changes, and none runs.
LEMMA QuietKept ==
  ASSUME Inv, Inv', Fitting, Grows(NodeStack, NodeStack'),
         UNCHANGED <<ContextStack, GroupStack, frames>>,
         call.fn \in QuietFns, call'.fn \in QuietFns \ {"parsePrefix"},
         call.fn = "parsePrefix" => Len(NodeStack) < Len(NodeStack'),
         CallFits(NodeStack', call', Parser_topContext)
  PROVE  Fitting'
  <1>1. ~Busy(call.fn) /\ ~Busy(call'.fn)
    BY FnFacts
  <1>2. ContextStack' = ContextStack /\ UNCHANGED <<GroupStack, frames>>
    OBVIOUS
  <1>3. ASSUME ContextStack # <<>> PROVE ContextFits(NodeStack', Top(ContextStack'))
    <2> DEFINE ctxt == Top(ContextStack)
    <2>1. /\ ctxt \in Context /\ ContextFits(NodeStack, ctxt)
          /\ ctxt.Index < Len(NodeStack) /\ Len(NodeStack) \in Nat
      BY <1>3, FittingParts
    <2> HIDE DEF ctxt
    <2>2. Opens(NodeStack', ctxt) <=> Opens(NodeStack, ctxt)
      BY <2>1, AgreeOpens DEF Grows
    <2>3. ContextFits(NodeStack', ctxt)
      BY <2>1, <2>2 DEF ContextFits
    <2> QED  BY <1>2, <2>3 DEF ctxt
  <1>4. CallFits(NodeStack', call', Top(ContextStack'))
    BY <1>2 DEF Parser_topContext
  <1>5. call'.fn # "parsePrefix"
    OBVIOUS
  <1> QED  BY <1>1, <1>2, <1>3, <1>4, <1>5, SameLevel, LevelKept

\* A function gives its context a continuation and calls its operand's parselet.
LEMMA OperandKept ==
  ASSUME Inv, Inv', Fitting, call.fn \in RunningFns, NEW ctxt \in Context,
         ctxt.Index = Parser_topContext.Index, ContextStack' = TopContext(ctxt),
         Grows(NodeStack, NodeStack'), UNCHANGED <<GroupStack, frames>>,
         ctxt.F \notin Unnamed, ContextFits(NodeStack', ctxt),
         call'.fn = "parsePrefix", CallFits(NodeStack', call', ctxt)
  PROVE  Fitting'
  <1>1. ContextStack # <<>>
    BY RunningType
  <1>2. Level(ContextStack, ContextStack') /\ Top(ContextStack') = ctxt
    BY <1>1, TopLevel
  <1>3. Busy(call.fn)
    BY FnFacts
  <1> QED  BY <1>1, <1>2, <1>3, LevelKept

\* A function goes on in its context.
LEMMA StayKept ==
  ASSUME Inv, Inv', Fitting, call.fn \in RunningFns, NEW ctxt \in Context,
         ctxt.Index = Parser_topContext.Index, ContextStack' = TopContext(ctxt),
         Grows(NodeStack, NodeStack'), UNCHANGED <<GroupStack, frames>>,
         ContextFits(NodeStack', ctxt), call'.fn \in RunningFns,
         CallFits(NodeStack', call', ctxt)
  PROVE  Fitting'
  <1>1. ContextStack # <<>>
    BY RunningType
  <1>2. Level(ContextStack, ContextStack') /\ Top(ContextStack') = ctxt
    BY <1>1, TopLevel
  <1>3. Busy(call.fn) /\ Busy(call'.fn)
    BY FnFacts
  <1> QED  BY <1>1, <1>2, <1>3, LevelKept

\* A loop calls its operand's parselet, natively in the default build.
LEMMA LoopOperandKept ==
  ASSUME Inv, Inv', Fitting, call.fn \in RunningFns, NEW ctxt \in Context,
         ctxt.Index = Parser_topContext.Index, ContextStack' = TopContext(ctxt),
         NEW loop \in LoopFns, NEW P \in Parselet, P.class \in ClassesFor(loop),
         ctxt.F = LoopF(loop), LoopCall(loop, P), UNCHANGED GroupStack,
         Grows(NodeStack, NodeStack'), ContextFits(NodeStack', ctxt),
         ~USE_MUSTTAIL => Fits(NodeStack', [fn |-> loop, P |-> P], ctxt, Len(NodeStack')),
         call'.fn = "parsePrefix", CallFits(NodeStack', call', ctxt)
  PROVE  Fitting'
  <1>1. ContextStack # <<>>
    BY RunningType
  <1>2. Level(ContextStack, ContextStack') /\ Top(ContextStack') = ctxt
    BY <1>1, TopLevel
  <1>3. Busy(call.fn) /\ ~Busy(call'.fn)
    BY FnFacts DEF QuietFns
  <1>4. CASE USE_MUSTTAIL
    <2>1. ctxt.F \notin Unnamed /\ UNCHANGED frames
      BY <1>4 DEF LoopCall, LoopF, LoopFns, Unnamed
    <2> QED  BY <2>1, OperandKept
  <1>5. CASE ~USE_MUSTTAIL
    <2> DEFINE frame == [fn |-> loop, P |-> P]
    <2>1. frames' = Append(frames, frame) /\ ctxt.F = "Parser_identity"
      BY <1>5 DEF LoopCall, NativeCall, LoopF
    <2>2. frame \in Frame
      BY DEF Frame, Fns
    <2>3. NodeStack' \in Seq(Node) /\ ContextStack' \in Seq(Context)
      BY StackTypes, Zenon DEF Inv, TypeOK
    <2>4. Limit(NodeStack', ContextStack', call'.fn, Len(ContextStack'))
             = Len(NodeStack')
      BY <2>3 DEF Limit
    <2>5. ContextsFit(NodeStack', ContextStack')
      BY <1>2, <2>3, FittingParts, LevelContexts DEF Grows
    <2>6. GroupsOpen(NodeStack', ContextStack', GroupStack')
      BY <1>2, <2>3, FittingParts, LevelGroups DEF Grows
    <2> HIDE DEF frame
    <2>7. Fits(NodeStack', frame, Top(ContextStack'),
               Limit(NodeStack', ContextStack', call'.fn, Len(ContextStack')))
      BY <1>2, <1>5, <2>4 DEF frame
    <2>8. LoopsFit(NodeStack', ContextStack', Append(frames, frame), call'.fn)
      BY <1>1, <1>2, <1>3, <2>1, <2>2, <2>3, <2>7, FittingParts, CallLoops DEF Grows
    <2>9. LoopsFit(NodeStack', ContextStack', frames', call'.fn)
      BY <2>1, <2>8
    <2> QED  BY <1>2, <2>5, <2>6, <2>9, KeptByParts
  <1> QED  BY <1>4, <1>5

\* The top context is popped, its nodes are replaced by one.
LEMMA PopKept ==
  ASSUME Inv, Inv', Fitting, call.fn \in RunningFns \union {InnerReduce},
         ContextStack # <<>>, ContextStack' = Pop(ContextStack),
         Len(NodeStack') = Parser_topContext.Index + 1,
         Agree(NodeStack, NodeStack', Parser_topContext.Index), UNCHANGED frames,
         GroupStack' = IF call.fn \in GroupFns THEN Pop(GroupStack) ELSE GroupStack,
         call'.fn \in QuietFns, CallFits(NodeStack', call', Top(ContextStack'))
  PROVE  Fitting'
  <1>1. NodeStack' \in Seq(Node) /\ ContextStack' \in Seq(Context)
    BY StackTypes, Zenon DEF Inv, TypeOK
  <1>2. Busy(call.fn) /\ ~Busy(call'.fn)
    BY FnFacts
  <1>3. /\ Parser_topContext = Top(ContextStack) /\ Parser_topContext.Index \in Nat
        /\ ContextFits(NodeStack, Top(ContextStack))
        /\ Nested(Len(NodeStack), ContextStack)
    BY FittingParts
  <1>4. Opens(NodeStack, Top(ContextStack)) <=> call.fn \in GroupFns
    BY <1>2, <1>3, FittingParts DEF ContextFits, CallFits, TopFits
  <1>5. ContextsFit(NodeStack', ContextStack')
    BY <1>1, <1>3, FittingParts, PopContexts
  <1>6. GroupsOpen(NodeStack', ContextStack', GroupStack')
    <2>1. /\ ~Opens(NodeStack, Top(ContextStack)) =>
               GroupsOpen(NodeStack', ContextStack', GroupStack)
          /\ Opens(NodeStack, Top(ContextStack)) =>
               GroupsOpen(NodeStack', ContextStack', Pop(GroupStack))
      BY <1>1, <1>3, FittingParts, PopGroups
    <2> QED  BY <1>4, <2>1
  <1>7. Top(ContextStack).Index < Len(NodeStack')
    BY <1>3
  <1>8. LoopsFit(NodeStack', ContextStack', frames', call'.fn)
    <2>1. LoopsFit(NodeStack', Pop(ContextStack), frames, call'.fn)
      BY <1>1, <1>2, <1>3, <1>7, FittingParts, PopLoops
    <2> QED  BY <2>1
  <1> QED  BY <1>5, <1>6, <1>8, KeptByParts

\* The place below which the operand that is called for, or is complete, ends.
LEMMA QuietLimit ==
  ASSUME Inv, Fitting, call.fn \in QuietFns, ContextStack # <<>>
  PROVE  Limit(NodeStack, ContextStack, call.fn, Len(ContextStack)) =
           IF Calling("parsePrefix") THEN Len(NodeStack) ELSE Len(NodeStack) - 1
  <1>1. Len(ContextStack) \in Nat
    BY FittingParts
  <1> QED  BY <1>1 DEF Limit, Calling

\* A context is pushed.
LEMMA PushKept ==
  ASSUME Inv, Inv', Fitting, call.fn \in QuietFns, NEW ctxt \in Context,
         ctxt.Index = Len(NodeStack)
           \/ (~Calling("parsePrefix") /\ ctxt.Index = Len(NodeStack) - 1),
         ContextStack' = Append(ContextStack, ctxt), Grows(NodeStack, NodeStack'),
         UNCHANGED frames, ContextFits(NodeStack', ctxt),
         GroupMark(ctxt) =>
           \E closer \in AnyCloser :
             /\ closer = GroupOpenerToCloser(NodeStack'[ctxt.Index + 1].op)
             /\ GroupStack' = Append(GroupStack, closer),
         ~GroupMark(ctxt) => UNCHANGED GroupStack,
         call'.fn \in RunningFns \union {InnerReduce} \/ ctxt.F \notin Unnamed,
         CallFits(NodeStack', call', ctxt)
  PROVE  Fitting'
  <1>1. NodeStack' \in Seq(Node) /\ ContextStack' \in Seq(Context)
    BY StackTypes, Zenon DEF Inv, TypeOK
  <1>2. ~Busy(call.fn) /\ (Busy(call'.fn) \/ ctxt.F \notin Unnamed)
    BY FnFacts
  <1>3. Top(ContextStack') = ctxt
    BY FittingParts, PopPush
  <1>4. ContextsFit(NodeStack', ContextStack')
    <2>1. ContextsFit(NodeStack', Append(ContextStack, ctxt))
      BY <1>1, FittingParts, PushContexts DEF Grows
    <2> QED  BY <2>1
  <1>5. GroupsOpen(NodeStack', ContextStack', GroupStack')
    <2>1. /\ ~Opens(NodeStack', ctxt) =>
               GroupsOpen(NodeStack', Append(ContextStack, ctxt), GroupStack)
          /\ \A closer \in AnyCloser :
               Opens(NodeStack', ctxt)
                 /\ closer = GroupOpenerToCloser(NodeStack'[ctxt.Index + 1].op) =>
               GroupsOpen(NodeStack', Append(ContextStack, ctxt),
                          Append(GroupStack, closer))
      BY <1>1, FittingParts, PushGroups DEF Grows
    <2>2. GroupMark(ctxt) <=> Opens(NodeStack', ctxt)
      BY DEF ContextFits
    <2>3. CASE GroupMark(ctxt)
      BY <2>1, <2>2, <2>3
    <2>4. CASE ~GroupMark(ctxt)
      BY <2>1, <2>2, <2>4
    <2> QED  BY <2>3, <2>4
  <1>6. ContextStack # <<>> =>
          Limit(NodeStack, ContextStack, call.fn, Len(ContextStack)) <= ctxt.Index
    <2>1. ctxt.Index \in Nat
      BY ContextFields
    <2> QED  BY <2>1, QuietLimit, FittingParts
  <1>7. LoopsFit(NodeStack', ContextStack', frames', call'.fn)
    <2>1. LoopsFit(NodeStack', Append(ContextStack, ctxt), frames, call'.fn)
      BY <1>1, <1>2, <1>6, FittingParts, PushLoops DEF Grows
    <2> QED  BY <2>1
  <1> QED  BY <1>3, <1>4, <1>5, <1>7, KeptByParts

\* The next part of a pattern is read natively, in a context of its own.
LEMMA PushPatternKept ==
  ASSUME Inv, Inv', Fitting, call.fn \in QuietFns, NEW ctxt \in Context,
         ctxt.Index = Len(NodeStack)
           \/ (~Calling("parsePrefix") /\ ctxt.Index = Len(NodeStack) - 1),
         ctxt.F = "NULL", ContextStack' = Append(ContextStack, ctxt),
         Grows(NodeStack, NodeStack'), UNCHANGED GroupStack,
         NEW frame \in Frame, ~IsLoop(frame), frames' = Append(frames, frame),
         ContextFits(NodeStack', ctxt), call'.fn \in QuietFns,
         CallFits(NodeStack', call', ctxt)
  PROVE  Fitting'
  <1>1. NodeStack' \in Seq(Node) /\ ContextStack' \in Seq(Context)
    BY StackTypes, Zenon DEF Inv, TypeOK
  <1>2. ~Busy(call.fn) /\ ~Busy(call'.fn)
    BY FnFacts
  <1>3. Top(ContextStack') = ctxt
    BY FittingParts, PopPush
  <1>4. ContextsFit(NodeStack', ContextStack')
    <2>1. ContextsFit(NodeStack', Append(ContextStack, ctxt))
      BY <1>1, FittingParts, PushContexts DEF Grows
    <2> QED  BY <2>1
  <1>5. GroupsOpen(NodeStack', ContextStack', GroupStack')
    <2>1. ~Opens(NodeStack', ctxt)
      BY DEF ContextFits, GroupMark
    <2>2. GroupsOpen(NodeStack', Append(ContextStack, ctxt), GroupStack)
      BY <1>1, <2>1, FittingParts, PushGroups DEF Grows
    <2> QED  BY <2>2
  <1>6. ContextStack # <<>> =>
          Limit(NodeStack, ContextStack, call.fn, Len(ContextStack)) <= ctxt.Index
    <2>1. ctxt.Index \in Nat
      BY ContextFields
    <2> QED  BY <2>1, QuietLimit, FittingParts
  <1>7. LoopsFit(NodeStack', ContextStack', frames', call'.fn)
    <2>1. LoopsFit(NodeStack', Append(ContextStack, ctxt), Append(frames, frame), call'.fn)
      BY <1>1, <1>2, <1>6, FittingParts, PushPattern DEF Grows
    <2> QED  BY <2>1
  <1> QED  BY <1>3, <1>4, <1>5, <1>7, KeptByParts

-----------------------------------------------------------------------------
(* The calls                                                               *)

\* A running function gives its context another continuation.
LEMMA StillFits ==
  ASSUME Inv, Fitting, call.fn \in RunningFns, NEW ctxt \in Context,
         ctxt.Index = Parser_topContext.Index, Grows(NodeStack, NodeStack'),
         GroupMark(ctxt) <=> call.fn \in GroupFns,
         ctxt.F \in GroupFns => GroupMark(ctxt),
         ctxt.F \in PlainLoops => ctxt.P = NoParselet
  PROVE  ContextFits(NodeStack', ctxt)
  <1>1. Busy(call.fn) /\ ContextStack # <<>>
    BY RunningType, FnFacts
  <1> DEFINE old == Parser_topContext
  <1>2. /\ old \in Context /\ ContextFits(NodeStack, old)
        /\ old.Index < Len(NodeStack) /\ Len(NodeStack) \in Nat
        /\ GroupMark(old) <=> call.fn \in GroupFns
    BY <1>1, FittingParts DEF CallFits, TopFits
  <1> HIDE DEF old
  <1>3. Opens(NodeStack', ctxt) <=> Opens(NodeStack, ctxt)
    BY <1>2, AgreeOpens DEF Grows, old
  <1>4. Opens(NodeStack, ctxt) <=> Opens(NodeStack, old)
    BY DEF Opens, old
  <1> QED  BY <1>2, <1>3, <1>4 DEF ContextFits

\* A context of no group is entered at a node that opens none.
LEMMA EnteredFits ==
  ASSUME NEW nodes, NEW ctxt, ctxt.F \notin GroupFns \union PlainLoops,
         ~GroupMark(ctxt), ~LeafIn(nodes[ctxt.Index + 1], Openers)
  PROVE  ContextFits(nodes, ctxt)
  BY DEF ContextFits, Opens

LEMMA QuietCallFits ==
  ASSUME NEW nodes, NEW c, NEW ctxt,
         c.fn \in {"Parser_tryContinue", "return", "concreteParse", "done"}
  PROVE  CallFits(nodes, c, ctxt)
  <1>1. ~Busy(c.fn) /\ LoopOf(c.fn) = "NULL"
    BY FnFacts DEF QuietFns
  <1> QED  BY <1>1 DEF CallFits, TopFits, ArgumentsFit, NodesFit, LoopFns, PartLoops,
                       TagFns, ContextSensitiveFns

LEMMA ClimbFits ==
  ASSUME NEW nodes, NEW c, NEW ctxt, c.fn = "Parser_parseClimb",
         ~LeafIn(Top(nodes), Openers)
  PROVE  CallFits(nodes, c, ctxt)
  <1>1. ~Busy(c.fn) /\ LoopOf(c.fn) = "NULL"
    BY FnFacts DEF QuietFns
  <1> QED  BY <1>1 DEF CallFits, TopFits, ArgumentsFit, NodesFit, LoopFns, PartLoops,
                       TagFns, ContextSensitiveFns

LEMMA ReadingFits ==
  ASSUME NEW nodes, NEW c, NEW ctxt, c.fn \in ContextSensitiveFns, c.tok.op \notin Openers
  PROVE  CallFits(nodes, c, ctxt)
  <1>1. ~Busy(c.fn) /\ LoopOf(c.fn) = "NULL"
    BY FnFacts DEF QuietFns
  <1> QED  BY <1>1 DEF CallFits, TopFits, ArgumentsFit, NodesFit, LoopFns, PartLoops,
                       TagFns, ContextSensitiveFns

LEMMA PrefixFits ==
  ASSUME NEW nodes, NEW c, NEW ctxt, c.fn = "parsePrefix",
         c.P.class = "Group" <=> c.tok.op \in Openers,
         c.P.class = "Group" => c.P.closer = GroupOpenerToCloser(c.tok.op)
  PROVE  CallFits(nodes, c, ctxt)
  <1>1. ~Busy(c.fn) /\ LoopOf(c.fn) = "NULL"
    BY FnFacts DEF QuietFns
  <1> QED  BY <1>1 DEF CallFits, TopFits, ArgumentsFit, NodesFit, LoopFns, PartLoops,
                       TagFns, ContextSensitiveFns

LEMMA ParsePrefixFits ==
  ASSUME NEW t, t.op \in LeafKinds, ParsePrefix(t), NEW nodes, NEW ctxt
  PROVE  call'.fn = "parsePrefix" /\ CallFits(nodes, call', ctxt)
  <1>1. /\ prefixParselets[t.op].class = "Group" <=> t.op \in Openers
        /\ t.op \in Openers => prefixParselets[t.op].closer = GroupOpenerToCloser(t.op)
    BY OperatorTablesAssumption
  <1>2. call'.fn = "parsePrefix" /\ call'.P = prefixParselets[t.op] /\ call'.tok = t
    BY DEF ParsePrefix, Jump
  <1> QED  BY <1>1, <1>2, PrefixFits

\* The functions that run and expect nothing of their context but its group.
LEMMA ReduceFits ==
  ASSUME NEW nodes, NEW c, NEW ctxt, c.fn \in RunningFns \union {InnerReduce},
         c.fn \notin LoopFns \union PartLoops \union TagFns
                       \union {"parseInfix", "SemiSemiParselet_parse1"},
         GroupMark(ctxt) <=> c.fn \in GroupFns,
         IsIdentity(ctxt) => LoopOf(c.fn) # "NULL",
         LoopOf(c.fn) # "NULL" /\ IsIdentity(ctxt) =>
           Fits(nodes, [fn |-> LoopOf(c.fn), P |-> c.P], ctxt, Len(nodes) - 1)
  PROVE  CallFits(nodes, c, ctxt)
  <1>1. c.fn \notin QuietFns
    BY FnFacts
  <1> QED  BY <1>1 DEF CallFits, TopFits, ArgumentsFit, NodesFit, QuietFns

\* Its own context is what a reduction is called in.
LEMMA ReducesLoop ==
  \A fn \in ReduceFns : fn \notin LoopFns \union PartLoops \union TagFns
                                  \union {"parseInfix", "SemiSemiParselet_parse1"}
  BY DEF ReduceFns, LoopFns, PartLoops, TagFns

\* The top context, for the function that runs in it.
LEMMA TopOfRunning ==
  ASSUME Inv, Fitting, call.fn \in RunningFns
  PROVE  /\ ContextStack # <<>> /\ Parser_topContext \in Context
         /\ Parser_topContext \in BuildContext
         /\ ContextFits(NodeStack, Parser_topContext)
         /\ GroupMark(Parser_topContext) <=> call.fn \in GroupFns
         /\ TopFits(call, Parser_topContext) /\ ArgumentsFit(call)
         /\ NodesFit(NodeStack, call, Parser_topContext)
         /\ Parser_topContext.Index \in Nat
         /\ Parser_topContext.Index < Len(NodeStack)
         /\ Len(NodeStack) \in Nat
  <1>1. ContextStack # <<>> /\ Parser_topContext \in BuildContext /\ Busy(call.fn)
    BY RunningType, FnFacts
  <1> QED  BY <1>1, FittingParts DEF CallFits, TopFits

-----------------------------------------------------------------------------
(* Parser.cpp and the head of the loop                                     *)

LEMMA FittingInit == Init => Fitting
  <1> SUFFICES ASSUME Init PROVE Fitting
    OBVIOUS
  <1>1. ContextsFit(NodeStack, ContextStack)
    BY DEF Init, ContextsFit
  <1>2. GroupsOpen(NodeStack, ContextStack, GroupStack)
    <2> DEFINE h == [j \in 1..Len(GroupStack) |-> 1]
    <2>1. Len(GroupStack) = 0 /\ Len(ContextStack) = 0
      BY DEF Init
    <2>2. h \in [1..Len(GroupStack) -> 1..Len(ContextStack)]
      BY <2>1
    <2>3. Closes(h, NodeStack, ContextStack, GroupStack)
      BY <2>1, <2>2 DEF Closes
    <2> QED  BY <2>2, <2>3 DEF GroupsOpen
  <1>3. LoopsFit(NodeStack, ContextStack, frames, call.fn)
    BY DEF Init, LoopsFit
  <1>4. call.fn = "concreteParse"
    BY DEF Init
  <1> QED  BY <1>1, <1>2, <1>3, <1>4, QuietCallFits DEF Fitting

LEMMA FittingStutter == Inv /\ Inv' /\ Fitting /\ UNCHANGED vars => Fitting'
  <1> SUFFICES ASSUME Inv, Inv', Fitting, UNCHANGED vars PROVE Fitting'
    OBVIOUS
  <1>1. Parser_topContext' = Parser_topContext
    BY DEF vars, Parser_topContext
  <1> QED  BY <1>1 DEF vars, Fitting

LEMMA FittingAbort == Inv /\ Inv' /\ Fitting /\ Abort => Fitting'
  <1> SUFFICES ASSUME Inv, Inv', Fitting, Abort PROVE Fitting'
    OBVIOUS
  <1>1. UNCHANGED <<NodeStack, ContextStack, GroupStack, call, frames>>
    BY DEF Abort
  <1>2. Parser_topContext' = Parser_topContext
    BY <1>1 DEF Parser_topContext
  <1> QED  BY <1>1, <1>2 DEF Fitting

LEMMA Unchanged ==
  ASSUME Inv, UNCHANGED NodeStack PROVE Grows(NodeStack, NodeStack')
  <1>1. NodeStack \in Seq(Node)
    BY StackTypes
  <1> QED  BY <1>1, GrowsSame

\* Closers open nothing.
LEMMA ClosersOpenNothing ==
  /\ CloserTokens \intersect Openers = {} /\ Trivia \intersect Openers = {}
  /\ Errors \intersect Openers = {} /\ Fakes \intersect Openers = {}
  /\ prefixToplevelCloserParselet.class # "Group"
  BY DEF CloserTokens, Openers, PossibleBeginningOpeners, Trivia, Newlines, Errors,
         TokenizerErrors, ParserErrors, Fakes, prefixToplevelCloserParselet, New

LEMMA concreteParseFits == Inv /\ Inv' /\ Fitting /\ concreteParse => Fitting'
  <1> SUFFICES ASSUME Inv, Inv', Fitting, concreteParse PROVE Fitting'
    OBVIOUS
  <1> DEFINE peek == Tokenizer_currentToken(buffer)
  <1>1. peek \in Token /\ peek.op \in LeafKinds
    BY StackTypes, TokenAt
  <1>2. ContextStack = <<>> /\ frames = <<>> /\ Calling("concreteParse")
    BY HeadType DEF concreteParse
  <1>3. UNCHANGED <<NodeStack, ContextStack, GroupStack, frames>>
    BY DEF concreteParse
  <1>4. CallFits(NodeStack', call', Parser_topContext)
    <2>1. CASE call' = call
      BY <1>2, <2>1, QuietCallFits DEF Calling
    <2>2. CASE Goto("done")
      BY <2>2, QuietCallFits DEF Goto, Jump
    <2>3. CASE peek.op \in CloserTokens
                 /\ Jump("parsePrefix", prefixToplevelCloserParselet, peek)
      <3>1. /\ call'.fn = "parsePrefix" /\ call'.P = prefixToplevelCloserParselet
            /\ call'.tok = peek
        BY <2>3 DEF Jump
      <3>2. call'.P.class # "Group" /\ call'.tok.op \notin Openers
        BY <2>3, <3>1, ClosersOpenNothing
      <3> QED  BY <3>1, <3>2, PrefixFits
    <2>4. CASE ParsePrefix(peek)
      BY <1>1, <2>4, ParsePrefixFits
    <2> HIDE DEF peek
    <2> QED  BY <2>1, <2>2, <2>3, <2>4 DEF concreteParse, peek
  <1>5. ContextsFit(NodeStack', ContextStack')
    BY <1>2, <1>3 DEF ContextsFit
  <1>6. GroupsOpen(NodeStack', ContextStack', GroupStack')
    BY <1>3 DEF Fitting
  <1>7. LoopsFit(NodeStack', ContextStack', frames', call'.fn)
    BY <1>2, <1>3 DEF LoopsFit
  <1>8. CallFits(NodeStack', call', Top(ContextStack'))
    BY <1>3, <1>4 DEF Parser_topContext
  <1> QED  BY <1>5, <1>6, <1>7, <1>8, KeptByParts

LEMMA concreteParse_pushFits == Inv /\ Inv' /\ Fitting /\ concreteParse_push => Fitting'
  <1> SUFFICES ASSUME Inv, Inv', Fitting, concreteParse_push PROVE Fitting'
    OBVIOUS
  <1>1. UNCHANGED <<ContextStack, GroupStack, frames>> /\ frames = <<>>
        /\ call'.fn = "concreteParse"
    BY DEF concreteParse_push, Goto, Jump
  <1>2. ContextStack = <<>>
    <2>1. Returning(Len(NodeStack), ContextStack, <<>>)
      BY <1>1, StackTypes DEF concreteParse_push, Calling, Discipline
    <2> QED  BY <2>1, StackTypes, ReturnToTop
  <1>3. ContextsFit(NodeStack', ContextStack')
    BY <1>1, <1>2 DEF ContextsFit
  <1>4. GroupsOpen(NodeStack', ContextStack', GroupStack')
    <2>1. PICK h \in [1..Len(GroupStack) -> 1..Len(ContextStack)] :
            Closes(h, NodeStack, ContextStack, GroupStack)
      BY DEF Fitting, GroupsOpen
    <2>2. Len(ContextStack) = 0 /\ Len(GroupStack) \in Nat
      BY <1>2, StackTypes
    <2>3. \A j \in 1..Len(GroupStack) : FALSE
      BY <2>1, <2>2
    <2>4. Closes(h, NodeStack', ContextStack, GroupStack)
      BY <2>1, <2>2, <2>3 DEF Closes
    <2> QED  BY <1>1, <2>4 DEF GroupsOpen
  <1>5. LoopsFit(NodeStack', ContextStack', frames', call'.fn)
    BY <1>1 DEF LoopsFit
  <1>6. CallFits(NodeStack', call', Top(ContextStack'))
    BY <1>1, QuietCallFits
  <1> QED  BY <1>3, <1>4, <1>5, <1>6, KeptByParts

\* Trivia that follow nodes.
LEMMA GrowsByTrivia ==
  ASSUME Inv, NEW s \in Seq(Node), NEW p \in 0..Len(input), NEW q \in p..Len(input),
         NEW toks, \A r \in p..(q - 1) : KindAt(r) \in toks
  PROVE  /\ Grows(s, s \o TriviaTokens(p, q)) /\ s \o TriviaTokens(p, q) \in Seq(Node)
         /\ \A k \in (Len(s) + 1)..Len(s \o TriviaTokens(p, q)) :
              LeafIn((s \o TriviaTokens(p, q))[k], toks)
  <1> DEFINE u == TriviaTokens(p, q)
  <1>1. input \in Seq(SourceTokens) /\ p \in Nat /\ q \in Nat /\ p <= q
        /\ Len(input) \in Nat
    BY StackTypes
  <1>2. u \in Seq(Token) /\ Len(u) = q - p
    BY <1>1, TriviaType
  <1>3. u \in Seq(Node)
    BY <1>2, TokensAreNodes
  <1>4. ASSUME NEW i \in 1..Len(u) PROVE LeafIn(u[i], toks)
    <2>1. i \in 1..(q - p) /\ p + i - 1 \in p..(q - 1)
      BY <1>1, <1>2
    <2>2. u[i] = Tokenizer_currentToken(p + i - 1)
      BY <2>1 DEF TriviaTokens
    <2> QED  BY <2>1, <2>2 DEF Tokenizer_currentToken, Leaf, LeafIn
  <1> HIDE DEF u
  <1>5. /\ Grows(s, s \o u) /\ s \o u \in Seq(Node) /\ Len(s \o u) = Len(s) + Len(u)
        /\ \A i \in 1..Len(u) : (s \o u)[Len(s) + i] = u[i]
        /\ Len(s) \in Nat /\ Len(u) \in Nat
    BY <1>3, GrowsByMore
  <1>6. ASSUME NEW k \in (Len(s) + 1)..Len(s \o u) PROVE LeafIn((s \o u)[k], toks)
    <2>1. k - Len(s) \in 1..Len(u) /\ Len(s) + (k - Len(s)) = k
      BY <1>5
    <2>2. (s \o u)[k] = u[k - Len(s)]
      BY <1>5, <2>1
    <2> QED  BY <1>4, <2>1, <2>2
  <1> QED  BY <1>5, <1>6 DEF u

\* The operands that are given back are no openers.
LEMMA LeafNotIn == ASSUME NEW N, N.op \notin Openers PROVE ~LeafIn(N, Openers)
  BY DEF LeafIn

LEMMA InfixFits ==
  ASSUME NEW nodes \in Seq(Node), NEW c, NEW ctxt, c.fn = "parseInfix",
         ctxt.F = "NULL", ctxt.P = NoParselet, ctxt.Prec > 0,
         c.P.class # "SemiSemi" => c.P = infixParselets[c.tok.op],
         \A k \in (ctxt.Index + 2)..Len(nodes) : LeafIn(nodes[k], Trivia)
  PROVE  CallFits(nodes, c, ctxt)
  <1>1. LoopOf("parseInfix") = "NULL"
    BY DEF LoopOf, LoopFns
  <1> QED  BY <1>1 DEF CallFits, TopFits, ArgumentsFit, NodesFit, LoopFns, PartLoops,
                       TagFns, ContextSensitiveFns, GroupMark, GroupFns, IsIdentity

\* What BindsTighterThan leaves.
LEMMA LooserIsPositive ==
  ASSUME Inv, Fitting, NEW prec \in Nat, ~BindsTighterThan(prec) PROVE prec > 0
  <1>1. Parser_topPrecedence \in Nat
    <2>1. CASE ContextStack = <<>>
      BY <2>1, PrecedenceType DEF Parser_topPrecedence
    <2>2. CASE ContextStack # <<>>
      BY <2>2, FittingParts, ContextFields DEF Parser_topPrecedence
    <2> QED  BY <2>1, <2>2
  <1>2. RightBit(Parser_topPrecedence) \in Nat /\ RightBit(Parser_topPrecedence) > 0
    BY <1>1, RightBitType
  <1> QED  BY <1>2 DEF BindsTighterThan

LEMMA NewContextFields ==
  ASSUME NEW Index, NEW Prec
  PROVE  LET c == NewContext(Index, Prec)
         IN c.F = "NULL" /\ c.P = NoParselet /\ c.Index = Index /\ c.Prec = Prec
            /\ ~GroupMark(c)
  BY DEF NewContext, GroupMark

LEMMA OperandIsThere ==
  ASSUME NEW n \in Nat, NEW C, HasOperand(n, C), C # <<>> => Top(C).Index \in Nat
  PROVE  n \in Nat \ {0}
  BY DEF HasOperand, Top

LEMMA Parser_parseClimbFits == Inv /\ Inv' /\ Fitting /\ Parser_parseClimb => Fitting'
  <1> DEFINE q       == TriviaButNotToplevelNewlinesEnd(buffer)
             Trivia1 == TriviaTokens(buffer, q)
             peek    == Tokenizer_currentToken(q)
             token   == processImplicitTimes(infixParselets[peek.op], peek)
             I       == infixParselets[token.op]
             prec    == getPrecedence(I, NodeStack)
             ctxt    == NewContext(Len(NodeStack) - 1, prec)
  <1> SUFFICES ASSUME Inv, Inv', Fitting, Parser_parseClimb PROVE Fitting'
    OBVIOUS
  <1>1. Calling("Parser_parseClimb") /\ call.fn \in QuietFns /\ ~Calling("parsePrefix")
    BY DEF Parser_parseClimb, QuietFns, Calling
  <1>2. NodeStack \in Seq(Node) /\ Len(NodeStack) \in Nat \ {0}
    <2>1. HasOperand(Len(NodeStack), ContextStack)
      BY <1>1, StackTypes DEF Discipline, Calling, Complete
    <2>2. NodeStack \in Seq(Node) /\ Len(NodeStack) \in Nat
      BY StackTypes
    <2>3. ContextStack # <<>> => Top(ContextStack).Index \in Nat
      BY FittingParts
    <2> HIDE DEF q, Trivia1, peek, token, I, prec, ctxt
    <2> QED  BY <2>1, <2>2, <2>3, OperandIsThere
  <1>3. CASE BindsTighterThan(prec)
    <2>1. UNCHANGED <<NodeStack, ContextStack, GroupStack, frames>>
          /\ Goto("Parser_tryContinue")
      BY <1>3 DEF Parser_parseClimb
    <2>2. call'.fn = "Parser_tryContinue"
      BY <2>1 DEF Goto, Jump
    <2>3. CallFits(NodeStack', call', Parser_topContext)
      BY <2>2, QuietCallFits
    <2>4. call'.fn \in QuietFns \ {"parsePrefix"} /\ call.fn # "parsePrefix"
      BY <1>1, <2>2 DEF QuietFns, Calling
    <2> QED  BY <1>1, <2>1, <2>3, <2>4, Unchanged, QuietKept
  <1>4. CASE ~BindsTighterThan(prec)
    <2>1. /\ ContextStack' = Append(ContextStack, ctxt)
          /\ NodeStack' = NodeStack \o Trivia1
          /\ Jump("parseInfix", I, token) /\ UNCHANGED <<GroupStack, frames>>
      BY <1>4 DEF Parser_parseClimb, Parser_pushContext
    <2>2. /\ q \in buffer..Len(input) /\ q \in 0..Len(input)
          /\ \A r \in buffer..(q - 1) : KindAt(r) \in Trivia
      <3>1. buffer \in 0..Len(input) /\ input \in Seq(SourceTokens)
        BY StackTypes
      <3>2. \A r \in buffer..(q - 1) : KindAt(r) \in TriviaButNotToplevelNewline
        BY <3>1, SkipKindsFacts DEF TriviaButNotToplevelNewlinesEnd
      <3> QED  BY <3>1, <3>2, TriviaEndType DEF TriviaButNotToplevelNewline
    <2>3. token.op \in LeafKinds
      BY <2>2, processImplicitTimesType
    <2>4. I \in Parselet
      BY <2>3, TableTypes
    <2>5. prec \in Nat /\ prec > 0
      <3>1. prec \in Nat
        BY <2>4, getPrecedenceType
      <3> HIDE DEF prec
      <3> QED  BY <1>4, <3>1, LooserIsPositive
    <2> DEFINE more == NodeStack \o Trivia1
    <2>6. /\ Grows(NodeStack, more) /\ more \in Seq(Node)
          /\ \A k \in (Len(NodeStack) + 1)..Len(more) : LeafIn(more[k], Trivia)
      <3>1. buffer \in 0..Len(input)
        BY StackTypes
      <3> QED  BY <1>2, <2>2, <3>1, GrowsByTrivia
    <2>7. ~LeafIn(Top(NodeStack), Openers)
      BY <1>1, FittingParts DEF CallFits, NodesFit, Calling
    <2>8. /\ ctxt \in Context /\ ctxt.Index = Len(NodeStack) - 1 /\ ctxt.F = "NULL"
          /\ ctxt.P = NoParselet /\ ctxt.Prec = prec /\ ~GroupMark(ctxt)
      <3>1. Len(NodeStack) - 1 \in Nat
        BY <1>2
      <3> HIDE DEF prec
      <3>2. ctxt \in BuildContext
        BY <2>5, <3>1, NewContextType
      <3> QED  BY <3>2, NewContextFields, BuildContextFields
    <2> HIDE DEF ctxt, more, prec, I, token
    <2>9. ContextFits(more, ctxt)
      <3>1. more[ctxt.Index + 1] = Top(NodeStack)
        <4>1. ctxt.Index + 1 = Len(NodeStack) /\ Len(NodeStack) \in 1..Len(NodeStack)
          BY <1>2, <2>8
        <4> QED  BY <2>6, <4>1 DEF Grows, Agree, Top
      <3>2. ctxt.F \notin GroupFns \union PlainLoops
        BY <2>8 DEF GroupFns, PlainLoops
      <3> QED  BY <2>7, <2>8, <3>1, <3>2, EnteredFits
    <2>10. call'.fn = "parseInfix" /\ call'.P = I /\ call'.tok = token
      BY <2>1 DEF Jump
    <2>11. CallFits(more, call', ctxt)
      <3>1. \A k \in (ctxt.Index + 2)..Len(more) : LeafIn(more[k], Trivia)
        BY <1>2, <2>6, <2>8
      <3> QED  BY <2>5, <2>6, <2>8, <2>10, <3>1, InfixFits DEF I
    <2>12. call'.fn \in RunningFns
      BY <2>10, RunningFnsFacts
    <2>13. NodeStack' = more
      BY <2>1 DEF more
    <2> QED  BY <1>1, <2>1, <2>6, <2>8, <2>9, <2>11, <2>12, <2>13, PushKept
  <1> QED  BY <1>3, <1>4

LEMMA Parser_parseClimb_abortFits ==
  Inv /\ Inv' /\ Fitting /\ Parser_parseClimb_abort => Fitting'
  <1> SUFFICES ASSUME Inv, Inv', Fitting, Parser_parseClimb_abort PROVE Fitting'
    OBVIOUS
  <1>1. UNCHANGED <<NodeStack, ContextStack, GroupStack, frames>>
        /\ call'.fn = "Parser_tryContinue" /\ call.fn = "Parser_parseClimb"
    BY DEF Parser_parseClimb_abort, Goto, Jump, Calling
  <1>2. CallFits(NodeStack', call', Parser_topContext)
    BY <1>1, QuietCallFits
  <1>3. call'.fn \in QuietFns \ {"parsePrefix"} /\ call.fn \in QuietFns
    BY <1>1 DEF QuietFns
  <1> QED  BY <1>1, <1>2, <1>3, Unchanged, QuietKept

LEMMA Parser_tryContinueFits == Inv /\ Inv' /\ Fitting /\ Parser_tryContinue => Fitting'
  <1> SUFFICES ASSUME Inv, Inv', Fitting, Parser_tryContinue PROVE Fitting'
    OBVIOUS
  <1>1. UNCHANGED <<NodeStack, ContextStack, GroupStack, frames>>
        /\ call.fn = "Parser_tryContinue" /\ call.fn \in QuietFns
    BY DEF Parser_tryContinue, Calling, QuietFns
  <1>2. CASE ContextStack = <<>> \/ Parser_topContext.F = "Parser_identity"
    <2>1. call'.fn = "return"
      BY <1>2 DEF Parser_tryContinue, Goto, Jump
    <2>2. CallFits(NodeStack', call', Parser_topContext)
      BY <2>1, QuietCallFits
    <2>3. call'.fn \in QuietFns \ {"parsePrefix"}
      BY <2>1 DEF QuietFns
    <2> QED  BY <1>1, <2>2, <2>3, Unchanged, QuietKept
  <1>3. CASE ~(ContextStack = <<>> \/ Parser_topContext.F = "Parser_identity")
    <2> DEFINE ctxt == Top(ContextStack)
    <2>1. /\ ctxt = Parser_topContext /\ ContextStack # <<>> /\ ctxt \in Context
          /\ ContextFits(NodeStack, ctxt)
      BY <1>3, FittingParts
    <2>2. call'.fn = ctxt.F /\ call'.P = ctxt.P
      BY <1>3, <2>1 DEF Parser_tryContinue, Jump
    <2>3. ctxt.F \notin Unnamed
      <3>1. Complete(Len(NodeStack), ContextStack, frames)
        BY <1>1, StackTypes DEF Discipline
      <3>2. ctxt.F # "NULL"
        BY <2>1, <3>1, StackTypes, CallContinuation
      <3> QED  BY <1>3, <2>1, <3>2 DEF Unnamed
    <2>4. ctxt.F \in RunningFns
      BY <2>1, <2>3, ContextFields, ContinuationFns DEF Unnamed
    <2>5. Busy(call'.fn) /\ ~Busy(call.fn)
      BY <1>1, <2>2, <2>4, FnFacts
    <2> HIDE DEF ctxt
    <2>6. CallFits(NodeStack, call', ctxt)
      <3>1. ctxt.F \in ContextFns
        BY <2>1, ContextFields
      <3>2. ctxt.F \notin {"parseInfix", "SemiSemiParselet_parse1", "parsePrefix",
                           "Parser_parseClimb"} \union TagFns
        BY <3>1 DEF ContextFns, LoopFns, ReduceFns, TagFns
      <3>3. ctxt.F \notin ContextSensitiveFns
        BY <2>4, RunningFnsExclude
      <3>4. GroupMark(ctxt) <=> ctxt.F \in GroupFns
        BY <2>1, <2>3 DEF ContextFits, GroupMark, GroupFns, Unnamed
      <3>5. ~IsIdentity(ctxt)
        BY <2>3 DEF IsIdentity, Unnamed
      <3> QED  BY <2>2, <3>2, <3>3, <3>4, <3>5
               DEF CallFits, TopFits, ArgumentsFit, NodesFit
    <2>7. CallFits(NodeStack', call', Top(ContextStack'))
      BY <1>1, <2>6 DEF ctxt
    <2>8. ContextFits(NodeStack', Top(ContextStack'))
      BY <1>1, <2>1 DEF ctxt
    <2>9. Level(ContextStack, ContextStack') /\ Grows(NodeStack, NodeStack')
      BY <1>1, SameLevel, Unchanged
    <2>10. ContextStack # <<>> /\ Top(ContextStack).F \notin Unnamed
      BY <2>1, <2>3 DEF ctxt
    <2> QED  BY <1>1, <2>5, <2>7, <2>8, <2>9, <2>10, LevelKept
  <1> QED  BY <1>2, <1>3

LEMMA ReturnFits == Inv /\ Inv' /\ Fitting /\ Return => Fitting'
  <1> SUFFICES ASSUME Inv, Inv', Fitting, Return PROVE Fitting'
    OBVIOUS
  <1> DEFINE ctxt  == Top(ContextStack)
             frame == Top(frames)
  <1>1. /\ UNCHANGED <<NodeStack, ContextStack, GroupStack>> /\ frames # <<>>
        /\ frames' = Pop(frames) /\ call.fn = "return"
        /\ call'.fn = frame.fn /\ call'.P = frame.P
    BY DEF Return, Calling, Jump
  <1>2. ~Busy("return") /\ Returning(Len(NodeStack), ContextStack, frames)
    BY <1>1, FnFacts, StackTypes DEF Discipline, QuietFns
  <1>3. frame \in Frame /\ frames \in Seq(Frame)
    BY <1>1, StackTypes, PopFacts
  <1>4. frame.fn \in LoopFns \union PatternReduces \union {InnerReduce}
    <2>1. Len(frames) \in Nat \ {0}
      BY <1>1, <1>3
    <2>2. CASE OnlyLoops(frames)
      <3>1. IsLoop(frames[Len(frames)])
        BY <2>1, <2>2 DEF OnlyLoops
      <3> QED  BY <3>1 DEF IsLoop, Top
    <2>3. CASE PatternFrames(frames)
      BY <2>3 DEF PatternFrames
    <2> QED  BY <1>2, <2>2, <2>3 DEF Returning
  <1>5. frame.fn \in RunningFns \union {InnerReduce}
    BY <1>4 DEF RunningFns, PatternReduces, ReduceFns, InnerReduce
  <1>6. Busy(frame.fn)
    BY <1>5, FnFacts
  <1>7. /\ ContextStack # <<>> /\ ctxt.F = SuspendedF(frame)
        /\ LoopsFit(NodeStack, ContextStack, Pop(frames), frame.fn)
        /\ IsLoop(frame) => Fits(NodeStack, frame, ctxt, Len(NodeStack) - 1)
    BY <1>1, <1>2, <1>3, <1>6, FittingParts, ReturnLoops
  <1>8. ctxt \in BuildContext /\ ctxt \in Context
    BY <1>7, StackTypes, PopFacts
  <1> HIDE DEF ctxt, frame
  <1>9. CallFits(NodeStack, call', ctxt)
    <2>1. CASE frame.fn \in LoopFns
      <3>1. IsLoop(frame) /\ ctxt.F = "Parser_identity"
        BY <1>7, <2>1 DEF IsLoop, SuspendedF
      <3>2. ~USE_MUSTTAIL
        BY <1>8, <3>1, BuildContextFields DEF HasFOfBuild
      <3>3. Fits(NodeStack, frame, ctxt, Len(NodeStack) - 1)
        BY <1>7, <3>1
      <3>4. frame = [fn |-> LoopOf(frame.fn), P |-> frame.P] /\ LoopOf(frame.fn) # "NULL"
        <4>1. LoopOf(frame.fn) = frame.fn /\ frame.fn # "NULL"
          BY <2>1 DEF LoopOf, LoopFns
        <4>2. frame = [fn |-> frame.fn, P |-> frame.P]
          BY <1>3 DEF Frame
        <4> QED  BY <4>1, <4>2
      <3>5. frame.fn \notin QuietFns \union PartLoops \union TagFns
                              \union {"parseInfix", "SemiSemiParselet_parse1"}
        BY <2>1 DEF QuietFns, PartLoops, TagFns, LoopFns, ContextSensitiveFns
      <3>6. GroupMark(ctxt) <=> frame.fn \in GroupFns
        BY <2>1, <3>3 DEF Fits, GroupFns, LoopFns
      <3> QED  BY <1>1, <2>1, <3>2, <3>3, <3>4, <3>5, <3>6
               DEF CallFits, TopFits, ArgumentsFit, NodesFit, QuietFns
    <2>2. CASE frame.fn \in PatternReduces \union {InnerReduce}
      <3>1. /\ frame.fn \notin LoopFns \union PartLoops \union TagFns
                                \union {"parseInfix", "SemiSemiParselet_parse1"}
            /\ frame.fn \notin GroupFns /\ LoopOf(frame.fn) = "NULL"
        BY <2>2 DEF PatternReduces, InnerReduce, LoopFns, PartLoops, TagFns, GroupFns,
                    LoopOf
      <3>2. ctxt.F = "NULL"
        BY <1>7, <3>1 DEF SuspendedF, IsLoop
      <3>3. ~GroupMark(ctxt) /\ ~IsIdentity(ctxt)
        BY <3>2 DEF GroupMark, IsIdentity
      <3> QED  BY <1>1, <1>5, <3>1, <3>3, ReduceFits
    <2> QED  BY <1>4, <2>1, <2>2
  <1>10. CallFits(NodeStack', call', Top(ContextStack'))
    BY <1>1, <1>9 DEF ctxt
  <1>11. LoopsFit(NodeStack', ContextStack', frames', call'.fn)
    BY <1>1, <1>7
  <1>12. ContextsFit(NodeStack', ContextStack')
         /\ GroupsOpen(NodeStack', ContextStack', GroupStack')
    BY <1>1, FittingParts
  <1> QED  BY <1>10, <1>11, <1>12, KeptByParts

-----------------------------------------------------------------------------
(* Operands without an operator to their left                              *)

LEMMA NewTopContext ==
  ASSUME Inv, Inv', NEW ctxt, ContextStack' = Append(ContextStack, ctxt)
  PROVE  ctxt \in Context
  <1>1. ContextStack \in Seq(Context)
    BY StackTypes
  <1>2. ContextStack' \in Seq(Context)
    BY StackTypes, Zenon DEF Inv, TypeOK
  <1>3. /\ Len(ContextStack') = Len(ContextStack) + 1
        /\ ContextStack'[Len(ContextStack) + 1] = ctxt
        /\ Len(ContextStack) \in Nat
    BY <1>1, AppendProperties
  <1> QED  BY <1>2, <1>3

LEMMA TopChanged ==
  ASSUME Inv, Inv', ContextStack # <<>>, NEW ctxt, ContextStack' = TopContext(ctxt)
  PROVE  ctxt \in Context
  <1>1. ContextStack \in Seq(Context) /\ ContextStack' \in Seq(Context)
    BY StackTypes, Zenon DEF Inv, TypeOK
  <1>2. /\ Len(ContextStack) \in 1..Len(ContextStack)
        /\ Len(ContextStack') = Len(ContextStack)
        /\ ContextStack'[Len(ContextStack)] = ctxt
    BY <1>1 DEF TopContext
  <1> QED  BY <1>1, <1>2

LEMMA PrefixCall ==
  ASSUME Inv, Fitting, Calling("parsePrefix")
  PROVE  /\ call.fn \in QuietFns /\ call.tok \in Token /\ call.tok \in Node
         /\ call.P.class = "Group" <=> call.tok.op \in Openers
         /\ call.P.class = "Group" => call.P.closer = GroupOpenerToCloser(call.tok.op)
         /\ call.P \in Parselet /\ NodeStack \in Seq(Node)
         /\ call.P.class # "PrefixEndOfFile" => call.tok.hi \in 0..Len(input)
         /\ call.P.class # "Group" => ~LeafIn(call.tok, Openers)
  <1>1. /\ call.P.class = "Group" <=> call.tok.op \in Openers
        /\ call.P.class = "Group" => call.P.closer = GroupOpenerToCloser(call.tok.op)
    BY FittingParts DEF CallFits, ArgumentsFit, Calling
  <1>2. call.fn \in QuietFns
    BY DEF Calling, QuietFns
  <1> QED  BY <1>1, <1>2, ExpectingType, PrefixTokenInside, TokenIsNode, StackTypes,
              LeafNotIn

\* An operand that is one node.
LEMMA LeafKept ==
  ASSUME Inv, Inv', Fitting, call.fn \in QuietFns, NEW N \in Node,
         NodeStack' = Append(NodeStack, N),
         UNCHANGED <<ContextStack, GroupStack, frames>>,
         call'.fn \in {"Parser_parseClimb", "Parser_tryContinue", "return"},
         call'.fn = "Parser_parseClimb" => ~LeafIn(N, Openers)
  PROVE  Fitting'
  <1>1. NodeStack \in Seq(Node)
    BY StackTypes
  <1>2. Grows(NodeStack, NodeStack') /\ Top(NodeStack') = N
        /\ Len(NodeStack) < Len(NodeStack')
    BY <1>1, GrowsByOne
  <1>3. CallFits(NodeStack', call', Parser_topContext)
    BY <1>2, ClimbFits, QuietCallFits
  <1>4. call'.fn \in QuietFns \ {"parsePrefix"}
    BY DEF QuietFns
  <1> QED  BY <1>2, <1>3, <1>4, QuietKept

\* The context of an operand that is no group.
LEMMA EnterKept ==
  ASSUME Inv, Inv', Fitting, call.fn \in QuietFns, NEW ctxt,
         ContextStack' = Append(ContextStack, ctxt), ctxt.Index = Len(NodeStack),
         ctxt.F \notin GroupFns \union PlainLoops, ~GroupMark(ctxt),
         Grows(NodeStack, NodeStack'), UNCHANGED <<GroupStack, frames>>,
         ~LeafIn(NodeStack'[Len(NodeStack) + 1], Openers),
         call'.fn \in RunningFns \union {InnerReduce} \/ ctxt.F \notin Unnamed,
         CallFits(NodeStack', call', ctxt)
  PROVE  Fitting'
  <1>1. ctxt \in Context
    BY NewTopContext
  <1>2. ContextFits(NodeStack', ctxt)
    BY EnteredFits
  <1>3. /\ UNCHANGED frames /\ UNCHANGED GroupStack
        /\ ctxt.Index = Len(NodeStack)
             \/ (~Calling("parsePrefix") /\ ctxt.Index = Len(NodeStack) - 1)
    OBVIOUS
  <1> QED  BY <1>1, <1>2, <1>3, PushKept

\* The operator taken and what is eaten after it.
LEMMA GrowsByOperator ==
  ASSUME Inv, NEW t \in Token, t.hi \in 0..Len(input)
  PROVE  /\ Grows(NodeStack, WithOperator(t)) /\ WithOperator(t) \in Seq(Node)
         /\ Len(NodeStack) < Len(WithOperator(t))
         /\ WithOperator(t)[Len(NodeStack) + 1] = t
         /\ \A k \in (Len(NodeStack) + 2)..Len(WithOperator(t)) :
              LeafIn(WithOperator(t)[k], Trivia)
  <1> DEFINE s == Append(NodeStack, t)
             q == TriviaEnd(t.hi)
             w == s \o TriviaTokens(t.hi, q)
  <1>1. /\ Grows(NodeStack, s) /\ Len(s) = Len(NodeStack) + 1 /\ s \in Seq(Node)
        /\ s[Len(NodeStack) + 1] = t /\ Len(NodeStack) \in Nat
        /\ NodeStack \in Seq(Node)
    BY StackTypes, TokenIsNode, GrowsByOne
  <1>2. q \in (t.hi)..Len(input) /\ \A r \in (t.hi)..(q - 1) : KindAt(r) \in Trivia
    BY StackTypes, SkipKindsFacts DEF TriviaEnd
  <1> HIDE DEF s, q
  <1>3. /\ Grows(s, w) /\ w \in Seq(Node)
        /\ \A k \in (Len(s) + 1)..Len(w) : LeafIn(w[k], Trivia)
    BY <1>1, <1>2, GrowsByTrivia
  <1>4. w = WithOperator(t)
    BY DEF WithOperator, s, q
  <1> HIDE DEF w
  <1>5. Grows(NodeStack, w)
    BY <1>1, <1>3, GrowsFurther
  <1>6. Len(NodeStack) < Len(w) /\ w[Len(NodeStack) + 1] = t
    BY <1>1, <1>3 DEF Grows, Agree
  <1>7. \A k \in (Len(NodeStack) + 2)..Len(w) : LeafIn(w[k], Trivia)
    BY <1>1, <1>3
  <1> QED  BY <1>3, <1>4, <1>5, <1>6, <1>7

LEMMA ErrorsAreNoOpeners ==
  ASSUME NEW kind \in Errors \union Fakes, NEW t
  PROVE  ~LeafIn(Empty(kind, t), Openers)
  BY ClosersOpenNothing DEF Empty, Leaf, LeafIn

LEMMA ErrorKinds ==
  /\ {"ERROR_PREFIXIMPLICITNULL", "ERROR_EXPECTEDOPERAND",
      "ERROR_INFIXIMPLICITNULL"} \subseteq Errors
  /\ {"FAKE_IMPLICITNULL", "FAKE_IMPLICITONE", "FAKE_IMPLICITALL"} \subseteq Fakes
  /\ Errors \union Fakes \subseteq LeafKinds
  BY DEF Errors, ParserErrors, Fakes, LeafKinds, TokenizerErrors, Tokens

LEMMA PrefixUnhandledFits ==
  Inv /\ Inv' /\ Fitting /\ PrefixUnhandledParselet_parsePrefix => Fitting'
  <1> DEFINE t     == call.tok
             I     == infixParselets[t.op]
             E     == Empty("ERROR_EXPECTEDOPERAND", t)
             nodes == Append(NodeStack, E)
             prec  == getPrecedence(I, nodes)
             ctxt  == NewContext(Len(NodeStack), prec)
  <1> SUFFICES ASSUME Inv, Inv', Fitting, PrefixUnhandledParselet_parsePrefix
               PROVE  Fitting'
    OBVIOUS
  <1>1. /\ Calling("parsePrefix") /\ NodeStack' = nodes
        /\ UNCHANGED <<GroupStack, frames>>
    BY DEF PrefixUnhandledParselet_parsePrefix, Prefix
  <1>2. t \in Token /\ t.op \in LeafKinds /\ call.fn \in QuietFns
    BY <1>1, PrefixCall, TokenIsNode
  <1>3. E \in Token /\ E \in Node /\ ~LeafIn(E, Openers)
    BY <1>2, ErrorKinds, EmptyType, ErrorsAreNoOpeners, TokenIsNode
  <1>4. prec \in Nat
    BY <1>2, TableTypes, getPrecedenceType
  <1>5. CASE BindsTighterThan(prec)
    <2>1. call'.fn = "Parser_tryContinue" /\ UNCHANGED ContextStack
      BY <1>5 DEF PrefixUnhandledParselet_parsePrefix, Goto, Jump
    <2> HIDE DEF E
    <2> QED  BY <1>1, <1>2, <1>3, <2>1, LeafKept
  <1>6. CASE ~BindsTighterThan(prec)
    <2>1. ContextStack' = Parser_pushContext(nodes, prec) /\ Jump("parseInfix", I, t)
      BY <1>6 DEF PrefixUnhandledParselet_parsePrefix
    <2>2. ContextStack' = Append(ContextStack, ctxt)
      BY <1>3, <1>4, <2>1, EnteredContext
    <2>3. prec > 0
      BY <1>4, <1>6, LooserIsPositive
    <2>4. /\ ctxt.F = "NULL" /\ ctxt.P = NoParselet /\ ctxt.Index = Len(NodeStack)
          /\ ctxt.Prec = prec /\ ~GroupMark(ctxt)
      BY NewContextFields
    <2>5. call'.fn = "parseInfix" /\ call'.P = I /\ call'.tok = t
      BY <2>1 DEF Jump
    <2> HIDE DEF E, t, I, prec, ctxt
    <2>6. /\ Grows(NodeStack, nodes) /\ nodes \in Seq(Node)
          /\ Len(nodes) = Len(NodeStack) + 1 /\ Len(NodeStack) \in Nat
          /\ nodes[Len(NodeStack) + 1] = E
      BY <1>3, StackTypes, GrowsByOne
    <2> HIDE DEF nodes
    <2>7. CallFits(nodes, call', ctxt)
      <3>1. \A k \in (ctxt.Index + 2)..Len(nodes) : LeafIn(nodes[k], Trivia)
        BY <2>4, <2>6
      <3>2. ctxt.Prec > 0 /\ call'.P = infixParselets[call'.tok.op]
        BY <2>3, <2>4, <2>5 DEF I
      <3> QED  BY <2>4, <2>5, <2>6, <3>1, <3>2, InfixFits
    <2>8. call'.fn \in RunningFns
      BY <2>5 DEF RunningFns
    <2>9. ctxt.F \notin GroupFns \union PlainLoops
      BY <2>4 DEF GroupFns, PlainLoops
    <2> QED  BY <1>1, <1>2, <1>3, <2>2, <2>4, <2>6, <2>7, <2>8, <2>9, EnterKept
  <1> QED  BY <1>5, <1>6

LEMMA PrefixOperatorFits ==
  Inv /\ Inv' /\ Fitting /\ PrefixOperatorParselet_parsePrefix => Fitting'
  <1> DEFINE t    == call.tok
             F    == "PrefixOperatorParselet_reducePrefixOperator"
             ctxt == [NewContext(Len(NodeStack), call.P.prec) EXCEPT !.F = F,
                                                                     !.P = call.P]
  <1> SUFFICES ASSUME Inv, Inv', Fitting, PrefixOperatorParselet_parsePrefix
               PROVE  Fitting'
    OBVIOUS
  <1>1. /\ Calling("parsePrefix") /\ call.P.class = "PrefixOperator"
        /\ NodeStack' = WithOperator(t)
        /\ ContextStack' = Append(ContextStack,
                             [NewContext(Len(Append(NodeStack, t)) - 1, call.P.prec)
                                EXCEPT !.F = F, !.P = call.P])
        /\ ParsePrefix(AfterOperator(t))
        /\ UNCHANGED <<input, GroupStack, frames, exprs, aborted>>
    BY DEF PrefixOperatorParselet_parsePrefix, Prefix, TakeOperator
  <1>2. /\ t \in Token /\ t.hi \in 0..Len(input) /\ call.fn \in QuietFns
        /\ ~LeafIn(t, Openers)
    BY <1>1, PrefixCall
  <1>3. ContextStack' = Append(ContextStack, ctxt)
    <2>1. Len(Append(NodeStack, t)) - 1 = Len(NodeStack)
      BY <1>2, StackTypes, WithToken
    <2> QED  BY <1>1, <2>1
  <1>4. ctxt.F = F /\ ctxt.Index = Len(NodeStack)
    BY DEF NewContext
  <1>5. ctxt.F \notin GroupFns \union PlainLoops \union Unnamed /\ ~GroupMark(ctxt)
    BY <1>4 DEF GroupFns, PlainLoops, Unnamed, GroupMark
  <1>6. call'.fn = "parsePrefix" /\ CallFits(NodeStack', call', ctxt)
    BY <1>1, <1>2, OperatorType, ParsePrefixFits
  <1> HIDE DEF t, ctxt
  <1>7. Grows(NodeStack, NodeStack') /\ NodeStack'[Len(NodeStack) + 1] = t
    BY <1>1, <1>2, GrowsByOperator
  <1> QED  BY <1>1, <1>2, <1>3, <1>4, <1>5, <1>6, <1>7, EnterKept

\* The nodes of the top context become one node, or an abort takes their place.
LEMMA ReduceKept ==
  ASSUME Inv, Inv', Fitting, call.fn \in RunningFns \union {InnerReduce},
         ContextStack' = Pop(ContextStack), UNCHANGED frames,
         NEW nodes \in Seq(Node), NEW N, ~LeafIn(N, Openers),
         Parser_topContext.Index \in 0..Len(nodes), Len(nodes) <= Len(NodeStack),
         Agree(NodeStack, nodes, Len(nodes)),
         NodeStack' = Append(NodesBelow(nodes), N),
         GroupStack' = IF call.fn \in GroupFns THEN Pop(GroupStack) ELSE GroupStack,
         call'.fn \in {"Parser_parseClimb", "Parser_tryContinue", "return"}
  PROVE  Fitting'
  <1> DEFINE k == Parser_topContext.Index
             b == NodesBelow(nodes)
  <1>1. ContextStack # <<>>
    <2>1. CASE call.fn \in RunningFns
      BY <2>1, RunningType
    <2>2. CASE call.fn = InnerReduce
      BY <2>2, StackTypes DEF Discipline, ReducingInner
    <2> QED  BY <2>1, <2>2
  <1>2. NodeStack' \in Seq(Node)
    BY StackTypes, Zenon DEF Inv, TypeOK
  <1>3. /\ b \in Seq(Node) /\ Len(b) = k /\ k \in Nat
        /\ \A i \in 1..k : b[i] = nodes[i]
    <2>1. k \in 0..Len(nodes) /\ Len(nodes) \in Nat
      OBVIOUS
    <2> HIDE DEF k
    <2>2. SubSeq(nodes, 1, k) \in Seq(Node) /\ Len(SubSeq(nodes, 1, k)) = k
      BY <2>1, PrefixType
    <2>3. \A i \in 1..k : SubSeq(nodes, 1, k)[i] = nodes[i]
      BY <2>1
    <2> QED  BY <2>1, <2>2, <2>3 DEF NodesBelow, k
  <1> HIDE DEF b, k
  <1>4. NodeStack' = Append(b, N)
    BY DEF b
  <1>5. N \in Node
    <2>1. /\ Len(NodeStack') = k + 1 /\ NodeStack'[k + 1] = N
      BY <1>3, <1>4
    <2> QED  BY <1>2, <1>3, <2>1
  <1>6. /\ Len(NodeStack') = k + 1 /\ Top(NodeStack') = N
        /\ \A i \in 1..k : NodeStack'[i] = b[i]
    BY <1>3, <1>4, <1>5, GrowsByOne DEF Grows, Agree
  <1>7. Agree(NodeStack, NodeStack', k)
    <2>1. \A i \in 1..k : i \in 1..Len(nodes)
      BY <1>3 DEF k
    <2> QED  BY <1>3, <1>6, <2>1 DEF Agree
  <1>8. CallFits(NodeStack', call', Top(ContextStack'))
    BY <1>6, ClimbFits, QuietCallFits
  <1>9. call'.fn \in QuietFns
    BY DEF QuietFns
  <1> QED  BY <1>1, <1>6, <1>7, <1>8, <1>9, PopKept DEF k

\* Every reduction but those of groups.
LEMMA ReduceContextFits ==
  ASSUME Inv, Inv', Fitting, NEW fn \in RunningFns \union {InnerReduce},
         NEW kind \in NodeKinds \ {"Leaf"}, NEW op,
         NEW next \in {"Parser_parseClimb", "Parser_tryContinue", "return"},
         ReduceContext(fn, kind, op, next),
         GroupStack' = IF fn \in GroupFns THEN Pop(GroupStack) ELSE GroupStack
  PROVE  Fitting'
  <1> DEFINE N == NewNode(kind, op, ArgsOf(NodeStack))
  <1>1. /\ call.fn = fn /\ ContextStack' = Pop(ContextStack) /\ UNCHANGED frames
        /\ NodeStack' = Append(NodesBelow(NodeStack), N) /\ call'.fn = next
    BY DEF ReduceContext, Calling, Goto, Jump
  <1>2. ~LeafIn(N, Openers)
    BY DEF NewNode, LeafIn
  <1>3. ContextStack # <<>>
    <2>1. CASE fn \in RunningFns
      BY <1>1, <2>1, RunningType
    <2>2. CASE fn = InnerReduce
      BY <1>1, <2>2, StackTypes DEF Discipline, ReducingInner
    <2> QED  BY <2>1, <2>2
  <1>4. /\ NodeStack \in Seq(Node) /\ Len(NodeStack) \in Nat
        /\ Parser_topContext.Index \in 0..Len(NodeStack)
    BY <1>3, FittingParts
  <1>5. Len(NodeStack) <= Len(NodeStack) /\ Agree(NodeStack, NodeStack, Len(NodeStack))
    BY <1>4 DEF Agree
  <1> HIDE DEF N
  <1> QED  BY <1>1, <1>2, <1>4, <1>5, ReduceKept

LEMMA ReduceStepFits ==
  ASSUME Inv, Inv', Fitting, NEW fn \in (ReduceFns \ GroupFns) \ {InnerReduce},
         NEW kind \in NodeKinds \ {"Leaf"}, NEW op, Reduce(fn, kind, op)
  PROVE  Fitting'
  <1>1. fn \in RunningFns
    BY ReduceFnsRun
  <1>2. ReduceContext(fn, kind, op, "Parser_parseClimb")
        /\ GroupStack' = IF fn \in GroupFns THEN Pop(GroupStack) ELSE GroupStack
    BY DEF Reduce
  <1> QED  BY <1>1, <1>2, ReduceContextFits

LEMMA PrefixStepFits == Inv /\ Inv' /\ Fitting /\ PrefixNext => Fitting'
  <1> SUFFICES ASSUME Inv, Inv', Fitting, PrefixNext PROVE Fitting'
    OBVIOUS
  <1>1. CASE LeafParselet_reduceLeaf
    <2>1. /\ Calling("parsePrefix") /\ call.P.class # "Group"
          /\ NodeStack' = Append(NodeStack, call.tok) /\ call'.fn = "Parser_parseClimb"
          /\ UNCHANGED <<ContextStack, GroupStack, frames>>
      BY <1>1 DEF LeafParselet_reduceLeaf, Prefix, TakeLeaf, Goto, Jump
    <2> QED  BY <2>1, PrefixCall, LeafKept
  <1>2. CASE PrefixErrorParselet_parsePrefix
    <2>1. /\ Calling("parsePrefix")
          /\ NodeStack' = Append(NodeStack, call.tok) /\ call'.fn = "Parser_tryContinue"
          /\ UNCHANGED <<ContextStack, GroupStack, frames>>
      BY <1>2 DEF PrefixErrorParselet_parsePrefix, Prefix, TakeLeaf, Goto, Jump
    <2> QED  BY <2>1, PrefixCall, LeafKept
  <1>3. CASE parsePrefix_abort
    <2>1. /\ Calling("parsePrefix")
          /\ NodeStack' = Append(NodeStack, AbortNode) /\ call'.fn = "Parser_tryContinue"
          /\ UNCHANGED <<ContextStack, GroupStack, frames>>
      BY <1>3 DEF parsePrefix_abort, PushOperandError, Goto, Jump
    <2> QED  BY <2>1, PrefixCall, AbortNodeType, LeafKept
  <1>4. CASE PrefixCloserParselet_parsePrefix \/ PrefixEndOfFileParselet_parsePrefix
    <2> DEFINE N == MissingOperand(call.tok)
    <2>1. /\ Calling("parsePrefix")
          /\ NodeStack' = Append(NodeStack, N) /\ call'.fn = "Parser_tryContinue"
          /\ UNCHANGED <<ContextStack, GroupStack, frames>>
      BY <1>4 DEF PrefixCloserParselet_parsePrefix, PrefixEndOfFileParselet_parsePrefix,
                  Prefix, PushOperandError, Goto, Jump
    <2>2. N \in Node /\ call.fn \in QuietFns
      BY <2>1, PrefixCall, MissingOperandType, TokenIsNode
    <2> HIDE DEF N
    <2> QED  BY <2>1, <2>2, LeafKept
  <1>5. CASE PrefixToplevelCloserParselet_parsePrefix
               \/ PrefixUnsupportedTokenParselet_parsePrefix
    <2>1. PICK op \in {"ERROR_UNEXPECTEDCLOSER", "ERROR_UNSUPPORTEDTOKEN"} :
            /\ Calling("parsePrefix") /\ call'.fn = "Parser_tryContinue"
            /\ NodeStack' = Append(NodeStack, [call.tok EXCEPT !.op = op])
            /\ UNCHANGED <<ContextStack, GroupStack, frames>>
      BY <1>5 DEF PrefixToplevelCloserParselet_parsePrefix,
                  PrefixUnsupportedTokenParselet_parsePrefix, Prefix,
                  PushOperandError, Goto, Jump
    <2>2. op \in LeafKinds
      BY DEF LeafKinds, ParserErrors
    <2>3. [call.tok EXCEPT !.op = op] \in Node /\ call.fn \in QuietFns
      BY <2>1, <2>2, PrefixCall, ReplacedTokenType, TokenIsNode
    <2> QED  BY <2>1, <2>3, LeafKept
  <1>6. CASE PrefixCommaParselet_parsePrefix
    <2>1. PICK kind \in {"ERROR_PREFIXIMPLICITNULL", "ERROR_EXPECTEDOPERAND"} :
            /\ Calling("parsePrefix") /\ call'.fn = "Parser_parseClimb"
            /\ NodeStack' = Append(NodeStack, Empty(kind, call.tok))
            /\ UNCHANGED <<ContextStack, GroupStack, frames>>
      BY <1>6 DEF PrefixCommaParselet_parsePrefix, Prefix, Goto, Jump
    <2>2. kind \in Errors /\ kind \in LeafKinds
      BY ErrorKinds
    <2>3. Empty(kind, call.tok) \in Node /\ call.fn \in QuietFns
      BY <2>1, <2>2, PrefixCall, EmptyType, TokenIsNode
    <2> QED  BY <2>1, <2>2, <2>3, ErrorsAreNoOpeners, LeafKept
  <1>7. CASE PrefixOperatorParselet_reducePrefixOperator
    <2>1. "PrefixOperatorParselet_reducePrefixOperator"
             \in (ReduceFns \ GroupFns) \ {InnerReduce}
          /\ "Prefix" \in NodeKinds \ {"Leaf"}
      BY DEF ReduceFns, GroupFns, InnerReduce, NodeKinds
    <2> QED  BY <1>7, <2>1, ReduceStepFits DEF PrefixOperatorParselet_reducePrefixOperator
  <1> QED  BY <1>1, <1>2, <1>3, <1>4, <1>5, <1>6, <1>7, PrefixUnhandledFits,
              PrefixOperatorFits DEF PrefixNext

-----------------------------------------------------------------------------
(* Operators, and their loops                                              *)

\* A running function of no group gives up its context.
LEMMA AbortKept ==
  ASSUME Inv, Inv', Fitting, call.fn \in RunningFns,
         GroupStack' = IF call.fn \in GroupFns THEN Pop(GroupStack) ELSE GroupStack,
         NEW nodes \in {NodeStack, Pop(NodeStack)},
         NodeStack' = Append(NodesBelow(nodes), AbortNode),
         ContextStack' = Pop(ContextStack), Goto("Parser_tryContinue"), UNCHANGED frames
  PROVE  Fitting'
  <1>1. /\ Parser_topContext.Index \in Nat /\ Parser_topContext.Index < Len(NodeStack)
        /\ NodeStack \in Seq(Node) /\ Len(NodeStack) \in Nat
    BY TopOfRunning, StackTypes
  <1>2. /\ Pop(NodeStack) \in Seq(Node) /\ Len(Pop(NodeStack)) = Len(NodeStack) - 1
        /\ \A i \in 1..(Len(NodeStack) - 1) : Pop(NodeStack)[i] = NodeStack[i]
    <2>1. NodeStack # <<>>
      BY <1>1
    <2> QED  BY <1>1, <2>1, PopFacts
  <1>3. /\ nodes \in Seq(Node) /\ Parser_topContext.Index \in 0..Len(nodes)
        /\ Len(nodes) <= Len(NodeStack) /\ Agree(NodeStack, nodes, Len(nodes))
    <2>1. CASE nodes = NodeStack
      BY <1>1, <2>1 DEF Agree
    <2>2. CASE nodes = Pop(NodeStack)
      <3>1. Len(nodes) = Len(NodeStack) - 1 /\ nodes \in Seq(Node)
            /\ \A i \in 1..Len(nodes) : nodes[i] = NodeStack[i]
        BY <1>2, <2>2
      <3> QED  BY <1>1, <3>1 DEF Agree
    <2> QED  BY <2>1, <2>2
  <1>4. ~LeafIn(AbortNode, Openers) /\ call'.fn = "Parser_tryContinue"
    BY DEF AbortNode, LeafIn, Goto, Jump
  <1> QED  BY <1>3, <1>4, ReduceKept

\* What a parseInfix finds.
LEMMA InfixCall ==
  ASSUME Inv, Fitting, Calling("parseInfix")
  PROVE  /\ call.fn \in RunningFns /\ call.fn \notin GroupFns /\ LoopOf(call.fn) = "NULL"
         /\ call.tok \in Token /\ call.tok.hi \in 0..Len(input)
         /\ call.tok.op \in LeafKinds /\ call.P \in Parselet
         /\ Parser_topContext \in BuildContext /\ Parser_topContext \in Context
         /\ Parser_topContext.F = "NULL" /\ Parser_topContext.P = NoParselet
         /\ Parser_topContext.Prec > 0 /\ Parser_topContext.Prec \in Nat
         /\ call.P.class # "SemiSemi" => call.P = infixParselets[call.tok.op]
         /\ \A k \in (Parser_topContext.Index + 2)..Len(NodeStack) :
              LeafIn(NodeStack[k], Trivia)
  <1>1. call.fn = "parseInfix" /\ call.fn \in RunningFns
    BY InfixType DEF Calling
  <1>2. TopFits(call, Parser_topContext) /\ ArgumentsFit(call)
        /\ NodesFit(NodeStack, call, Parser_topContext) /\ Parser_topContext \in Context
    BY <1>1, TopOfRunning
  <1>3. Parser_topContext.F = "NULL" /\ Parser_topContext.P = NoParselet
        /\ Parser_topContext.Prec > 0
    BY <1>1, <1>2 DEF TopFits
  <1>4. call.P.class # "SemiSemi" => call.P = infixParselets[call.tok.op]
    BY <1>1, <1>2 DEF ArgumentsFit
  <1>5. \A k \in (Parser_topContext.Index + 2)..Len(NodeStack) :
          LeafIn(NodeStack[k], Trivia)
    BY <1>1, <1>2 DEF NodesFit
  <1>6. call.fn \notin GroupFns /\ LoopOf(call.fn) = "NULL"
    BY <1>1 DEF GroupFns, LoopOf, LoopFns
  <1> QED  BY <1>1, <1>2, <1>3, <1>4, <1>5, <1>6, InfixType, TokenIsNode, ContextFields

\* The operand of an operator is parsed next, the context knows what then.
LEMMA NamedOperandKept ==
  ASSUME Inv, Inv', Fitting, call.fn \in RunningFns, call.fn \notin GroupFns, NEW ctxt,
         ctxt.Index = Parser_topContext.Index,
         ctxt.F \notin Unnamed \union GroupFns \union PlainLoops,
         ContextStack' = TopContext(ctxt), Grows(NodeStack, NodeStack'),
         UNCHANGED <<GroupStack, frames>>, call'.fn = "parsePrefix",
         CallFits(NodeStack', call', ctxt)
  PROVE  Fitting'
  <1>1. ~GroupMark(ctxt) /\ ctxt.F \notin PlainLoops /\ ctxt.F \notin GroupFns
        /\ ctxt.F \notin Unnamed
    BY DEF GroupMark, Unnamed, GroupFns
  <1>2. ctxt \in Context
    BY RunningType, TopChanged
  <1>3. ContextFits(NodeStack', ctxt)
    BY <1>1, <1>2, StillFits
  <1> QED  BY <1>1, <1>2, <1>3, OperandKept

LEMMA TakeOperandFits ==
  ASSUME Inv, Inv', Fitting, call.fn \in RunningFns, call.fn \notin GroupFns,
         call.tok \in Token, call.tok.hi \in 0..Len(input), NEW ctxt,
         ctxt.Index = Parser_topContext.Index,
         ctxt.F \notin Unnamed \union GroupFns \union PlainLoops,
         TakeOperand(call.tok, ctxt), UNCHANGED <<GroupStack, frames>>
  PROVE  Fitting'
  <1>1. /\ NodeStack' = WithOperator(call.tok) /\ ContextStack' = TopContext(ctxt)
        /\ ParsePrefix(AfterOperator(call.tok))
    BY DEF TakeOperand, TakeOperator
  <1>2. Grows(NodeStack, NodeStack') /\ AfterOperator(call.tok).op \in LeafKinds
    BY <1>1, GrowsByOperator, OperatorType
  <1>3. call'.fn = "parsePrefix" /\ CallFits(NodeStack', call', ctxt)
    BY <1>1, <1>2, ParsePrefixFits
  <1> QED  BY <1>1, <1>2, <1>3, NamedOperandKept

\* The operator of a loop is the first node behind its first operand.
LEMMA OperatorTaken ==
  ASSUME Inv, Fitting, Calling("parseInfix"), NEW more \in Seq(Node),
         Grows(NodeStack, more), more[Len(NodeStack) + 1] = call.tok,
         call.tok.op \notin Trivia, NEW loop, call.tok.op \in OperatorsOf(loop),
         NEW ctxt, ctxt.Index = Parser_topContext.Index, NEW lim \in Int,
         Len(NodeStack) + 1 <= lim
  PROVE  HasOperator(more, loop, ctxt, lim)
  <1> DEFINE i == Len(NodeStack) + 1
             m == ctxt.Index
  <1>1. /\ m \in Nat /\ m < Len(NodeStack) /\ Len(NodeStack) \in Nat
        /\ \A k \in (m + 2)..Len(NodeStack) : LeafIn(NodeStack[k], Trivia)
    BY InfixCall, TopOfRunning
  <1> HIDE DEF m
  <1>2. i \in (m + 2)..lim
    BY <1>1
  <1>3. ~LeafIn(more[i], Trivia)
    BY DEF LeafIn
  <1>4. \A k \in (m + 2)..(i - 1) : LeafIn(more[k], Trivia)
    <2>1. \A k \in (m + 2)..(i - 1) : k \in 1..Len(NodeStack) /\ k \in (m + 2)..Len(NodeStack)
      BY <1>1
    <2> QED  BY <1>1, <2>1 DEF Grows, Agree
  <1> QED  BY <1>2, <1>3, <1>4 DEF HasOperator, FirstAt, m

\* The context of a loop that is no group's.
LEMMA LoopContextFields ==
  ASSUME Inv, Fitting, Calling("parseInfix"),
         NEW loop \in LoopFns \ {"GroupParselet_parseLoop"}, NEW P \in Parselet,
         P.class \in ClassesFor(loop), loop \in PlainLoops => P = NoParselet
  PROVE  LET ctxt == LoopContext(loop, P)
         IN /\ ctxt \in Context /\ ctxt.Index = Parser_topContext.Index
            /\ ctxt.F = LoopF(loop) /\ ~GroupMark(ctxt) /\ ctxt.F \notin GroupFns
            /\ ctxt.F \in PlainLoops => ctxt.P = NoParselet
            /\ USE_MUSTTAIL => ctxt.P = P
  <1> DEFINE old  == Parser_topContext
             ctxt == LoopContext(loop, P)
  <1>1. old \in BuildContext /\ old \in Context /\ old.Prec > 0 /\ old.Prec \in Nat
    BY InfixCall
  <1>2. ctxt \in BuildContext /\ ctxt.F = LoopF(loop) /\ ctxt.Index = old.Index
    BY <1>1, LoopContextType
  <1>3. ctxt \in Context
    BY <1>2 DEF BuildContext
  <1>4. CASE USE_MUSTTAIL
    <2>1. ctxt = [old EXCEPT !.F = loop, !.P = P] /\ LoopF(loop) = loop
      BY <1>4 DEF LoopContext, LoopF
    <2>2. ctxt.P = P
      BY <1>1, <2>1 DEF Context
    <2>3. loop \notin GroupFns /\ loop # "Parser_identity"
      BY DEF LoopFns, GroupFns
    <2> HIDE DEF ctxt
    <2>4. ~GroupMark(ctxt)
      BY <1>2, <2>1, <2>3 DEF GroupMark
    <2> QED  BY <1>2, <1>3, <2>1, <2>2, <2>3, <2>4 DEF ctxt
  <1>5. CASE ~USE_MUSTTAIL
    <2>1. ctxt = [old EXCEPT !.F = "Parser_identity"] /\ LoopF(loop) = "Parser_identity"
      BY <1>5 DEF LoopContext, LoopF
    <2>2. ctxt.Prec = old.Prec
      BY <1>1, <2>1 DEF Context
    <2> HIDE DEF ctxt, old
    <2>3. ~GroupMark(ctxt)
      BY <1>1, <2>2 DEF GroupMark
    <2>4. "Parser_identity" \notin GroupFns \union PlainLoops
      BY DEF GroupFns, PlainLoops
    <2> QED  BY <1>2, <1>3, <1>5, <2>1, <2>3, <2>4 DEF ctxt, old
  <1> QED  BY <1>4, <1>5

\* A parseInfix calls its operand's parselet from a loop.
LEMMA TakeLoopOperandFits ==
  ASSUME Inv, Inv', Fitting, Calling("parseInfix"),
         NEW loop \in LoopFns \ {"GroupParselet_parseLoop"}, NEW P \in Parselet,
         P.class \in ClassesFor(loop), loop \in PlainLoops => P = NoParselet,
         call.tok.op \notin Trivia, call.tok.op \in OperatorsOf([fn |-> loop, P |-> P]),
         NodeStack' \in Seq(Node), Grows(NodeStack, NodeStack'),
         Len(NodeStack) < Len(NodeStack'), NodeStack'[Len(NodeStack) + 1] = call.tok,
         ContextStack' = TopContext(LoopContext(loop, P)), LoopCall(loop, P),
         NEW t, t.op \in LeafKinds, ParsePrefix(t), UNCHANGED GroupStack
  PROVE  Fitting'
  <1> DEFINE ctxt == LoopContext(loop, P)
             l    == [fn |-> loop, P |-> P]
  <1>1. /\ ctxt \in Context /\ ctxt.Index = Parser_topContext.Index
        /\ ctxt.F = LoopF(loop) /\ ~GroupMark(ctxt) /\ ctxt.F \notin GroupFns
        /\ ctxt.F \in PlainLoops => ctxt.P = NoParselet
    BY LoopContextFields
  <1>2. call.fn \in RunningFns /\ call.fn \notin GroupFns
    BY InfixCall
  <1>3. Len(NodeStack') \in Int /\ Len(NodeStack) + 1 <= Len(NodeStack')
    BY StackTypes
  <1>4. l.fn # "GroupParselet_parseLoop"
    OBVIOUS
  <1> HIDE DEF ctxt, l
  <1>5. ContextFits(NodeStack', ctxt)
    BY <1>1, <1>2, StillFits
  <1>6. Fits(NodeStack', l, ctxt, Len(NodeStack'))
    <2>1. HasOperator(NodeStack', l, ctxt, Len(NodeStack'))
      BY <1>1, <1>3, OperatorTaken DEF l
    <2> QED  BY <1>1, <1>4, <2>1 DEF Fits
  <1>7. call'.fn = "parsePrefix" /\ CallFits(NodeStack', call', ctxt)
    BY ParsePrefixFits
  <1> QED  BY <1>1, <1>2, <1>5, <1>6, <1>7, LoopOperandKept DEF ctxt, l

\* A function goes on in its context, or its reduction does.
LEMMA StayFits ==
  ASSUME Inv, Inv', Fitting, call.fn \in RunningFns, Grows(NodeStack, NodeStack'),
         UNCHANGED <<ContextStack, GroupStack, frames>>, call'.fn \in RunningFns,
         CallFits(NodeStack', call', Parser_topContext)
  PROVE  Fitting'
  <1> DEFINE ctxt == Parser_topContext
  <1>1. /\ ctxt \in Context /\ ContextStack # <<>> /\ ContextFits(NodeStack, ctxt)
        /\ GroupMark(ctxt) <=> call.fn \in GroupFns
    BY TopOfRunning
  <1>2. ContextStack' = TopContext(ctxt)
    BY <1>1, UnchangedTop
  <1>3. ContextFits(NodeStack', ctxt)
    BY <1>1, StillFits DEF ContextFits
  <1> QED  BY <1>1, <1>2, <1>3, StayKept

LEMMA ReduceNextFits ==
  ASSUME Inv, Inv', Fitting, call.fn \in RunningFns, Grows(NodeStack, NodeStack'),
         UNCHANGED <<ContextStack, GroupStack, frames>>,
         NEW reduceFn \in ReduceFns \ {InnerReduce}, call'.fn = reduceFn,
         reduceFn \in GroupFns <=> call.fn \in GroupFns,
         IsIdentity(Parser_topContext) => LoopOf(reduceFn) # "NULL",
         LoopOf(reduceFn) # "NULL" /\ IsIdentity(Parser_topContext) =>
           Fits(NodeStack', [fn |-> LoopOf(reduceFn), P |-> call'.P],
                Parser_topContext, Len(NodeStack') - 1)
  PROVE  Fitting'
  <1>1. GroupMark(Parser_topContext) <=> call.fn \in GroupFns
    BY TopOfRunning
  <1>2. reduceFn \in RunningFns
        /\ reduceFn \notin LoopFns \union PartLoops \union TagFns
                             \union {"parseInfix", "SemiSemiParselet_parse1"}
    BY ReduceFnsRun, ReducesLoop
  <1>3. CallFits(NodeStack', call', Parser_topContext)
    BY <1>1, <1>2, ReduceFits
  <1> QED  BY <1>2, <1>3, StayFits

\* A function that belongs to no loop runs in no loop's context.
LEMMA RunsInNoLoop ==
  ASSUME Inv, Fitting, call.fn \in RunningFns, LoopOf(call.fn) = "NULL"
  PROVE  ~IsIdentity(Parser_topContext)
  BY TopOfRunning, FnFacts DEF TopFits

\* It calls its reduction.
LEMMA PartReduceFits ==
  ASSUME Inv, Inv', Fitting, call.fn \in RunningFns, Grows(NodeStack, NodeStack'),
         UNCHANGED <<ContextStack, GroupStack, frames>>,
         NEW reduceFn \in ReduceFns \ {InnerReduce}, call'.fn = reduceFn,
         LoopOf(reduceFn) = "NULL", call.fn \notin GroupFns, LoopOf(call.fn) = "NULL"
  PROVE  Fitting'
  <1>1. reduceFn \notin GroupFns
    BY DEF LoopOf, GroupFns, LoopFns, ReduceFns
  <1> QED  BY <1>1, RunsInNoLoop, ReduceNextFits

\* What a loop knows of its context.
LEMMA LoopCallFits ==
  ASSUME Inv, Fitting, call.fn \in LoopFns
  PROVE  /\ call.fn \in RunningFns /\ LoopOf(call.fn) = call.fn
         /\ Parser_topContext.F = LoopF(call.fn) /\ call.P \in Parselet
         /\ call.P.class \in ClassesFor(call.fn)
         /\ IsIdentity(Parser_topContext) =>
              Fits(NodeStack, [fn |-> call.fn, P |-> call.P], Parser_topContext,
                   Len(NodeStack) - 1)
  <1>1. call.fn \in RunningFns
    BY LoopsRun
  <1>2. LoopOf(call.fn) = call.fn /\ call.fn # "NULL"
    BY DEF LoopOf, LoopFns
  <1>3. NodesFit(NodeStack, call, Parser_topContext)
    BY <1>1, TopOfRunning
  <1>4. Parser_topContext.F = LoopF(call.fn)
    BY DEF Inv, LoopsInPlace
  <1>5. call.P \in Parselet /\ call.P.class \in ClassesFor(call.fn)
    BY StackTypes, CallFields
  <1> QED  BY <1>1, <1>2, <1>3, <1>4, <1>5 DEF NodesFit

\* More nodes change nothing for it.
LEMMA LoopStillFits ==
  ASSUME Inv, Fitting, call.fn \in LoopFns, IsIdentity(Parser_topContext),
         Grows(NodeStack, NodeStack'), NodeStack' \in Seq(Node), NEW lim \in Int,
         Len(NodeStack) - 1 <= lim
  PROVE  Fits(NodeStack', [fn |-> call.fn, P |-> call.P], Parser_topContext, lim)
  <1> DEFINE l == [fn |-> call.fn, P |-> call.P]
             ctxt == Parser_topContext
  <1>1. Fits(NodeStack, l, ctxt, Len(NodeStack) - 1)
    BY LoopCallFits
  <1>2. /\ ctxt \in Context /\ ctxt.Index < Len(NodeStack) /\ Len(NodeStack) \in Nat
    BY LoopCallFits, TopOfRunning
  <1>3. Agree(NodeStack, NodeStack', Len(NodeStack))
    BY DEF Grows
  <1> HIDE DEF l, ctxt
  <1> QED  BY <1>1, <1>2, <1>3, AgreeFits DEF l, ctxt

\* A loop calls its reduction.
LEMMA EndLoopFits ==
  ASSUME Inv, Inv', Fitting, call.fn \in LoopFns, Grows(NodeStack, NodeStack'),
         UNCHANGED <<ContextStack, GroupStack, frames>>,
         NEW reduceFn \in ReduceFns \ {InnerReduce}, call'.fn = reduceFn,
         LoopOf(reduceFn) = call.fn, call'.P = call.P
  PROVE  Fitting'
  <1>1. reduceFn \in GroupFns <=> call.fn \in GroupFns
    BY DEF LoopOf, GroupFns, LoopFns, ReduceFns
  <1>2. call.fn \in RunningFns /\ LoopOf(reduceFn) # "NULL"
    BY LoopsRun DEF LoopFns
  <1>3. NodeStack' \in Seq(Node) /\ Len(NodeStack) \in Nat
    BY StackTypes, Zenon DEF Inv, TypeOK
  <1>4. Len(NodeStack') - 1 \in Int /\ Len(NodeStack) - 1 <= Len(NodeStack') - 1
    BY <1>3 DEF Grows
  <1>5. LoopOf(reduceFn) # "NULL" /\ IsIdentity(Parser_topContext) =>
          Fits(NodeStack', [fn |-> LoopOf(reduceFn), P |-> call'.P],
               Parser_topContext, Len(NodeStack') - 1)
    BY <1>3, <1>4, LoopStillFits
  <1> QED  BY <1>1, <1>2, <1>5, ReduceNextFits

\* A loop calls its next operand's parselet.
LEMMA AgainFits ==
  ASSUME Inv, Inv', Fitting, call.fn \in LoopFns, Grows(NodeStack, NodeStack'),
         UNCHANGED <<ContextStack, GroupStack>>, LoopCall(call.fn, call.P),
         call'.fn = "parsePrefix", CallFits(NodeStack', call', Parser_topContext)
  PROVE  Fitting'
  <1> DEFINE ctxt == Parser_topContext
  <1>1. /\ call.fn \in RunningFns /\ ctxt.F = LoopF(call.fn) /\ call.P \in Parselet
        /\ call.P.class \in ClassesFor(call.fn)
    BY LoopCallFits
  <1>2. /\ ctxt \in Context /\ ContextStack # <<>> /\ ContextFits(NodeStack, ctxt)
        /\ GroupMark(ctxt) <=> call.fn \in GroupFns
    BY <1>1, TopOfRunning
  <1>3. ContextStack' = TopContext(ctxt)
    BY <1>2, UnchangedTop
  <1>4. ContextFits(NodeStack', ctxt)
    BY <1>1, <1>2, StillFits DEF ContextFits
  <1>5. NodeStack' \in Seq(Node) /\ Len(NodeStack) \in Nat
    BY StackTypes, Zenon DEF Inv, TypeOK
  <1>6. Len(NodeStack') \in Int /\ Len(NodeStack) - 1 <= Len(NodeStack')
    BY <1>5 DEF Grows
  <1>7. ~USE_MUSTTAIL => Fits(NodeStack', [fn |-> call.fn, P |-> call.P], ctxt,
                              Len(NodeStack'))
    <2>1. ~USE_MUSTTAIL => IsIdentity(ctxt)
      BY <1>1 DEF LoopF, IsIdentity
    <2> QED  BY <1>5, <1>6, <2>1, LoopStillFits
  <1> HIDE DEF ctxt
  <1>8. ctxt.Index = Parser_topContext.Index /\ CallFits(NodeStack', call', ctxt)
    BY DEF ctxt
  <1> QED  BY <1>1, <1>2, <1>3, <1>4, <1>7, <1>8, LoopOperandKept

LEMMA GrowsSomeTrivia ==
  ASSUME Inv, NEW s \in Seq(Node), NEW p \in 0..Len(input), NEW q \in p..Len(input)
  PROVE  /\ Grows(s, s \o TriviaTokens(p, q)) /\ s \o TriviaTokens(p, q) \in Seq(Node)
         /\ Len(s) \in Nat
  <1>1. input \in Seq(SourceTokens) /\ p \in Nat /\ q \in Nat /\ p <= q
    BY StackTypes
  <1>2. TriviaTokens(p, q) \in Seq(Node)
    BY <1>1, TriviaType, TokensAreNodes
  <1> QED  BY <1>2, GrowsByMore

\* What a loop appends: trivia, the operator t, and trivia.
LEMMA GrowsInLoop ==
  ASSUME Inv, NEW q \in buffer..Len(input), NEW t \in Token,
         t.hi \in 0..Len(input), NEW r \in (t.hi)..Len(input)
  PROVE  LET a == NodeStack \o TriviaTokens(buffer, q)
             b == a \o <<t>>
             c == b \o TriviaTokens(t.hi, r)
         IN /\ Grows(NodeStack, a) /\ Grows(NodeStack, b) /\ Grows(NodeStack, c)
            /\ a \in Seq(Node) /\ b \in Seq(Node) /\ c \in Seq(Node)
            /\ Len(NodeStack) < Len(c)
  <1> DEFINE a == NodeStack \o TriviaTokens(buffer, q)
             b == a \o <<t>>
             c == b \o TriviaTokens(t.hi, r)
  <1>1. NodeStack \in Seq(Node) /\ buffer \in 0..Len(input) /\ t \in Node
        /\ Len(NodeStack) \in Nat
    BY StackTypes, TokenIsNode
  <1>2. Grows(NodeStack, a) /\ a \in Seq(Node)
    BY <1>1, GrowsSomeTrivia
  <1> HIDE DEF a
  <1>3. <<t>> \in Seq(Node) /\ Len(<<t>>) = 1
    BY <1>1
  <1>4. Grows(a, b) /\ b \in Seq(Node) /\ Len(b) = Len(a) + 1 /\ Len(a) \in Nat
    BY <1>2, <1>3, GrowsByMore
  <1> HIDE DEF b
  <1>5. Grows(b, c) /\ c \in Seq(Node)
    BY <1>4, GrowsSomeTrivia
  <1> HIDE DEF c
  <1>6. Grows(NodeStack, b) /\ Grows(NodeStack, c)
    BY <1>1, <1>2, <1>4, <1>5, GrowsFurther
  <1>7. Len(NodeStack) < Len(c)
    BY <1>1, <1>2, <1>4, <1>5 DEF Grows
  <1> QED  BY <1>2, <1>4, <1>5, <1>6, <1>7 DEF a, b, c

LEMMA LoopOfFacts ==
  /\ LoopOf("InfixOperatorParselet_reduceInfixOperator") = "InfixOperatorParselet_parseLoop"
  /\ LoopOf("TimesParselet_reduceTimes") = "TimesParselet_parseLoop"
  /\ LoopOf("CommaParselet_reduceComma") = "CommaParselet_parseLoop"
  /\ LoopOf("SemiParselet_reduceCompoundExpression") = "SemiParselet_parseLoop"
  /\ \A fn \in {"GroupParselet_reduceGroup", "GroupParselet_reduceMissingCloser",
                "GroupParselet_reduceUnterminatedGroup"} :
       LoopOf(fn) = "GroupParselet_parseLoop"
  /\ \A fn \in LoopFns : LoopOf(fn) = fn
  /\ \A fn \in {"InfixOperatorParselet_reduceInfixOperator", "TimesParselet_reduceTimes",
                "CommaParselet_reduceComma", "SemiParselet_reduceCompoundExpression"} :
       fn \in (ReduceFns \ GroupFns) \ {InnerReduce}
  /\ \A fn \in {"GroupParselet_reduceGroup", "GroupParselet_reduceMissingCloser",
                "GroupParselet_reduceUnterminatedGroup"} :
       fn \in ReduceFns \ {InnerReduce}
  BY DEF LoopOf, LoopFns, ReduceFns, GroupFns, InnerReduce

\* The operators of the loops are no trivia.
LEMMA OperatorTables ==
  ASSUME NEW tok \in LeafKinds
  PROVE  /\ infixParselets[tok].class = "InfixOperator" =>
              /\ tok \notin Trivia
              /\ tok \in OperatorsOf([fn |-> "InfixOperatorParselet_parseLoop",
                                      P |-> infixParselets[tok]])
         /\ infixParselets[tok].class = "Comma" => tok \in Commas
         /\ infixParselets[tok].class = "Semi" => tok = "SEMI"
         /\ infixParselets[tok].class = "Times" => tok \in {"STAR", "FAKE_IMPLICITTIMES"}
         /\ infixParselets[tok].class = "Call" =>
              tok \in Openers /\ infixParselets[tok].closer = GroupOpenerToCloser(tok)
  <1> DEFINE l == [fn |-> "InfixOperatorParselet_parseLoop", P |-> infixParselets[tok]]
  <1>1. l.fn = "InfixOperatorParselet_parseLoop" /\ l.P = infixParselets[tok]
    OBVIOUS
  <1> HIDE DEF l
  <1>2. OperatorsOf(l) = {k \in LeafKinds : getOp(infixParselets[k]) = l.P.op}
    BY <1>1 DEF OperatorsOf
  <1>3. tok \in OperatorsOf(l)
    BY <1>1, <1>2 DEF getOp
  <1> QED  BY <1>3, OperatorTablesAssumption DEF l

LEMMA PlainOperators ==
  /\ OperatorsOf([fn |-> "CommaParselet_parseLoop", P |-> NoParselet]) = Commas
  /\ OperatorsOf([fn |-> "SemiParselet_parseLoop", P |-> NoParselet]) = {"SEMI"}
  /\ OperatorsOf([fn |-> "TimesParselet_parseLoop", P |-> NoParselet])
       = {"STAR", "FAKE_IMPLICITTIMES"}
  /\ (Commas \union {"SEMI", "STAR", "FAKE_IMPLICITTIMES"}) \intersect Trivia = {}
  BY DEF OperatorsOf, Commas, Trivia, Newlines

LEMMA parseInfix_abortFits == Inv /\ Inv' /\ Fitting /\ parseInfix_abort => Fitting'
  <1> SUFFICES ASSUME Inv, Inv', Fitting, parseInfix_abort PROVE Fitting'
    OBVIOUS
  <1>1. /\ Calling("parseInfix") /\ NodeStack' = Append(NodesBelow(NodeStack), AbortNode)
        /\ ContextStack' = Pop(ContextStack) /\ Goto("Parser_tryContinue")
        /\ UNCHANGED frames /\ UNCHANGED GroupStack
    BY DEF parseInfix_abort
  <1>2. call.fn \in RunningFns /\ call.fn \notin GroupFns
    BY <1>1, InfixCall
  <1> QED  BY <1>1, <1>2, AbortKept

LEMMA parseLoop_abortFits == Inv /\ Inv' /\ Fitting /\ parseLoop_abort => Fitting'
  <1> SUFFICES ASSUME Inv, Inv', Fitting, parseLoop_abort PROVE Fitting'
    OBVIOUS
  <1>1. /\ call.fn \in AbortableLoops
        /\ NodeStack' = Append(NodesBelow(Pop(NodeStack)), AbortNode)
        /\ ContextStack' = Pop(ContextStack) /\ Goto("Parser_tryContinue")
        /\ UNCHANGED frames /\ UNCHANGED GroupStack
    BY DEF parseLoop_abort
  <1>2. call.fn \in RunningFns /\ call.fn \notin GroupFns
    BY <1>1 DEF AbortableLoops, RunningFns, LoopFns, ParseFns, ContextSensitiveFns,
                GroupFns
  <1> QED  BY <1>1, <1>2, AbortKept

LEMMA BinaryFits ==
  Inv /\ Inv' /\ Fitting /\ BinaryOperatorParselet_parseInfix => Fitting'
  <1> DEFINE F    == "BinaryOperatorParselet_reduceBinaryOperator"
             ctxt == [ContextWith(F) EXCEPT !.P = call.P]
  <1> SUFFICES ASSUME Inv, Inv', Fitting, BinaryOperatorParselet_parseInfix
               PROVE  Fitting'
    OBVIOUS
  <1>1. Calling("parseInfix") /\ call.P.class = "BinaryOperator"
        /\ TakeOperand(call.tok, ctxt) /\ UNCHANGED <<GroupStack, frames>>
    BY DEF BinaryOperatorParselet_parseInfix, Infix
  <1>2. /\ call.fn \in RunningFns /\ call.fn \notin GroupFns /\ call.tok \in Token
        /\ call.tok.hi \in 0..Len(input) /\ call.P \in Parselet
    BY <1>1, InfixCall
  <1>3. F \in PlainFns /\ call.P.class \in ClassesFor(F)
    BY <1>1 DEF PlainFns, ContextFns, ReduceFns, LoopFns, ClassesFor
  <1>4. F \notin Unnamed \union GroupFns \union PlainLoops
    BY DEF Unnamed, GroupFns, PlainLoops
  <1> HIDE DEF F
  <1>5. ctxt.F = F /\ ctxt.Index = Parser_topContext.Index
    BY <1>2, <1>3, ContextWithFAndP
  <1> HIDE DEF ctxt
  <1> QED  BY <1>1, <1>2, <1>4, <1>5, TakeOperandFits

LEMMA PostfixFits ==
  Inv /\ Inv' /\ Fitting /\ PostfixOperatorParselet_parseInfix => Fitting'
  <1> SUFFICES ASSUME Inv, Inv', Fitting, PostfixOperatorParselet_parseInfix
               PROVE  Fitting'
    OBVIOUS
  <1> DEFINE fn == "PostfixOperatorParselet_reducePostfixOperator"
  <1>1. /\ Calling("parseInfix") /\ NodeStack' = Append(NodeStack, call.tok)
        /\ call'.fn = fn /\ UNCHANGED <<ContextStack, GroupStack, frames>>
    BY DEF PostfixOperatorParselet_parseInfix, TakeLeaf, Jump
  <1>2. /\ call.fn \in RunningFns /\ call.fn \notin GroupFns /\ LoopOf(call.fn) = "NULL"
        /\ call.tok \in Node
    BY <1>1, InfixCall, TokenIsNode
  <1>3. Grows(NodeStack, NodeStack')
    BY <1>1, <1>2, StackTypes, GrowsByOne
  <1>4. fn \in ReduceFns \ {InnerReduce} /\ LoopOf(fn) = "NULL"
    BY DEF ReduceFns, InnerReduce, LoopOf, LoopFns
  <1> QED  BY <1>1, <1>2, <1>3, <1>4, PartReduceFits

\* The loops that begin with an ordinary operator.
LEMMA TakesLoopOperand ==
  ASSUME Inv, Inv', Fitting, Calling("parseInfix"),
         NEW loop \in LoopFns \ {"GroupParselet_parseLoop"}, NEW P \in Parselet,
         P.class \in ClassesFor(loop), loop \in PlainLoops => P = NoParselet,
         call.tok.op \notin Trivia, call.tok.op \in OperatorsOf([fn |-> loop, P |-> P]),
         TakeOperand(call.tok, LoopContext(loop, P)), LoopCall(loop, P),
         UNCHANGED GroupStack
  PROVE  Fitting'
  <1>1. /\ NodeStack' = WithOperator(call.tok)
        /\ ContextStack' = TopContext(LoopContext(loop, P))
        /\ ParsePrefix(AfterOperator(call.tok))
    BY DEF TakeOperand, TakeOperator
  <1>2. call.tok \in Token /\ call.tok.hi \in 0..Len(input)
    BY InfixCall
  <1>3. AfterOperator(call.tok).op \in LeafKinds
    BY <1>2, OperatorType
  <1>4. /\ NodeStack' \in Seq(Node) /\ Grows(NodeStack, NodeStack')
        /\ Len(NodeStack) < Len(NodeStack') /\ NodeStack'[Len(NodeStack) + 1] = call.tok
    BY <1>1, <1>2, GrowsByOperator
  <1> QED  BY <1>1, <1>3, <1>4, TakeLoopOperandFits

LEMMA InfixOperatorFits ==
  Inv /\ Inv' /\ Fitting /\ InfixOperatorParselet_parseInfix => Fitting'
  <1> DEFINE loop == "InfixOperatorParselet_parseLoop"
  <1> SUFFICES ASSUME Inv, Inv', Fitting, InfixOperatorParselet_parseInfix
               PROVE  Fitting'
    OBVIOUS
  <1>1. /\ Calling("parseInfix") /\ call.P.class = "InfixOperator"
        /\ TakeOperand(call.tok, LoopContext(loop, call.P)) /\ LoopCall(loop, call.P)
        /\ UNCHANGED GroupStack
    BY DEF InfixOperatorParselet_parseInfix, Infix
  <1>2. call.P = infixParselets[call.tok.op] /\ call.tok.op \in LeafKinds
        /\ call.P \in Parselet
    BY <1>1, InfixCall
  <1>3. call.tok.op \notin Trivia
        /\ call.tok.op \in OperatorsOf([fn |-> loop, P |-> call.P])
    BY <1>1, <1>2, OperatorTables
  <1>4. loop \in LoopFns \ {"GroupParselet_parseLoop"} /\ loop \notin PlainLoops
        /\ call.P.class \in ClassesFor(loop)
    BY <1>1 DEF LoopFns, PlainLoops, ClassesFor
  <1> HIDE DEF loop
  <1> QED  BY <1>1, <1>2, <1>3, <1>4, TakesLoopOperand

LEMMA TimesFits == Inv /\ Inv' /\ Fitting /\ TimesParselet_parseInfix => Fitting'
  <1> DEFINE loop == "TimesParselet_parseLoop"
  <1> SUFFICES ASSUME Inv, Inv', Fitting, TimesParselet_parseInfix PROVE Fitting'
    OBVIOUS
  <1>1. /\ Calling("parseInfix") /\ call.P.class = "Times"
        /\ TakeOperand(call.tok, LoopContext(loop, NoParselet))
        /\ LoopCall(loop, NoParselet) /\ UNCHANGED GroupStack
    BY DEF TimesParselet_parseInfix, Infix
  <1>2. call.P = infixParselets[call.tok.op] /\ call.tok.op \in LeafKinds
    BY <1>1, InfixCall
  <1>3. call.tok.op \notin Trivia
        /\ call.tok.op \in OperatorsOf([fn |-> loop, P |-> NoParselet])
    BY <1>1, <1>2, OperatorTables, PlainOperators
  <1>4. loop \in LoopFns \ {"GroupParselet_parseLoop"} /\ NoParselet \in Parselet
        /\ NoParselet.class \in ClassesFor(loop)
    BY FreeLoops
  <1> HIDE DEF loop
  <1> QED  BY <1>1, <1>3, <1>4, TakesLoopOperand

\* A loop takes its operator and calls the parselet of its operand.
LEMMA ContinueLoopFits ==
  ASSUME Inv, Inv', Fitting, call.fn \in LoopFns, NEW q \in buffer..Len(input),
         NEW t \in Token, t.hi \in 0..Len(input), ContinueLoop(q, t, call.fn),
         UNCHANGED GroupStack
  PROVE  Fitting'
  <1>1. /\ NodeStack' = NodeStack \o TriviaTokens(buffer, q) \o <<t>>
                          \o TriviaTokens(t.hi, TriviaEnd(t.hi))
        /\ ParsePrefix(AfterOperator(t)) /\ LoopCall(call.fn, call.P)
        /\ UNCHANGED ContextStack
    BY DEF ContinueLoop
  <1>2. TriviaEnd(t.hi) \in (t.hi)..Len(input)
    BY TriviaEndType
  <1>3. Grows(NodeStack, NodeStack')
    BY <1>1, <1>2, GrowsInLoop
  <1>4. call'.fn = "parsePrefix" /\ CallFits(NodeStack', call', Parser_topContext)
    BY <1>1, OperatorType, ParsePrefixFits
  <1> QED  BY <1>1, <1>3, <1>4, AgainFits

\* Nor does the parselet of a loop that needs none.
LEMMA PlainLoopStillFits ==
  ASSUME Inv, Fitting, call.fn \in PlainLoops, IsIdentity(Parser_topContext),
         Grows(NodeStack, NodeStack'), NodeStack' \in Seq(Node), NEW lim \in Int,
         Len(NodeStack) - 1 <= lim, NEW P
  PROVE  Fits(NodeStack', [fn |-> call.fn, P |-> P], Parser_topContext, lim)
  <1> DEFINE l    == [fn |-> call.fn, P |-> call.P]
             k    == [fn |-> call.fn, P |-> P]
             ctxt == Parser_topContext
  <1>1. call.fn \in LoopFns /\ call.fn \notin GroupFns
    BY DEF PlainLoops, LoopFns, GroupFns
  <1>2. Fits(NodeStack', l, ctxt, lim)
    BY <1>1, LoopStillFits
  <1>3. l.fn = call.fn /\ k.fn = call.fn /\ k.fn # "GroupParselet_parseLoop"
    BY <1>1 DEF GroupFns
  <1>4. ~GroupMark(ctxt)
    BY <1>1, LoopsRun, TopOfRunning
  <1> HIDE DEF l, k, ctxt
  <1>5. Fits(NodeStack', k, ctxt, lim)
    <2>1. OperatorsOf(l) = OperatorsOf(k)
      BY <1>3 DEF OperatorsOf, PlainLoops
    <2> QED  BY <1>2, <1>3, <1>4, <2>1 DEF Fits, HasOperator
  <1> QED  BY <1>5 DEF k, ctxt

\* Nothing is parsed between two operators: the loop goes round again.
LEMMA RoundAgainFits ==
  ASSUME Inv, Inv', Fitting, call.fn \in PlainLoops, Grows(NodeStack, NodeStack'),
         Len(NodeStack) <= Len(NodeStack'),
         UNCHANGED <<ContextStack, GroupStack, frames>>,
         call'.fn = call.fn, call'.P = NoParselet
  PROVE  Fitting'
  <1> DEFINE ctxt == Parser_topContext
  <1>1. call.fn \in LoopFns /\ call.fn \notin GroupFns
    BY DEF PlainLoops, LoopFns, GroupFns
  <1>2. /\ call.fn \in RunningFns /\ LoopOf(call.fn) = call.fn
        /\ ctxt.F = LoopF(call.fn)
    BY <1>1, LoopCallFits
  <1>3. /\ ctxt \in Context /\ ContextFits(NodeStack, ctxt)
        /\ GroupMark(ctxt) <=> call.fn \in GroupFns
    BY <1>2, TopOfRunning
  <1>4. NodeStack' \in Seq(Node) /\ Len(NodeStack) \in Nat
    BY StackTypes, Zenon DEF Inv, TypeOK
  <1>5. Len(NodeStack') - 1 \in Int /\ Len(NodeStack) - 1 <= Len(NodeStack') - 1
    BY <1>4 DEF Grows
  <1>6. IsIdentity(ctxt) =>
          Fits(NodeStack', [fn |-> call'.fn, P |-> call'.P], ctxt, Len(NodeStack') - 1)
    <2> DEFINE lim == Len(NodeStack') - 1
    <2>1. lim \in Int /\ Len(NodeStack) - 1 <= lim
      BY <1>5
    <2> HIDE DEF lim
    <2>2. ASSUME IsIdentity(Parser_topContext)
          PROVE  Fits(NodeStack', [fn |-> call.fn, P |-> NoParselet], Parser_topContext, lim)
      BY <1>4, <2>1, <2>2, PlainLoopStillFits
    <2> QED  BY <2>2 DEF lim
  <1>7. USE_MUSTTAIL => ctxt.P = NoParselet
    <2>1. ctxt.F \in PlainLoops => ctxt.P = NoParselet
      BY <1>3 DEF ContextFits
    <2> QED  BY <1>2, <2>1 DEF LoopF
  <1> HIDE DEF ctxt
  <1>8. CallFits(NodeStack', call', ctxt)
    <2>1. TopFits(call', ctxt)
      BY <1>1, <1>3, <1>7, LoopOfFacts DEF TopFits, PlainLoops, PartLoops, TagFns, LoopFns
    <2>2. ArgumentsFit(call')
      BY DEF ArgumentsFit, PlainLoops, ContextSensitiveFns
    <2>3. NodesFit(NodeStack', call', ctxt)
      BY <1>2, <1>6 DEF NodesFit, PlainLoops
    <2> QED  BY <2>1, <2>2, <2>3 DEF CallFits
  <1> QED  BY <1>2, <1>8, StayFits DEF ctxt

\* It ends without the parselet.
LEMMA EndPlainLoopFits ==
  ASSUME Inv, Inv', Fitting, call.fn \in PlainLoops, Grows(NodeStack, NodeStack'),
         UNCHANGED <<ContextStack, GroupStack, frames>>,
         NEW reduceFn \in ReduceFns \ {InnerReduce}, call'.fn = reduceFn,
         LoopOf(reduceFn) = call.fn
  PROVE  Fitting'
  <1>1. call.fn \in LoopFns
    BY DEF PlainLoops, LoopFns
  <1>2. reduceFn \in GroupFns <=> call.fn \in GroupFns
    BY <1>1 DEF LoopOf, GroupFns, LoopFns, ReduceFns
  <1>3. call.fn \in RunningFns /\ LoopOf(reduceFn) # "NULL"
    BY <1>1, LoopsRun DEF LoopFns
  <1>4. NodeStack' \in Seq(Node) /\ Len(NodeStack) \in Nat
    BY StackTypes, Zenon DEF Inv, TypeOK
  <1>5. Len(NodeStack') - 1 \in Int /\ Len(NodeStack) - 1 <= Len(NodeStack') - 1
    BY <1>4 DEF Grows
  <1>6. LoopOf(reduceFn) # "NULL" /\ IsIdentity(Parser_topContext) =>
          Fits(NodeStack', [fn |-> LoopOf(reduceFn), P |-> call'.P],
               Parser_topContext, Len(NodeStack') - 1)
    BY <1>4, <1>5, PlainLoopStillFits
  <1> QED  BY <1>2, <1>3, <1>6, ReduceNextFits

\* A loop that sees no operator of its own.
LEMMA NoOperatorFits ==
  ASSUME Inv, Inv', Fitting, call.fn \in LoopFns, NEW q, NEW fn \in ReduceFns \ {InnerReduce},
         LoopOf(fn) = call.fn, EndLoop(q, fn), UNCHANGED GroupStack
  PROVE  Fitting'
  <1>1. /\ UNCHANGED <<ContextStack, GroupStack, frames>> /\ UNCHANGED NodeStack
        /\ call'.fn = fn /\ call'.P = call.P
    BY DEF EndLoop, Jump
  <1>2. Grows(NodeStack, NodeStack')
    BY <1>1, Unchanged
  <1> QED  BY <1>1, <1>2, EndLoopFits

LEMMA InfixOperatorLoopFits ==
  Inv /\ Inv' /\ Fitting /\ InfixOperatorParselet_parseLoop => Fitting'
  <1> DEFINE loop == "InfixOperatorParselet_parseLoop"
             q    == TriviaEnd(buffer)
             Tok1 == Tokenizer_currentToken(q)
             fn   == "InfixOperatorParselet_reduceInfixOperator"
  <1> SUFFICES ASSUME Inv, Inv', Fitting, InfixOperatorParselet_parseLoop
               PROVE  Fitting'
    OBVIOUS
  <1>1. /\ call.fn = loop /\ UNCHANGED GroupStack
        /\ \/ EndLoop(q, fn)
           \/ /\ getOp(infixParselets[Tok1.op]) = call.P.op
              /\ ContinueLoop(q, Tok1, loop)
    BY DEF InfixOperatorParselet_parseLoop, Looping, Calling
  <1>2. loop \in LoopFns /\ call.fn \in LoopFns
    BY <1>1 DEF LoopFns
  <1>3. q \in buffer..Len(input) /\ Tok1 \in Token
        /\ (Tok1.op # "ENDOFFILE" => Tok1.hi \in 0..Len(input))
    BY StackTypes, TriviaEndType, TokenAt
  <1>4. CASE EndLoop(q, fn)
    <2>1. fn \in ReduceFns \ {InnerReduce} /\ LoopOf(fn) = call.fn
      BY <1>1, LoopOfFacts
    <2> HIDE DEF fn, q
    <2> QED  BY <1>1, <1>2, <1>4, <2>1, NoOperatorFits
  <1>5. CASE getOp(infixParselets[Tok1.op]) = call.P.op /\ ContinueLoop(q, Tok1, loop)
    <2>1. call.P \in Parselet /\ call.P.class = "InfixOperator"
      BY <1>1, StackTypes, CallFields DEF ClassesFor
    <2>2. Tok1.op # "ENDOFFILE"
      BY <1>5, <2>1, ParseletFields, EndOfFileAssumption DEF getOp, New
    <2> HIDE DEF loop, q, Tok1
    <2> QED  BY <1>1, <1>2, <1>3, <1>5, <2>2, ContinueLoopFits
  <1> QED  BY <1>1, <1>4, <1>5

LEMMA TimesLoopFits == Inv /\ Inv' /\ Fitting /\ TimesParselet_parseLoop => Fitting'
  <1> DEFINE loop == "TimesParselet_parseLoop"
             q    == TimesLoopEnd
             t    == TimesAt(q)
             fn   == "TimesParselet_reduceTimes"
  <1> SUFFICES ASSUME Inv, Inv', Fitting, TimesParselet_parseLoop PROVE Fitting'
    OBVIOUS
  <1>1. /\ call.fn = loop /\ UNCHANGED GroupStack
        /\ \/ EndLoop(q, fn)
           \/ infixParselets[t.op].class = "Times" /\ ContinueLoop(q, t, loop)
    BY DEF TimesParselet_parseLoop, Looping, Calling
  <1>2. loop \in LoopFns /\ call.fn \in LoopFns
    BY <1>1, FreeLoops
  <1>3. q \in buffer..Len(input) /\ q \in 0..Len(input)
    BY TimesLoopEndType
  <1>4. CASE EndLoop(q, fn)
    <2>1. fn \in ReduceFns \ {InnerReduce} /\ LoopOf(fn) = call.fn
      BY <1>1, LoopOfFacts
    <2> HIDE DEF fn, q
    <2> QED  BY <1>1, <1>2, <1>4, <2>1, NoOperatorFits
  <1>5. CASE infixParselets[t.op].class = "Times" /\ ContinueLoop(q, t, loop)
    <2>1. t \in Token /\ t.hi \in 0..Len(input)
      BY <1>3, <1>5, TimesAtType
    <2> HIDE DEF loop, q, t
    <2> QED  BY <1>1, <1>2, <1>3, <1>5, <2>1, ContinueLoopFits
  <1> QED  BY <1>1, <1>4, <1>5

\* The operator that begins a loop, when nothing is parsed behind it.
LEMMA BeginsEmptyFits ==
  ASSUME Inv, Inv', Fitting, Calling("parseInfix"), NEW loop \in PlainLoops,
         call.tok.op \notin Trivia,
         call.tok.op \in OperatorsOf([fn |-> loop, P |-> NoParselet]),
         NodeStack' \in Seq(Node), Grows(NodeStack, NodeStack'),
         Len(NodeStack) + 1 < Len(NodeStack'), NodeStack'[Len(NodeStack) + 1] = call.tok,
         ContextStack' = TopContext(LoopContext(loop, NoParselet)),
         call'.fn = loop, call'.P = NoParselet, UNCHANGED <<GroupStack, frames>>
  PROVE  Fitting'
  <1> DEFINE ctxt == LoopContext(loop, NoParselet)
             l    == [fn |-> loop, P |-> NoParselet]
  <1>1. /\ loop \in LoopFns \ {"GroupParselet_parseLoop"} /\ loop \in RunningFns
        /\ NoParselet \in Parselet /\ NoParselet.class \in ClassesFor(loop)
    BY FreeLoops DEF PlainLoops
  <1>2. /\ ctxt \in Context /\ ctxt.Index = Parser_topContext.Index
        /\ ctxt.F = LoopF(loop) /\ ~GroupMark(ctxt) /\ ctxt.F \notin GroupFns
        /\ ctxt.F \in PlainLoops => ctxt.P = NoParselet
        /\ USE_MUSTTAIL => ctxt.P = NoParselet
    BY <1>1, LoopContextFields
  <1>3. call.fn \in RunningFns /\ call.fn \notin GroupFns
    BY InfixCall
  <1>4. Len(NodeStack') - 1 \in Int /\ Len(NodeStack) + 1 <= Len(NodeStack') - 1
    BY StackTypes
  <1>5. l.fn # "GroupParselet_parseLoop"
    BY <1>1
  <1> HIDE DEF ctxt, l
  <1>6. ContextFits(NodeStack', ctxt)
    BY <1>2, <1>3, StillFits
  <1>7. Fits(NodeStack', l, ctxt, Len(NodeStack') - 1)
    <2>1. HasOperator(NodeStack', l, ctxt, Len(NodeStack') - 1)
      BY <1>2, <1>4, OperatorTaken DEF l
    <2> QED  BY <1>2, <1>5, <2>1 DEF Fits
  <1>8. CallFits(NodeStack', call', ctxt)
    <2>1. TopFits(call', ctxt)
      BY <1>1, <1>2, LoopOfFacts DEF TopFits, PlainLoops, PartLoops, TagFns, GroupFns
    <2>2. ArgumentsFit(call')
      BY DEF ArgumentsFit, PlainLoops, ContextSensitiveFns
    <2>3. NodesFit(NodeStack', call', ctxt)
      <3>1. LoopOf(call'.fn) = loop
        BY <1>1, LoopOfFacts
      <3>2. [fn |-> LoopOf(call'.fn), P |-> call'.P] = l
        BY <3>1 DEF l
      <3>3. call'.fn # "parseInfix" /\ call'.fn # "Parser_parseClimb"
        BY DEF PlainLoops
      <3> QED  BY <1>7, <3>2, <3>3 DEF NodesFit
    <2> QED  BY <2>1, <2>2, <2>3 DEF CallFits
  <1> QED  BY <1>1, <1>2, <1>3, <1>6, <1>8, StayKept DEF ctxt

\* One more node behind others.
LEMMA GrowsWithOne ==
  ASSUME Inv, NEW nodes \in Seq(Node), Grows(NodeStack, nodes), NEW N \in Node
  PROVE  /\ Grows(NodeStack, Append(nodes, N)) /\ Append(nodes, N) \in Seq(Node)
         /\ Len(Append(nodes, N)) = Len(nodes) + 1 /\ Len(nodes) \in Nat
         /\ \A i \in 1..Len(nodes) : Append(nodes, N)[i] = nodes[i]
  <1>1. NodeStack \in Seq(Node)
    BY StackTypes
  <1>2. /\ Grows(nodes, Append(nodes, N)) /\ Append(nodes, N) \in Seq(Node)
        /\ Len(Append(nodes, N)) = Len(nodes) + 1 /\ Len(nodes) \in Nat
    BY GrowsByOne
  <1> QED  BY <1>1, <1>2, GrowsFurther DEF Grows, Agree

LEMMA CommaInfixFits == Inv /\ Inv' /\ Fitting /\ CommaParselet_parseInfix => Fitting'
  <1> DEFINE loop == "CommaParselet_parseLoop"
             Tok2 == AfterOperator(call.tok)
             ctxt == LoopContext(loop, NoParselet)
             w    == WithOperator(call.tok)
             E    == Empty("ERROR_INFIXIMPLICITNULL", Tok2)
  <1> SUFFICES ASSUME Inv, Inv', Fitting, CommaParselet_parseInfix PROVE Fitting'
    OBVIOUS
  <1>1. /\ Calling("parseInfix") /\ call.P.class = "Comma"
        /\ ContextStack' = TopContext(ctxt) /\ UNCHANGED GroupStack
        /\ \/ ImplicitOperand("ERROR_INFIXIMPLICITNULL", Tok2, w, loop) /\ UNCHANGED frames
           \/ NodeStack' = w /\ ParsePrefix(Tok2) /\ LoopCall(loop, NoParselet)
    BY DEF CommaParselet_parseInfix, Infix
  <1>2. /\ call.tok \in Token /\ call.tok.hi \in 0..Len(input)
        /\ call.tok.op \in LeafKinds /\ call.P = infixParselets[call.tok.op]
    BY <1>1, InfixCall
  <1>3. call.tok.op \notin Trivia
        /\ call.tok.op \in OperatorsOf([fn |-> loop, P |-> NoParselet])
    BY <1>1, <1>2, OperatorTables, PlainOperators
  <1>4. /\ loop \in LoopFns \ {"GroupParselet_parseLoop"} /\ NoParselet \in Parselet
        /\ NoParselet.class \in ClassesFor(loop) /\ loop \in PlainLoops
    BY FreeLoops DEF PlainLoops
  <1>5. /\ Grows(NodeStack, w) /\ w \in Seq(Node) /\ Len(NodeStack) < Len(w)
        /\ w[Len(NodeStack) + 1] = call.tok /\ Len(NodeStack) \in Nat
    BY <1>2, StackTypes, GrowsByOperator
  <1>6. Tok2 \in Token /\ Tok2.op \in LeafKinds
    BY <1>2, OperatorType
  <1> HIDE DEF loop, Tok2, ctxt, w
  <1>7. CASE ImplicitOperand("ERROR_INFIXIMPLICITNULL", Tok2, w, loop) /\ UNCHANGED frames
    <2>1. NodeStack' = Append(w, E) /\ call'.fn = loop /\ call'.P = NoParselet
      BY <1>7 DEF ImplicitOperand, Jump
    <2>2. E \in Node
      BY <1>6, ErrorKinds, EmptyType, TokenIsNode
    <2> HIDE DEF E
    <2>3. /\ NodeStack' \in Seq(Node) /\ Grows(NodeStack, NodeStack')
          /\ Len(NodeStack') = Len(w) + 1 /\ Len(w) \in Nat
          /\ \A i \in 1..Len(w) : NodeStack'[i] = w[i]
      BY <1>5, <2>1, <2>2, GrowsWithOne
    <2>4. Len(NodeStack) + 1 < Len(NodeStack') /\ Len(NodeStack) + 1 \in 1..Len(w)
      BY <1>5, <2>3
    <2>5. NodeStack'[Len(NodeStack) + 1] = call.tok
      BY <1>5, <2>3, <2>4
    <2> QED  BY <1>1, <1>3, <1>4, <1>7, <2>1, <2>3, <2>4, <2>5, BeginsEmptyFits DEF ctxt
  <1>8. CASE NodeStack' = w /\ ParsePrefix(Tok2) /\ LoopCall(loop, NoParselet)
    BY <1>1, <1>3, <1>4, <1>5, <1>6, <1>8, TakeLoopOperandFits DEF ctxt
  <1> QED  BY <1>1, <1>7, <1>8

LEMMA CommaLoopFits == Inv /\ Inv' /\ Fitting /\ CommaParselet_parseLoop => Fitting'
  <1> DEFINE loop  == "CommaParselet_parseLoop"
             q     == TriviaEnd(buffer)
             Tok1  == Tokenizer_currentToken(q)
             Tok2  == AfterOperator(Tok1)
             nodes == NodeStack \o TriviaTokens(buffer, q) \o <<Tok1>>
                        \o TriviaTokens(Tok1.hi, Tok2.lo)
             fn    == "CommaParselet_reduceComma"
             E     == Empty("ERROR_INFIXIMPLICITNULL", Tok2)
  <1> SUFFICES ASSUME Inv, Inv', Fitting, CommaParselet_parseLoop PROVE Fitting'
    OBVIOUS
  <1>1. /\ call.fn = loop /\ UNCHANGED GroupStack
        /\ \/ EndLoop(q, fn)
           \/ /\ Tok1.op \in Commas
              /\ ImplicitOperand("ERROR_INFIXIMPLICITNULL", Tok2, nodes, loop)
              /\ UNCHANGED <<ContextStack, frames>>
           \/ Tok1.op \in Commas /\ ContinueLoop(q, Tok1, loop)
    BY DEF CommaParselet_parseLoop, Looping, Calling
  <1>2. loop \in LoopFns /\ call.fn \in LoopFns /\ call.fn \in PlainLoops
    BY <1>1, FreeLoops DEF PlainLoops
  <1>3. q \in buffer..Len(input) /\ Tok1 \in Token
        /\ (Tok1.op # "ENDOFFILE" => Tok1.hi \in 0..Len(input))
    BY StackTypes, TriviaEndType, TokenAt
  <1>4. CASE EndLoop(q, fn)
    <2>1. fn \in ReduceFns \ {InnerReduce} /\ LoopOf(fn) = call.fn
      BY <1>1, LoopOfFacts
    <2> HIDE DEF fn, q
    <2> QED  BY <1>1, <1>2, <1>4, <2>1, NoOperatorFits
  <1>5. CASE /\ Tok1.op \in Commas
             /\ ImplicitOperand("ERROR_INFIXIMPLICITNULL", Tok2, nodes, loop)
             /\ UNCHANGED <<ContextStack, frames>>
    <2>1. Tok1.hi \in 0..Len(input)
      BY <1>3, <1>5 DEF Commas
    <2>2. Tok2 \in Token /\ Tok2.lo \in (Tok1.hi)..Len(input)
      <3> HIDE DEF Tok1
      <3> QED  BY <1>3, <2>1, OperatorType, TriviaEndType
    <2>3. nodes \in Seq(Node) /\ Grows(NodeStack, nodes)
      <3> HIDE DEF q, Tok1, Tok2
      <3> QED  BY <1>3, <2>1, <2>2, GrowsInLoop
    <2> HIDE DEF q, Tok1, Tok2, nodes, loop
    <2>4. NodeStack' = Append(nodes, E) /\ call'.fn = loop /\ call'.P = NoParselet
      BY <1>5 DEF ImplicitOperand, Jump
    <2>5. E \in Node
      BY <2>2, ErrorKinds, EmptyType, TokenIsNode
    <2> HIDE DEF E
    <2>6. Grows(NodeStack, NodeStack')
      BY <2>3, <2>4, <2>5, GrowsWithOne
    <2>7. Len(NodeStack) <= Len(NodeStack')
      BY <2>6 DEF Grows
    <2> QED  BY <1>1, <1>2, <1>5, <2>4, <2>6, <2>7, RoundAgainFits
  <1>6. CASE Tok1.op \in Commas /\ ContinueLoop(q, Tok1, loop)
    <2>1. Tok1.op # "ENDOFFILE"
      BY <1>6 DEF Commas
    <2> HIDE DEF loop, q, Tok1
    <2> QED  BY <1>1, <1>2, <1>3, <1>6, <2>1, ContinueLoopFits
  <1> QED  BY <1>1, <1>4, <1>5, <1>6

\* A loop that needs no parselet calls its next operand's.
LEMMA PlainAgainFits ==
  ASSUME Inv, Inv', Fitting, call.fn \in PlainLoops, Grows(NodeStack, NodeStack'),
         UNCHANGED <<ContextStack, GroupStack>>, LoopCall(call.fn, NoParselet),
         NEW t, t.op \in LeafKinds, ParsePrefix(t)
  PROVE  Fitting'
  <1> DEFINE ctxt == Parser_topContext
             l    == [fn |-> call.fn, P |-> NoParselet]
  <1>1. /\ call.fn \in RunningFns /\ ctxt.F = LoopF(call.fn) /\ call.fn \in LoopFns
        /\ NoParselet \in Parselet /\ NoParselet.class \in ClassesFor(call.fn)
    BY FreeLoops, LoopCallFits DEF PlainLoops
  <1>2. /\ ctxt \in Context /\ ContextStack # <<>> /\ ContextFits(NodeStack, ctxt)
        /\ GroupMark(ctxt) <=> call.fn \in GroupFns
    BY <1>1, TopOfRunning
  <1>3. ContextStack' = TopContext(ctxt)
    BY <1>2, UnchangedTop
  <1>4. ContextFits(NodeStack', ctxt)
    BY <1>1, <1>2, StillFits DEF ContextFits
  <1>5. NodeStack' \in Seq(Node) /\ Len(NodeStack) \in Nat
    BY StackTypes, Zenon DEF Inv, TypeOK
  <1>6. Len(NodeStack') \in Int /\ Len(NodeStack) - 1 <= Len(NodeStack')
    BY <1>5 DEF Grows
  <1>7. ~USE_MUSTTAIL => Fits(NodeStack', l, ctxt, Len(NodeStack'))
    <2>1. ~USE_MUSTTAIL => IsIdentity(ctxt)
      BY <1>1 DEF LoopF, IsIdentity
    <2> QED  BY <1>5, <1>6, <2>1, PlainLoopStillFits
  <1> HIDE DEF ctxt, l
  <1>8. ctxt.Index = Parser_topContext.Index
        /\ call'.fn = "parsePrefix" /\ CallFits(NodeStack', call', ctxt)
    BY ParsePrefixFits DEF ctxt
  <1> QED  BY <1>1, <1>2, <1>3, <1>4, <1>7, <1>8, LoopOperandKept DEF l

\* What follows a semicolon: another, an operand, or nothing.
LEMMA AfterSemiFacts ==
  ASSUME Inv, NEW nodes \in Seq(Node), Grows(NodeStack, nodes), NEW q \in 0..Len(input),
         AfterSemi(nodes, Tokenizer_currentToken(q))
  PROVE  LET t == Tokenizer_currentToken(q)
             more == Append(nodes, Empty("FAKE_IMPLICITNULL", t))
         IN /\ \/ /\ t.op = "SEMI" /\ NodeStack' = more /\ UNCHANGED frames
                  /\ call'.fn = "SemiParselet_parseLoop" /\ call'.P = NoParselet
               \/ /\ t.op \in PossibleBeginning /\ NodeStack' = nodes /\ ParsePrefix(t)
                  /\ LoopCall("SemiParselet_parseLoop", NoParselet)
               \/ /\ t.op \notin PossibleBeginning \union {"SEMI"}
                  /\ NodeStack' = more /\ UNCHANGED frames
                  /\ call'.fn = "SemiParselet_reduceCompoundExpression"
            /\ t.op \in LeafKinds
            /\ Grows(NodeStack, more) /\ more \in Seq(Node)
            /\ Len(more) = Len(nodes) + 1 /\ Len(nodes) \in Nat
            /\ \A i \in 1..Len(nodes) : more[i] = nodes[i]
  <1> DEFINE t    == Tokenizer_currentToken(q)
             E    == Empty("FAKE_IMPLICITNULL", t)
             more == Append(nodes, E)
  <1>1. t \in Token /\ t.op \in LeafKinds
    BY TokenAt
  <1> HIDE DEF t
  <1>2. E \in Node
    BY <1>1, ErrorKinds, EmptyType, TokenIsNode
  <1>3. AfterSemi(nodes, t)
    BY DEF t
  <1>4. \/ /\ t.op = "SEMI" /\ NodeStack' = more /\ UNCHANGED frames
           /\ call'.fn = "SemiParselet_parseLoop" /\ call'.P = NoParselet
        \/ /\ t.op \in PossibleBeginning /\ NodeStack' = nodes /\ ParsePrefix(t)
           /\ LoopCall("SemiParselet_parseLoop", NoParselet)
        \/ /\ t.op \notin PossibleBeginning \union {"SEMI"}
           /\ NodeStack' = more /\ UNCHANGED frames
           /\ call'.fn = "SemiParselet_reduceCompoundExpression"
    BY <1>3 DEF AfterSemi, ImplicitOperand, Goto, Jump
  <1> HIDE DEF E
  <1>5. /\ Grows(NodeStack, more) /\ more \in Seq(Node)
        /\ Len(more) = Len(nodes) + 1 /\ Len(nodes) \in Nat
        /\ \A i \in 1..Len(nodes) : more[i] = nodes[i]
    BY <1>2, GrowsWithOne
  <1> QED  BY <1>1, <1>4, <1>5 DEF t, E

LEMMA SemiInfixFits == Inv /\ Inv' /\ Fitting /\ SemiParselet_parseInfix => Fitting'
  <1> DEFINE t     == call.tok
             q     == TriviaButNotToplevelNewlinesEnd(t.hi)
             Tok2  == Tokenizer_currentToken(q)
             s     == Append(NodeStack, t)
             nodes == s \o TriviaTokens(t.hi, q)
             more  == Append(nodes, Empty("FAKE_IMPLICITNULL", Tok2))
             loop  == "SemiParselet_parseLoop"
             fn    == "SemiParselet_reduceCompoundExpression"
  <1> SUFFICES ASSUME Inv, Inv', Fitting, SemiParselet_parseInfix PROVE Fitting'
    OBVIOUS
  <1>1. /\ Calling("parseInfix") /\ call.P.class = "Semi" /\ AfterSemi(nodes, Tok2)
        /\ UNCHANGED GroupStack
        /\ IF Tok2.op \in PossibleBeginning \union {"SEMI"}
           THEN ContextStack' = TopContext(LoopContext(loop, NoParselet))
           ELSE UNCHANGED ContextStack
    BY DEF SemiParselet_parseInfix, Infix
  <1>2. /\ call.fn \in RunningFns /\ t \in Token /\ t.hi \in 0..Len(input)
        /\ t.op \in LeafKinds /\ call.P = infixParselets[t.op] /\ call.fn \notin GroupFns
    BY <1>1, InfixCall
  <1>3. t.op \notin Trivia /\ t.op \in OperatorsOf([fn |-> loop, P |-> NoParselet])
    BY <1>1, <1>2, OperatorTables, PlainOperators
  <1>4. /\ loop \in LoopFns \ {"GroupParselet_parseLoop"} /\ NoParselet \in Parselet
        /\ NoParselet.class \in ClassesFor(loop) /\ loop \in PlainLoops
    BY FreeLoops DEF PlainLoops
  <1>5. q \in (t.hi)..Len(input) /\ q \in 0..Len(input)
    BY <1>2, TriviaEndType
  <1>6. /\ Grows(NodeStack, nodes) /\ nodes \in Seq(Node)
        /\ Len(NodeStack) < Len(nodes) /\ nodes[Len(NodeStack) + 1] = t
        /\ Len(NodeStack) \in Nat /\ Len(nodes) \in Nat
        /\ Len(NodeStack) + 1 \in 1..Len(nodes)
    <2> HIDE DEF t, q, s
    <2>1. NodeStack \in Seq(Node) /\ t \in Node
      BY <1>2, StackTypes, TokenIsNode
    <2>2. /\ Grows(NodeStack, s) /\ Len(s) = Len(NodeStack) + 1 /\ s \in Seq(Node)
          /\ s[Len(NodeStack) + 1] = t /\ Len(NodeStack) \in Nat
      BY <2>1, GrowsByOne DEF s
    <2>3. Grows(s, nodes) /\ nodes \in Seq(Node)
      BY <1>2, <1>5, <2>2, GrowsSomeTrivia
    <2> HIDE DEF nodes
    <2>4. Grows(NodeStack, nodes)
      BY <2>1, <2>2, <2>3, GrowsFurther
    <2>5. Len(nodes) \in Nat /\ Len(s) <= Len(nodes)
      BY <2>3 DEF Grows
    <2>6. Len(NodeStack) < Len(nodes) /\ Len(NodeStack) + 1 \in 1..Len(nodes)
          /\ Len(NodeStack) + 1 \in 1..Len(s)
      BY <2>2, <2>5
    <2> QED  BY <2>2, <2>3, <2>4, <2>5, <2>6 DEF Grows, Agree
  <1> HIDE DEF t, q, s, nodes
  <1>7. /\ \/ /\ Tok2.op = "SEMI" /\ NodeStack' = more /\ UNCHANGED frames
              /\ call'.fn = loop /\ call'.P = NoParselet
           \/ /\ Tok2.op \in PossibleBeginning /\ NodeStack' = nodes
              /\ ParsePrefix(Tok2) /\ LoopCall(loop, NoParselet)
           \/ /\ Tok2.op \notin PossibleBeginning \union {"SEMI"}
              /\ NodeStack' = more /\ UNCHANGED frames /\ call'.fn = fn
        /\ Tok2.op \in LeafKinds
        /\ Grows(NodeStack, more) /\ more \in Seq(Node)
        /\ Len(more) = Len(nodes) + 1
        /\ \A i \in 1..Len(nodes) : more[i] = nodes[i]
    BY <1>1, <1>5, <1>6, AfterSemiFacts
  <1> HIDE DEF Tok2, more
  <1>8. CASE /\ Tok2.op = "SEMI" /\ NodeStack' = more /\ UNCHANGED frames
             /\ call'.fn = loop /\ call'.P = NoParselet
    <2>1. Len(NodeStack) + 1 < Len(NodeStack') /\ NodeStack'[Len(NodeStack) + 1] = t
      BY <1>6, <1>7, <1>8
    <2>2. ContextStack' = TopContext(LoopContext(loop, NoParselet))
      BY <1>1, <1>8
    <2> QED  BY <1>1, <1>3, <1>4, <1>7, <1>8, <2>1, <2>2, BeginsEmptyFits DEF t
  <1>9. CASE /\ Tok2.op \in PossibleBeginning /\ NodeStack' = nodes
             /\ ParsePrefix(Tok2) /\ LoopCall(loop, NoParselet)
    <2>1. ContextStack' = TopContext(LoopContext(loop, NoParselet))
      BY <1>1, <1>9
    <2> QED  BY <1>1, <1>3, <1>4, <1>6, <1>7, <1>9, <2>1, TakeLoopOperandFits DEF t
  <1>10. CASE /\ Tok2.op \notin PossibleBeginning \union {"SEMI"}
              /\ NodeStack' = more /\ UNCHANGED frames /\ call'.fn = fn
    <2>1. fn \in ReduceFns \ {InnerReduce} /\ fn \notin GroupFns
      BY LoopOfFacts
    <2>2. UNCHANGED <<ContextStack, GroupStack, frames>>
      BY <1>1, <1>10
    <2>3. ~IsIdentity(Parser_topContext)
      BY <1>1, InfixCall DEF IsIdentity
    <2> HIDE DEF fn
    <2> QED  BY <1>2, <1>7, <1>10, <2>1, <2>2, <2>3, ReduceNextFits
  <1> QED  BY <1>7, <1>8, <1>9, <1>10

LEMMA SemiLoopFits == Inv /\ Inv' /\ Fitting /\ SemiParselet_parseLoop => Fitting'
  <1> DEFINE loop  == "SemiParselet_parseLoop"
             q     == TriviaEnd(buffer)
             Tok1  == Tokenizer_currentToken(q)
             r     == TriviaButNotToplevelNewlinesEnd(Tok1.hi)
             Tok2  == Tokenizer_currentToken(r)
             nodes == NodeStack \o TriviaTokens(buffer, q) \o <<Tok1>>
                        \o TriviaTokens(Tok1.hi, r)
             more  == Append(nodes, Empty("FAKE_IMPLICITNULL", Tok2))
             fn    == "SemiParselet_reduceCompoundExpression"
  <1> SUFFICES ASSUME Inv, Inv', Fitting, SemiParselet_parseLoop PROVE Fitting'
    OBVIOUS
  <1>1. /\ call.fn = loop /\ UNCHANGED GroupStack
        /\ \/ EndLoop(q, fn)
           \/ Tok1.op = "SEMI" /\ AfterSemi(nodes, Tok2) /\ UNCHANGED ContextStack
    BY DEF SemiParselet_parseLoop, Looping, Calling
  <1>2. /\ loop \in LoopFns /\ call.fn \in LoopFns /\ call.fn \in PlainLoops
        /\ call.fn \in RunningFns
    BY <1>1, FreeLoops DEF PlainLoops
  <1>3. q \in buffer..Len(input) /\ Tok1 \in Token
        /\ (Tok1.op # "ENDOFFILE" => Tok1.hi \in 0..Len(input))
    BY StackTypes, TriviaEndType, TokenAt
  <1>4. fn \in ReduceFns \ {InnerReduce} /\ LoopOf(fn) = call.fn
    BY <1>1, LoopOfFacts
  <1>5. CASE EndLoop(q, fn)
    <2> HIDE DEF fn, q
    <2> QED  BY <1>1, <1>2, <1>4, <1>5, NoOperatorFits
  <1>6. CASE Tok1.op = "SEMI" /\ AfterSemi(nodes, Tok2) /\ UNCHANGED ContextStack
    <2>1. Tok1.hi \in 0..Len(input)
      BY <1>3, <1>6
    <2>2. r \in (Tok1.hi)..Len(input) /\ r \in 0..Len(input)
      <3> HIDE DEF Tok1
      <3> QED  BY <2>1, TriviaEndType
    <2>3. nodes \in Seq(Node) /\ Grows(NodeStack, nodes)
      <3> HIDE DEF q, Tok1, r
      <3> QED  BY <1>3, <2>1, <2>2, GrowsInLoop
    <2> HIDE DEF q, Tok1, r, nodes
    <2>4. /\ \/ /\ Tok2.op = "SEMI" /\ NodeStack' = more /\ UNCHANGED frames
                /\ call'.fn = loop /\ call'.P = NoParselet
             \/ /\ Tok2.op \in PossibleBeginning /\ NodeStack' = nodes
                /\ ParsePrefix(Tok2) /\ LoopCall(loop, NoParselet)
             \/ /\ Tok2.op \notin PossibleBeginning \union {"SEMI"}
                /\ NodeStack' = more /\ UNCHANGED frames /\ call'.fn = fn
          /\ Tok2.op \in LeafKinds
          /\ Grows(NodeStack, more)
      BY <1>6, <2>2, <2>3, AfterSemiFacts
    <2> HIDE DEF Tok2, more
    <2>5. CASE /\ Tok2.op = "SEMI" /\ NodeStack' = more /\ UNCHANGED frames
               /\ call'.fn = loop /\ call'.P = NoParselet
      <3>1. Len(NodeStack) <= Len(NodeStack')
        BY <2>4, <2>5 DEF Grows
      <3> QED  BY <1>1, <1>2, <1>6, <2>4, <2>5, <3>1, RoundAgainFits
    <2>6. CASE /\ Tok2.op \in PossibleBeginning /\ NodeStack' = nodes
               /\ ParsePrefix(Tok2) /\ LoopCall(loop, NoParselet)
      BY <1>1, <1>2, <1>6, <2>3, <2>4, <2>6, PlainAgainFits
    <2>7. CASE /\ Tok2.op \notin PossibleBeginning \union {"SEMI"}
               /\ NodeStack' = more /\ UNCHANGED frames /\ call'.fn = fn
      <3> HIDE DEF fn
      <3> QED  BY <1>1, <1>2, <1>4, <1>6, <2>4, <2>7, EndPlainLoopFits
    <2> QED  BY <2>4, <2>5, <2>6, <2>7
  <1> QED  BY <1>1, <1>5, <1>6

LEMMA OperatorStepFits == Inv /\ Inv' /\ Fitting /\ OperatorNext => Fitting'
  <1> SUFFICES ASSUME Inv, Inv', Fitting, OperatorNext PROVE Fitting'
    OBVIOUS
  <1> DEFINE R == (ReduceFns \ GroupFns) \ {InnerReduce}
             K == NodeKinds \ {"Leaf"}
  <1>1. /\ {"BinaryOperatorParselet_reduceBinaryOperator",
            "PostfixOperatorParselet_reducePostfixOperator",
            "InfixOperatorParselet_reduceInfixOperator",
            "TimesParselet_reduceTimes", "CommaParselet_reduceComma",
            "SemiParselet_reduceCompoundExpression"} \subseteq R
        /\ {"Binary", "Postfix", "Infix"} \subseteq K
    BY DEF ReduceFns, GroupFns, InnerReduce, NodeKinds
  <1>2. CASE BinaryOperatorParselet_reduceBinaryOperator
    BY <1>1, <1>2, ReduceStepFits DEF BinaryOperatorParselet_reduceBinaryOperator
  <1>3. CASE PostfixOperatorParselet_reducePostfixOperator
    BY <1>1, <1>3, ReduceStepFits DEF PostfixOperatorParselet_reducePostfixOperator
  <1>4. CASE InfixOperatorParselet_reduceInfixOperator
    BY <1>1, <1>4, ReduceStepFits DEF InfixOperatorParselet_reduceInfixOperator
  <1>5. CASE TimesParselet_reduceTimes
    BY <1>1, <1>5, ReduceStepFits DEF TimesParselet_reduceTimes
  <1>6. CASE CommaParselet_reduceComma
    <2>1. "CommaParselet_reduceComma" \in RunningFns
      BY <1>1, ReduceFnsRun
    <2>2. "CommaParselet_reduceComma" \notin GroupFns
      BY <1>1
    <2>3. /\ ReduceContext("CommaParselet_reduceComma", "Infix", "Comma",
                           "Parser_tryContinue")
          /\ UNCHANGED GroupStack
      BY <1>6 DEF CommaParselet_reduceComma
    <2> QED  BY <1>1, <2>1, <2>2, <2>3, ReduceContextFits
  <1>7. CASE SemiParselet_reduceCompoundExpression
    BY <1>1, <1>7, ReduceStepFits DEF SemiParselet_reduceCompoundExpression
  <1> QED  BY <1>2, <1>3, <1>4, <1>5, <1>6, <1>7, parseInfix_abortFits,
       parseLoop_abortFits, BinaryFits, PostfixFits, InfixOperatorFits,
       InfixOperatorLoopFits, TimesFits, TimesLoopFits, CommaInfixFits, CommaLoopFits,
       SemiInfixFits, SemiLoopFits DEF OperatorNext

-----------------------------------------------------------------------------
(* Groups and calls                                                        *)

\* The context that the opener of a group pushes.
GroupContext(loop, P) ==
  IF USE_MUSTTAIL
  THEN [NewContext(Len(NodeStack), PRECEDENCE.LOWEST) EXCEPT !.F = loop, !.P = P]
  ELSE [NewContext(Len(NodeStack), PRECEDENCE.LOWEST) EXCEPT !.F = "Parser_identity"]

LEMMA GroupContextFields ==
  ASSUME NEW P
  PROVE  LET ctxt == GroupContext("GroupParselet_parseLoop", P)
         IN /\ ctxt.Index = Len(NodeStack) /\ GroupMark(ctxt)
            /\ ctxt.F \notin PlainLoops /\ (USE_MUSTTAIL => ctxt.P = P)
  <1> DEFINE loop == "GroupParselet_parseLoop"
             n    == Len(NodeStack)
             r    == NewContext(n, PRECEDENCE.LOWEST)
             ctxt == GroupContext(loop, P)
  <1>1. r = [F |-> "NULL", P |-> NoParselet, Index |-> n, Prec |-> 0]
    BY DEF NewContext, PRECEDENCE
  <1>2. CASE USE_MUSTTAIL
    <2>1. ctxt = [r EXCEPT !.F = loop, !.P = P]
      BY <1>2 DEF GroupContext
    <2> HIDE DEF n, r, ctxt
    <2>2. ctxt = [F |-> loop, P |-> P, Index |-> n, Prec |-> 0]
      BY <1>1, <2>1, ReplaceFAndP
    <2>3. ctxt.F = loop /\ ctxt.P = P /\ ctxt.Index = n /\ ctxt.Prec = 0
      BY <2>2
    <2> QED  BY <2>3 DEF GroupMark, PlainLoops, n, ctxt
  <1>3. CASE ~USE_MUSTTAIL
    <2>1. ctxt = [r EXCEPT !.F = "Parser_identity"]
      BY <1>3 DEF GroupContext
    <2> HIDE DEF n, r, ctxt
    <2>2. ctxt = [F |-> "Parser_identity", P |-> NoParselet, Index |-> n, Prec |-> 0]
      BY <1>1, <2>1
    <2>3. ctxt.F = "Parser_identity" /\ ctxt.Index = n /\ ctxt.Prec = 0
      BY <2>2
    <2> QED  BY <1>3, <2>3 DEF GroupMark, PlainLoops, n, ctxt
  <1> QED  BY <1>2, <1>3

LEMMA GroupPrefixFits ==
  Inv /\ Inv' /\ Fitting /\ GroupParselet_parsePrefix => Fitting'
  <1> DEFINE t    == call.tok
             P    == call.P
             loop == "GroupParselet_parseLoop"
             ctxt == GroupContext(loop, P)
             clsr == GroupOpenerToCloser(t.op)
             l    == [fn |-> loop, P |-> P]
  <1> SUFFICES ASSUME Inv, Inv', Fitting, GroupParselet_parsePrefix PROVE Fitting'
    OBVIOUS
  <1>1. /\ Calling("parsePrefix") /\ P.class = "Group"
        /\ NodeStack' = Append(NodeStack, t) /\ GroupStack' = Append(GroupStack, clsr)
        /\ call'.fn = loop /\ call'.P = P /\ UNCHANGED frames
    BY DEF GroupParselet_parsePrefix, Prefix, TakeLeaf, Jump
  <1>2. /\ call.fn \in QuietFns /\ t \in Token /\ t \in Node /\ t.op \in Openers
        /\ P \in Parselet /\ P.closer = clsr /\ NodeStack \in Seq(Node)
    BY <1>1, PrefixCall
  <1>3. ContextStack' = Append(ContextStack, ctxt)
    <2>1. Len(Append(NodeStack, t)) - 1 = Len(NodeStack)
      BY <1>2, WithToken
    <2> QED  BY <2>1 DEF GroupParselet_parsePrefix, GroupContext
  <1>4. /\ ctxt.Index = Len(NodeStack) /\ GroupMark(ctxt)
        /\ ctxt.F \notin PlainLoops /\ (USE_MUSTTAIL => ctxt.P = P)
    BY GroupContextFields
  <1>5. clsr \in AnyCloser
    BY <1>2, ParseletFields
  <1>6. LeafIn(t, Openers)
    BY <1>2 DEF LeafIn, Token
  <1>7. LoopOf(loop) = loop /\ loop \in GroupFns /\ loop \in RunningFns
        /\ loop \notin PartLoops \union TagFns
    BY GroupLoop, LoopOfFacts DEF GroupFns, PartLoops, TagFns
  <1> HIDE DEF ctxt, clsr, t
  <1>8. ctxt \in Context
    BY <1>3, NewTopContext
  <1>9. /\ Grows(NodeStack, NodeStack') /\ NodeStack'[Len(NodeStack) + 1] = t
    BY <1>1, <1>2, GrowsByOne
  <1>10. NodeStack'[ctxt.Index + 1] = t
    BY <1>4, <1>9
  <1>11. ContextFits(NodeStack', ctxt)
    BY <1>4, <1>6, <1>10 DEF ContextFits, Opens
  <1>12. CallFits(NodeStack', call', ctxt)
    <2>1. TopFits(call', ctxt)
      BY <1>1, <1>4, <1>7 DEF TopFits, GroupFns
    <2>2. ArgumentsFit(call')
      BY <1>1 DEF ArgumentsFit, ContextSensitiveFns
    <2>3. Fits(NodeStack', l, ctxt, Len(NodeStack') - 1)
      <3>1. l.fn = loop /\ l.P = P
        OBVIOUS
      <3> HIDE DEF l, P
      <3> QED  BY <1>2, <1>4, <1>10, <3>1 DEF Fits, clsr
    <2>4. NodesFit(NodeStack', call', ctxt)
      BY <1>1, <1>7, <2>3 DEF NodesFit
    <2> QED  BY <2>1, <2>2, <2>4 DEF CallFits
  <1>13. \E closer \in AnyCloser :
           /\ closer = GroupOpenerToCloser(NodeStack'[ctxt.Index + 1].op)
           /\ GroupStack' = Append(GroupStack, closer)
    BY <1>1, <1>5, <1>10 DEF clsr
  <1> HIDE DEF loop, P
  <1> QED  BY <1>1, <1>2, <1>3, <1>4, <1>7, <1>8, <1>9, <1>11, <1>12, <1>13, PushKept

LEMMA GroupLoopFits == Inv /\ Inv' /\ Fitting /\ GroupParselet_parseLoop => Fitting'
  <1> DEFINE loop == "GroupParselet_parseLoop"
             q    == TriviaEnd(buffer)
             Tok  == Tokenizer_currentToken(q)
             fn   == "GroupParselet_reduceGroup"
             miss == "GroupParselet_reduceMissingCloser"
             unt  == "GroupParselet_reduceUnterminatedGroup"
  <1> SUFFICES ASSUME Inv, Inv', Fitting, GroupParselet_parseLoop PROVE Fitting'
    OBVIOUS
  <1>1. call.fn = loop /\ UNCHANGED GroupStack
    BY DEF GroupParselet_parseLoop, Looping, Calling
  <1>2. /\ call.fn \in LoopFns /\ call.P \in Parselet /\ call.P.closer \in Closers
    BY <1>1, GroupLoop, StackTypes, CallFields, ParseletFields
  <1>3. q \in buffer..Len(input) /\ q \in 0..Len(input) /\ Tok \in Token
        /\ (Tok.op # "ENDOFFILE" => Tok.hi \in 0..Len(input)) /\ Tok.op \in LeafKinds
    BY StackTypes, TriviaEndType, TokenAt
  <1>4. \/ /\ NodeStack' = NodeStack \o TriviaTokens(buffer, q) \o <<Tok>>
           /\ Jump(fn, call.P, NoToken)
           /\ UNCHANGED <<ContextStack, frames>>
        \/ EndLoop(q, miss)
        \/ /\ Tok.op \in CloserTokens
           /\ ParseInGroup(q, prefixToplevelCloserParselet, Tok)
        \/ EndLoop(q, unt)
        \/ ParseInGroup(q, prefixParselets[Tok.op], Tok)
    BY DEF GroupParselet_parseLoop
  <1>5. \A f \in {fn, miss, unt} : f \in ReduceFns \ {InnerReduce} /\ LoopOf(f) = loop
    BY LoopOfFacts
  <1>6. CASE /\ NodeStack' = NodeStack \o TriviaTokens(buffer, q) \o <<Tok>>
             /\ Jump(fn, call.P, NoToken)
             /\ UNCHANGED <<ContextStack, frames>>
    <2> DEFINE a == NodeStack \o TriviaTokens(buffer, q)
    <2>1. /\ NodeStack \in Seq(Node) /\ Tok \in Node /\ buffer \in 0..Len(input)
      BY <1>3, StackTypes, TokenIsNode
    <2> HIDE DEF q, Tok
    <2>2. Grows(NodeStack, a) /\ a \in Seq(Node)
      BY <1>3, <2>1, GrowsSomeTrivia
    <2>3. NodeStack' = a \o <<Tok>> /\ <<Tok>> \in Seq(Node)
      BY <1>6, <2>1
    <2> HIDE DEF a
    <2>4. Grows(a, NodeStack') /\ NodeStack' \in Seq(Node)
      BY <2>2, <2>3, GrowsByMore
    <2>5. Grows(NodeStack, NodeStack')
      BY <2>1, <2>2, <2>4, GrowsFurther
    <2>6. call'.fn = fn /\ call'.P = call.P
      BY <1>6 DEF Jump
    <2> HIDE DEF fn
    <2> QED  BY <1>1, <1>2, <1>5, <1>6, <2>5, <2>6, EndLoopFits
  <1>7. CASE EndLoop(q, miss)
    <2> HIDE DEF miss, q
    <2> QED  BY <1>1, <1>2, <1>5, <1>7, NoOperatorFits
  <1>8. CASE EndLoop(q, unt)
    <2> HIDE DEF unt, q
    <2> QED  BY <1>1, <1>2, <1>5, <1>8, NoOperatorFits
  <1>9. ASSUME NEW P, ParseInGroup(q, P, Tok), P.class = "Group" <=> Tok.op \in Openers,
               P.class = "Group" => P.closer = GroupOpenerToCloser(Tok.op)
        PROVE  Fitting'
    <2>1. /\ NodeStack' = NodeStack \o TriviaTokens(buffer, q)
          /\ call'.fn = "parsePrefix" /\ call'.P = P /\ call'.tok = Tok
          /\ LoopCall(call.fn, call.P) /\ UNCHANGED ContextStack
      BY <1>1, <1>9 DEF ParseInGroup, Jump
    <2>2. NodeStack \in Seq(Node) /\ buffer \in 0..Len(input)
      BY StackTypes
    <2> HIDE DEF q, Tok
    <2>3. Grows(NodeStack, NodeStack')
      BY <1>3, <2>1, <2>2, GrowsSomeTrivia
    <2>4. CallFits(NodeStack', call', Parser_topContext)
      BY <1>9, <2>1, PrefixFits
    <2>5. UNCHANGED <<ContextStack, GroupStack>>
      BY <1>1, <2>1
    <2> QED  BY <1>2, <2>1, <2>3, <2>4, <2>5, AgainFits
  <1>10. CASE /\ Tok.op \in CloserTokens
              /\ ParseInGroup(q, prefixToplevelCloserParselet, Tok)
    <2>1. Tok.op \notin Openers /\ prefixToplevelCloserParselet.class # "Group"
      BY <1>10, ClosersOpenNothing
    <2> HIDE DEF q, Tok
    <2> QED  BY <1>9, <1>10, <2>1
  <1>11. CASE ParseInGroup(q, prefixParselets[Tok.op], Tok)
    <2> HIDE DEF q, Tok
    <2>1. /\ prefixParselets[Tok.op].class = "Group" <=> Tok.op \in Openers
          /\ prefixParselets[Tok.op].class = "Group" =>
               prefixParselets[Tok.op].closer = GroupOpenerToCloser(Tok.op)
      BY <1>3, OperatorTablesAssumption
    <2> QED  BY <1>9, <1>11, <2>1
  <1> QED  BY <1>4, <1>6, <1>7, <1>8, <1>10, <1>11

LEMMA GroupAbortFits ==
  Inv /\ Inv' /\ Fitting /\ GroupParselet_parseLoop_abort => Fitting'
  <1> SUFFICES ASSUME Inv, Inv', Fitting, GroupParselet_parseLoop_abort PROVE Fitting'
    OBVIOUS
  <1>1. /\ call.fn = "GroupParselet_parseLoop" /\ GroupStack' = Pop(GroupStack)
        /\ NodeStack' = Append(NodesBelow(Pop(NodeStack)), AbortNode)
        /\ ContextStack' = Pop(ContextStack) /\ Goto("Parser_tryContinue")
        /\ UNCHANGED frames
    BY DEF GroupParselet_parseLoop_abort, Calling
  <1>2. call.fn \in RunningFns /\ call.fn \in GroupFns
    BY <1>1, GroupLoop DEF GroupFns
  <1> QED  BY <1>1, <1>2, AbortKept

LEMMA GroupReduceFits == Inv /\ Inv' /\ Fitting /\ GroupParselet_reduce => Fitting'
  <1> SUFFICES ASSUME Inv, Inv', Fitting, GroupParselet_reduce PROVE Fitting'
    OBVIOUS
  <1> DEFINE N == NodeKinds \ {"Leaf"}
             M == {"Parser_parseClimb", "Parser_tryContinue", "return"}
             R == {"GroupParselet_reduceGroup", "GroupParselet_reduceMissingCloser",
                   "GroupParselet_reduceUnterminatedGroup"}
  <1>1. PICK fn \in R, kind \in {"Group", "GroupMissingCloser",
                                 "UnterminatedGroupNeedsReparse"}, next \in M :
          /\ ReduceContext(fn, kind, call.P.op, next) /\ GroupStack' = Pop(GroupStack)
    BY DEF GroupParselet_reduce
  <1>2. kind \in N
    BY DEF NodeKinds
  <1>3. fn \in RunningFns /\ fn \in GroupFns
    BY LoopOfFacts, ReduceFnsRun DEF GroupFns
  <1> QED  BY <1>1, <1>2, <1>3, ReduceContextFits

LEMMA CallInfixFits == Inv /\ Inv' /\ Fitting /\ CallParselet_parseInfix => Fitting'
  <1> DEFINE F    == "CallParselet_reduceCall"
             ctxt == [ContextWith(F) EXCEPT !.Prec = PRECEDENCE.HIGHEST]
             Q    == [New("Group") EXCEPT !.op = call.P.op, !.closer = call.P.closer]
  <1> SUFFICES ASSUME Inv, Inv', Fitting, CallParselet_parseInfix PROVE Fitting'
    OBVIOUS
  <1>1. /\ Calling("parseInfix") /\ call.P.class = "Call"
        /\ ContextStack' = TopContext(ctxt) /\ Jump("parsePrefix", Q, call.tok)
        /\ UNCHANGED <<GroupStack, frames>> /\ UNCHANGED NodeStack
    BY DEF CallParselet_parseInfix, Infix
  <1>2. /\ call.fn \in RunningFns /\ call.fn \notin GroupFns /\ call.P \in Parselet
        /\ call.tok.op \in LeafKinds /\ call.P = infixParselets[call.tok.op]
    BY <1>1, InfixCall
  <1>3. Q.class = "Group" /\ Q.closer = call.P.closer
    <2> DEFINE P == call.P
               r == New("Group")
    <2>1. r = [class |-> "Group", prec |-> 0, op |-> "INTERNALINVALID",
               op2 |-> "INTERNALINVALID", closer |-> "CLOSER_ASSERTFALSE"]
      BY DEF New
    <2> HIDE DEF P, r
    <2>2. [r EXCEPT !.op = P.op, !.closer = P.closer].class = "Group"
          /\ [r EXCEPT !.op = P.op, !.closer = P.closer].closer = P.closer
      BY <2>1
    <2> QED  BY <2>2 DEF P, r
  <1>4. call'.fn = "parsePrefix" /\ call'.P = Q /\ call'.tok = call.tok
    BY <1>1 DEF Jump
  <1>5. F \in PlainFns /\ AnyClass(F)
        /\ F \notin Unnamed \union GroupFns \union PlainLoops
    BY DEF PlainFns, ContextFns, ReduceFns, LoopFns, AnyClass, ClassesFor, Unnamed,
           GroupFns, PlainLoops
  <1> HIDE DEF Q
  <1>6. CallFits(NodeStack', call', ctxt)
    <2>1. call.tok.op \in Openers /\ Q.closer = GroupOpenerToCloser(call.tok.op)
      BY <1>1, <1>2, <1>3, OperatorTables
    <2> QED  BY <1>3, <1>4, <2>1, PrefixFits
  <1>7. ctxt.F = F /\ ctxt.Index = Parser_topContext.Index
    <2> HIDE DEF F
    <2> QED  BY <1>2, <1>5, Precedences, ContextWithFAndPrec
  <1>8. Grows(NodeStack, NodeStack')
    BY <1>1, Unchanged
  <1> HIDE DEF ctxt
  <1> QED  BY <1>1, <1>2, <1>4, <1>5, <1>6, <1>7, <1>8, NamedOperandKept

LEMMA GroupStepFits == Inv /\ Inv' /\ Fitting /\ GroupNext => Fitting'
  <1> SUFFICES ASSUME Inv, Inv', Fitting, GroupNext PROVE Fitting'
    OBVIOUS
  <1>1. CASE CallParselet_reduceCall
    <2>1. "CallParselet_reduceCall" \in (ReduceFns \ GroupFns) \ {InnerReduce}
          /\ "Call" \in NodeKinds \ {"Leaf"}
      BY DEF ReduceFns, GroupFns, InnerReduce, NodeKinds
    <2> QED  BY <1>1, <2>1, ReduceStepFits DEF CallParselet_reduceCall
  <1> QED  BY <1>1, GroupPrefixFits, GroupLoopFits, GroupAbortFits, GroupReduceFits,
              CallInfixFits DEF GroupNext

-----------------------------------------------------------------------------
(* Patterns                                                                *)

LEMMA NewReduceFits ==
  ASSUME NEW nodes, NEW c, NEW ctxt, ctxt.F = "NULL", c.fn \in ReduceFns,
         LoopOf(c.fn) = "NULL", c.fn \notin GroupFns
  PROVE  CallFits(nodes, c, ctxt)
  <1>1. c.fn \in RunningFns \union {InnerReduce}
    BY ReduceFnsRun
  <1>2. ~GroupMark(ctxt) /\ ~IsIdentity(ctxt)
    BY DEF GroupMark, IsIdentity
  <1> QED  BY <1>1, <1>2, ReducesLoop, ReduceFits

LEMMA PatternReducesFacts ==
  \A fn \in PatternReduces \union {InnerReduce} :
    /\ fn \in ReduceFns /\ LoopOf(fn) = "NULL" /\ fn \notin GroupFns
    /\ fn \notin LoopFns
  <1>1. \A fn \in PatternReduces \union {InnerReduce} : fn \in ReduceFns
    BY DEF PatternReduces, InnerReduce, ReduceFns
  <1>2. \A fn \in PatternReduces \union {InnerReduce} : LoopOf(fn) = "NULL"
    BY DEF PatternReduces, InnerReduce, LoopOf, LoopFns
  <1>3. \A fn \in PatternReduces \union {InnerReduce} :
          fn \notin GroupFns /\ fn \notin LoopFns
    BY DEF PatternReduces, InnerReduce, GroupFns, LoopFns
  <1> QED  BY <1>1, <1>2, <1>3

\* The context that starts at the token t.
LEMMA EnteredContextFits ==
  ASSUME Inv, NEW t \in Token, NEW Prec \in Nat
  PROVE  LET ctxt == NewContext(Len(NodeStack), Prec)
         IN /\ Parser_pushContext(Append(NodeStack, t), Prec) = Append(ContextStack, ctxt)
            /\ ctxt \in BuildContext /\ ctxt \in Context
            /\ ctxt.Index = Len(NodeStack) /\ ctxt.F = "NULL"
            /\ ctxt.P = NoParselet /\ ctxt.Prec = Prec /\ ~GroupMark(ctxt)
            /\ ctxt.F \notin GroupFns \union PlainLoops
  <1> DEFINE ctxt == NewContext(Len(NodeStack), Prec)
  <1>1. /\ Parser_pushContext(Append(NodeStack, t), Prec) = Append(ContextStack, ctxt)
        /\ ctxt \in BuildContext /\ ctxt.Index = Len(NodeStack) /\ ctxt.F = "NULL"
    BY EnteredContext
  <1>2. ctxt.P = NoParselet /\ ctxt.Prec = Prec /\ ~GroupMark(ctxt)
    BY NewContextFields
  <1> HIDE DEF ctxt
  <1>3. ctxt.F \notin GroupFns \union PlainLoops
    BY <1>1 DEF GroupFns, PlainLoops
  <1> QED  BY <1>1, <1>2, <1>3, BuildContextFields DEF ctxt

\* Two tokens are taken, and a context entered to reduce them.
LEMMA PairKept ==
  ASSUME Inv, Inv', Fitting, call.fn \in QuietFns, NEW t \in Token, NEW s \in Token,
         ~LeafIn(t, Openers), NodeStack' = Append(Append(NodeStack, t), s),
         ContextStack' = Parser_pushContext(Append(NodeStack, t), PRECEDENCE.HIGHEST),
         UNCHANGED <<GroupStack, frames>>, call'.fn \in ReduceFns,
         LoopOf(call'.fn) = "NULL", call'.fn \notin GroupFns
  PROVE  Fitting'
  <1> DEFINE n     == Len(NodeStack)
             nodes == Append(NodeStack, t)
             ctxt  == NewContext(n, PRECEDENCE.HIGHEST)
  <1>1. /\ ContextStack' = Append(ContextStack, ctxt) /\ ctxt.Index = n
        /\ ctxt.F = "NULL" /\ ~GroupMark(ctxt)
        /\ ctxt.F \notin GroupFns \union PlainLoops
    BY Precedences, EnteredContextFits
  <1>2. t \in Node /\ s \in Node /\ NodeStack \in Seq(Node) /\ n \in Nat
    BY TokenIsNode, StackTypes
  <1>3. /\ Grows(NodeStack, nodes) /\ nodes \in Seq(Node) /\ Len(nodes) = n + 1
        /\ nodes[n + 1] = t
    BY <1>2, GrowsByOne
  <1> HIDE DEF nodes, ctxt
  <1>4. NodeStack' = Append(nodes, s)
    BY DEF nodes
  <1>5. /\ Grows(NodeStack, NodeStack')
        /\ \A i \in 1..Len(nodes) : NodeStack'[i] = nodes[i]
    BY <1>2, <1>3, <1>4, GrowsWithOne
  <1>6. n + 1 \in 1..Len(nodes)
    BY <1>2, <1>3
  <1>7. ~LeafIn(NodeStack'[n + 1], Openers)
    BY <1>3, <1>5, <1>6
  <1>8. call'.fn \in RunningFns \union {InnerReduce}
    BY ReduceFnsRun
  <1>9. CallFits(NodeStack', call', ctxt)
    BY <1>1, NewReduceFits
  <1> QED  BY <1>1, <1>5, <1>7, <1>8, <1>9, EnterKept

LEMMA TakePairFits ==
  ASSUME Inv, Inv', Fitting, Calling("parsePrefix"), call.P.class # "Group",
         NEW s \in Token, NEW toks, NEW fn \in ReduceFns,
         LoopOf(fn) = "NULL", fn \notin GroupFns,
         TakePair(call.tok, s, toks, fn), UNCHANGED <<GroupStack, frames>>
  PROVE  Fitting'
  <1> DEFINE t == call.tok
  <1>1. /\ t \in Token /\ t \in Node /\ call.fn \in QuietFns /\ ~LeafIn(t, Openers)
    BY PrefixCall
  <1>2. CASE s.op \in toks
    <2>1. /\ NodeStack' = Append(Append(NodeStack, t), s) /\ call'.fn = fn
          /\ ContextStack' = Parser_pushContext(Append(NodeStack, t), PRECEDENCE.HIGHEST)
      BY <1>2 DEF TakePair, EnterContext, Goto, Jump
    <2> HIDE DEF t
    <2> QED  BY <1>1, <2>1, PairKept
  <1>3. CASE s.op \notin toks
    <2>1. /\ NodeStack' = Append(NodeStack, t) /\ call'.fn = "Parser_parseClimb"
          /\ UNCHANGED <<ContextStack, GroupStack, frames>>
      BY <1>3 DEF TakePair, Goto, Jump
    <2> HIDE DEF t
    <2> QED  BY <1>1, <2>1, LeafKept
  <1> QED  BY <1>2, <1>3

\* A token is taken, and the one after it is read by a function of its own.
LEMMA TakeAndCallFits ==
  ASSUME Inv, Inv', Fitting, call.fn \in QuietFns, call.tok \in Token,
         ~LeafIn(call.tok, Openers), NEW s, s.op \notin Openers,
         NEW fn \in ContextSensitiveFns, NEW P,
         NEW reduceFn \in PatternReduces \union {InnerReduce}, NEW reduceP \in Parselet,
         reduceP.class \in ClassesFor(reduceFn),
         TakeAndCall(call.tok, s, fn, P, reduceFn, reduceP), UNCHANGED GroupStack
  PROVE  Fitting'
  <1> DEFINE n     == Len(NodeStack)
             t     == call.tok
             ctxt  == NewContext(n, PRECEDENCE.HIGHEST)
             frame == [fn |-> reduceFn, P |-> reduceP]
  <1>1. /\ NodeStack' = Append(NodeStack, t)
        /\ ContextStack' = Parser_pushContext(Append(NodeStack, t), PRECEDENCE.HIGHEST)
        /\ call'.fn = fn /\ call'.tok = s /\ frames' = Append(frames, frame)
    BY DEF TakeAndCall, EnterContext, NativeCall, Jump
  <1>2. /\ ContextStack' = Append(ContextStack, ctxt) /\ ctxt.Index = n
        /\ ctxt \in Context /\ ctxt.F = "NULL"
        /\ ~GroupMark(ctxt) /\ ctxt.F \notin GroupFns \union PlainLoops
    BY <1>1, Precedences, EnteredContextFits
  <1>3. reduceFn \in Fns /\ reduceFn \notin LoopFns
    BY PatternReducesFacts DEF Fns
  <1>4. frame \in Frame /\ ~IsLoop(frame)
    BY <1>3, FrameIntro DEF IsLoop
  <1>5. NodeStack \in Seq(Node) /\ t \in Node /\ n \in Nat
    BY StackTypes, TokenIsNode
  <1> HIDE DEF ctxt, frame, t
  <1>6. Grows(NodeStack, NodeStack') /\ NodeStack'[n + 1] = t
    BY <1>1, <1>5, GrowsByOne
  <1>7. ContextFits(NodeStack', ctxt)
    BY <1>2, <1>6, EnteredFits DEF t
  <1>8. call'.fn \in QuietFns /\ CallFits(NodeStack', call', ctxt)
    BY <1>1, ReadingFits DEF QuietFns
  <1> QED  BY <1>1, <1>2, <1>4, <1>6, <1>7, <1>8, PushPatternKept

LEMMA PatternTokens ==
  (Unders \union {"UNDERDOT", "SYMBOL"}) \intersect Openers = {}
  BY DEF Unders, Openers, PossibleBeginningOpeners

LEMMA BlankFromFits ==
  ASSUME Inv, Inv', Fitting, call.fn \in QuietFns, call.tok \in Token,
         call.tok.hi \in 0..Len(input), ~LeafIn(call.tok, Openers),
         NEW reduceFn \in PatternReduces \union {InnerReduce},
         call.P.class \in ClassesFor(reduceFn),
         NEW otherwise \in {"Parser_parseClimb", "return"},
         BlankFrom(reduceFn, otherwise), UNCHANGED GroupStack
  PROVE  Fitting'
  <1> DEFINE t   == call.tok
             Tok == Tokenizer_currentToken(t.hi)
             P   == call.P
             S   == New("Symbol")
             readSymbol == "SymbolParselet_parseInfixContextSensitive"
  <1>1. Tok \in Token
    BY TokenAt
  <1>2. P \in Parselet /\ t \in Node
    BY StackTypes, CallFields, TokenIsNode
  <1>3. /\ reduceFn \in ReduceFns /\ LoopOf(reduceFn) = "NULL"
        /\ reduceFn \notin GroupFns
    BY PatternReducesFacts
  <1>4. \/ Tok.op = "SYMBOL" /\ TakeAndCall(t, Tok, readSymbol, S, reduceFn, P)
        \/ /\ NodeStack' = Append(Append(NodeStack, t), Tok)
           /\ ContextStack' =
                Parser_pushContext(Append(NodeStack, t), PRECEDENCE.HIGHEST)
           /\ call'.fn = reduceFn /\ UNCHANGED frames
        \/ /\ NodeStack' = Append(NodeStack, t) /\ call'.fn = otherwise
           /\ UNCHANGED <<ContextStack, frames>>
    BY DEF BlankFrom, EnterContext, TakeLeaf, Goto, Jump
  <1>5. CASE Tok.op = "SYMBOL" /\ TakeAndCall(t, Tok, readSymbol, S, reduceFn, P)
    <2>1. Tok.op \notin Openers
      BY <1>5, PatternTokens
    <2>2. readSymbol \in ContextSensitiveFns
      BY DEF ContextSensitiveFns
    <2> HIDE DEF Tok, S, readSymbol
    <2> QED  BY <1>2, <1>5, <2>1, <2>2, TakeAndCallFits
  <1>6. CASE /\ NodeStack' = Append(Append(NodeStack, t), Tok)
             /\ ContextStack' =
                  Parser_pushContext(Append(NodeStack, t), PRECEDENCE.HIGHEST)
             /\ call'.fn = reduceFn /\ UNCHANGED frames
    <2> HIDE DEF Tok
    <2> QED  BY <1>1, <1>3, <1>6, PairKept
  <1>7. CASE /\ NodeStack' = Append(NodeStack, t) /\ call'.fn = otherwise
             /\ UNCHANGED <<ContextStack, frames>>
    BY <1>2, <1>7, LeafKept
  <1> QED  BY <1>4, <1>5, <1>6, <1>7

LEMMA SymbolPrefixFits == Inv /\ Inv' /\ Fitting /\ SymbolParselet_parsePrefix => Fitting'
  <1> SUFFICES ASSUME Inv, Inv', Fitting, SymbolParselet_parsePrefix PROVE Fitting'
    OBVIOUS
  <1> DEFINE t   == call.tok
             Tok == Tokenizer_currentToken(t.hi)
             U   == UnderParseletOf(Tok.op)
             D   == underDotParselet
             readUnder == "UnderParselet_parseInfixContextSensitive"
             readDot   == "UnderDotParselet_parseInfixContextSensitive"
             blank     == "SymbolParselet_reducePatternBlank"
             default   == "SymbolParselet_reducePatternOptionalDefault"
  <1>1. /\ Calling("parsePrefix") /\ call.P.class = "Symbol" /\ UNCHANGED GroupStack
    BY DEF SymbolParselet_parsePrefix, Prefix
  <1>2. t \in Token /\ t \in Node /\ call.fn \in QuietFns /\ ~LeafIn(t, Openers)
    BY <1>1, PrefixCall
  <1>3. \/ /\ Tok.op \in Unders
           /\ TakeAndCall(t, Tok, readUnder, U, blank, U)
        \/ /\ Tok.op = "UNDERDOT"
           /\ TakeAndCall(t, Tok, readDot, D, default, D)
        \/ /\ TakeLeaf(t) /\ Goto("Parser_parseClimb") /\ UNCHANGED <<ContextStack, frames>>
    BY DEF SymbolParselet_parsePrefix
  <1>4. CASE Tok.op \in Unders /\ TakeAndCall(t, Tok, readUnder, U, blank, U)
    <2>1. Tok.op \notin Openers
      BY <1>4, PatternTokens
    <2>2. U \in Parselet /\ U.class = "Under"
      BY UnderParseletType
    <2>3. /\ readUnder \in ContextSensitiveFns /\ blank \in PatternReduces
          /\ U.class \in ClassesFor(blank)
      BY <2>2, ReaderClasses DEF ContextSensitiveFns, PatternReduces
    <2> HIDE DEF Tok, U, readUnder, blank
    <2> QED  BY <1>1, <1>2, <1>4, <2>1, <2>2, <2>3, TakeAndCallFits
  <1>5. CASE Tok.op = "UNDERDOT" /\ TakeAndCall(t, Tok, readDot, D, default, D)
    <2>1. Tok.op \notin Openers
      BY <1>5, PatternTokens
    <2>2. D \in Parselet
      BY NewType DEF underDotParselet, PrefixClasses
    <2>3. /\ readDot \in ContextSensitiveFns /\ default \in PatternReduces
          /\ D.class \in ClassesFor(default)
      BY <2>2, ReaderClasses, AnyParseletIs DEF ContextSensitiveFns, PatternReduces
    <2> HIDE DEF Tok, D, readDot, default
    <2> QED  BY <1>1, <1>2, <1>5, <2>1, <2>2, <2>3, TakeAndCallFits
  <1>6. CASE TakeLeaf(t) /\ Goto("Parser_parseClimb") /\ UNCHANGED <<ContextStack, frames>>
    <2>1. NodeStack' = Append(NodeStack, t) /\ call'.fn = "Parser_parseClimb"
          /\ UNCHANGED <<ContextStack, GroupStack, frames>>
      BY <1>1, <1>6 DEF TakeLeaf, Goto, Jump
    <2> QED  BY <1>2, <2>1, LeafKept
  <1> QED  BY <1>3, <1>4, <1>5, <1>6

LEMMA ReadingFacts ==
  ASSUME Inv, Fitting, call.fn \in ContextSensitiveFns
  PROVE  /\ call.fn \in QuietFns /\ call.tok \in Token /\ call.tok \in Node
         /\ call.tok.hi \in 0..Len(input) /\ ~LeafIn(call.tok, Openers)
  <1>1. call.fn \in QuietFns
    BY DEF QuietFns
  <1>2. call.tok \in Token /\ call.tok \in Node /\ call.tok.hi \in 0..Len(input)
    BY ReadingType, TokenIsNode
  <1>3. call.tok.op \notin Openers
    BY DEF Fitting, CallFits, ArgumentsFit
  <1> QED  BY <1>1, <1>2, <1>3, LeafNotIn

LEMMA ReadsFits ==
  ASSUME Inv, Inv', Fitting, NEW fn \in ContextSensitiveFns, ContextSensitive(fn)
  PROVE  Fitting'
  <1>1. /\ call.fn \in ContextSensitiveFns
        /\ NodeStack' = Append(NodeStack, call.tok) /\ call'.fn = "return"
        /\ UNCHANGED <<ContextStack, GroupStack, frames>>
    BY DEF ContextSensitive, Calling, TakeLeaf, Goto, Jump
  <1> QED  BY <1>1, ReadingFacts, LeafKept

LEMMA PatternStepFits == Inv /\ Inv' /\ Fitting /\ PatternNext => Fitting'
  <1> SUFFICES ASSUME Inv, Inv', Fitting, PatternNext PROVE Fitting'
    OBVIOUS
  <1> DEFINE reduced == {"SymbolParselet_reducePatternBlank",
                         "SymbolParselet_reducePatternOptionalDefault",
                         "UnderParselet_reduceBlank", "HashParselet_reduceSlot",
                         "HashHashParselet_reduceSlotSequence",
                         "PercentParselet_reduceOut"}
  <1>1. "Compound" \in NodeKinds \ {"Leaf"}
    BY DEF NodeKinds
  <1>2. /\ \A fn \in reduced : fn \in (ReduceFns \ GroupFns) \ {InnerReduce}
        /\ \A fn \in reduced : LoopOf(fn) = "NULL"
    BY DEF ReduceFns, GroupFns, InnerReduce, LoopOf, LoopFns
  <1>3. CASE \/ SymbolParselet_parseInfixContextSensitive
             \/ UnderDotParselet_parseInfixContextSensitive
    BY <1>3, ReadsFits DEF SymbolParselet_parseInfixContextSensitive,
       UnderDotParselet_parseInfixContextSensitive, ContextSensitiveFns
  <1>4. CASE ContextSensitive_abort
    <2>1. /\ call.fn \in ContextSensitiveFns
          /\ NodeStack' = Append(NodeStack, AbortNode) /\ call'.fn = "return"
          /\ UNCHANGED <<ContextStack, GroupStack, frames>>
      BY <1>4 DEF ContextSensitive_abort, Goto, Jump
    <2> QED  BY <2>1, ReadingFacts, AbortNodeType, LeafKept
  <1>5. CASE \/ SymbolParselet_reduce \/ UnderParselet_reduceBlank
             \/ HashParselet_reduceSlot \/ HashHashParselet_reduceSlotSequence
             \/ PercentParselet_reduceOut
    <2>1. \E fn \in reduced, op \in Ops \union {call.P.op, call.P.op2} :
            Reduce(fn, "Compound", op)
      BY <1>5 DEF SymbolParselet_reduce, UnderParselet_reduceBlank,
         HashParselet_reduceSlot, HashHashParselet_reduceSlotSequence,
         PercentParselet_reduceOut, Ops
    <2> HIDE DEF reduced
    <2>2. PICK fn \in reduced, op \in Ops \union {call.P.op, call.P.op2} :
            Reduce(fn, "Compound", op)
      BY <2>1
    <2> QED  BY <1>1, <1>2, <2>2, ReduceStepFits
  <1>6. CASE UnderParselet_parsePrefix
    <2>1. /\ Calling("parsePrefix") /\ call.P.class = "Under" /\ UNCHANGED GroupStack
          /\ BlankFrom("UnderParselet_reduceBlank", "Parser_parseClimb")
      BY <1>6 DEF UnderParselet_parsePrefix, Prefix
    <2>2. /\ call.fn \in QuietFns /\ call.tok \in Token /\ ~LeafIn(call.tok, Openers)
          /\ call.tok.hi \in 0..Len(input)
      BY <2>1, PrefixCall
    <2>3. "UnderParselet_reduceBlank" \in PatternReduces
          /\ call.P.class \in ClassesFor("UnderParselet_reduceBlank")
      BY <2>1, ReaderClasses DEF PatternReduces
    <2> QED  BY <2>1, <2>2, <2>3, BlankFromFits
  <1>7. CASE UnderParselet_parseInfixContextSensitive
    <2>1. /\ Calling("UnderParselet_parseInfixContextSensitive") /\ UNCHANGED GroupStack
          /\ BlankFrom(InnerReduce, "return")
      BY <1>7 DEF UnderParselet_parseInfixContextSensitive, InnerReduce
    <2>2. call.fn \in ContextSensitiveFns
      BY <2>1 DEF Calling, ContextSensitiveFns
    <2>3. call.P.class \in ClassesFor(InnerReduce)
      BY <2>1, StackTypes, CallFields, ReaderClasses DEF Calling
    <2> QED  BY <2>1, <2>2, <2>3, ReadingFacts, BlankFromFits
  <1>8. CASE UnderParselet_reduceBlankContextSensitive
    <2>1. /\ ReduceContext(InnerReduce, "Compound", call.P.op, "return")
          /\ UNCHANGED GroupStack
      BY <1>8 DEF UnderParselet_reduceBlankContextSensitive, InnerReduce
    <2>2. InnerReduce \notin GroupFns
      BY PatternReducesFacts
    <2> QED  BY <1>1, <2>1, <2>2, ReduceContextFits
  <1>9. CASE UnderDotParselet_parsePrefix
    <2>1. /\ Calling("parsePrefix") /\ call.P.class # "Group"
          /\ NodeStack' = Append(NodeStack, call.tok) /\ call'.fn = "Parser_parseClimb"
          /\ UNCHANGED <<ContextStack, GroupStack, frames>>
      BY <1>9 DEF UnderDotParselet_parsePrefix, Prefix, TakeLeaf, Goto, Jump
    <2> QED  BY <2>1, PrefixCall, LeafKept
  <1>10. CASE \/ HashParselet_parsePrefix \/ HashHashParselet_parsePrefix
              \/ PercentParselet_parsePrefix
    <2> DEFINE t == call.tok
    <2>1. /\ Calling("parsePrefix") /\ call.P.class \in {"Hash", "HashHash", "Percent"}
          /\ UNCHANGED <<GroupStack, frames>>
          /\ \E fn \in reduced, toks \in {{"INTEGER", "STRING"}, {"INTEGER"}},
                s \in {Tokenizer_currentToken(t.hi), Tokenizer_currentToken_INSIDE_SLOT(t.hi)} :
               TakePair(t, s, toks, fn)
      BY <1>10 DEF HashParselet_parsePrefix, HashHashParselet_parsePrefix,
         PercentParselet_parsePrefix, Prefix
    <2> HIDE DEF reduced
    <2>2. PICK fn \in reduced, toks \in {{"INTEGER", "STRING"}, {"INTEGER"}},
               s \in {Tokenizer_currentToken(t.hi), Tokenizer_currentToken_INSIDE_SLOT(t.hi)} :
            TakePair(t, s, toks, fn)
      BY <2>1
    <2>3. t.hi \in 0..Len(input) /\ t.hi \in Nat
      BY <2>1, PrefixCall
    <2>4. s \in Token
      BY <2>2, <2>3, StackTypes, TokenAt, SlotTokenType
    <2> QED  BY <1>2, <2>1, <2>2, <2>4, TakePairFits
  <1> QED  BY <1>3, <1>4, <1>5, <1>6, <1>7, <1>8, <1>9, <1>10, SymbolPrefixFits
        DEF PatternNext

-----------------------------------------------------------------------------
(* Operators in several parts                                              *)

LEMMA PartNames ==
  /\ \A F \in PartFns : F \notin Unnamed \union GroupFns \union PlainLoops
  /\ "IntegralParselet_parse1" \notin Unnamed \union GroupFns \union PlainLoops
  /\ "IntegralParselet_reduceIntegrate" \notin Unnamed \union GroupFns \union PlainLoops
  BY DEF PartFns, Unnamed, GroupFns, PlainLoops

LEMMA PartReducesFacts ==
  \A fn \in PartReduces \union {"IntegralParselet_reduceIntegral"} :
    fn \in ReduceFns \ {InnerReduce} /\ LoopOf(fn) = "NULL" /\ fn \notin GroupFns
  <1>1. \A fn \in PartReduces \union {"IntegralParselet_reduceIntegral"} :
          fn \in ReduceFns \ {InnerReduce}
    BY DEF PartReduces, InnerReduce, ReduceFns
  <1>2. \A fn \in PartReduces \union {"IntegralParselet_reduceIntegral"} :
          LoopOf(fn) = "NULL"
    BY DEF PartReduces, LoopOf, LoopFns
  <1>3. \A fn \in PartReduces \union {"IntegralParselet_reduceIntegral"} :
          fn \notin GroupFns
    BY DEF PartReduces, GroupFns
  <1> QED  BY <1>1, <1>2, <1>3

\* The functions of these operators run in no group.
LEMMA PartRuns ==
  ASSUME call.fn \in PartLoops \union TagFns
                       \union {"SemiSemiParselet_parse1", "IntegralParselet_parse1",
                               "ColonColonParselet_parseLoop"}
  PROVE  /\ call.fn \in RunningFns /\ call.fn \notin GroupFns
         /\ LoopOf(call.fn) = "NULL"
  <1>1. call.fn \in ParseFns \ ContextSensitiveFns
    BY DEF ParseFns, ContextSensitiveFns, PartLoops, TagFns
  <1>2. call.fn \notin GroupFns
    BY DEF PartLoops, TagFns, GroupFns
  <1>3. LoopOf(call.fn) = "NULL"
    BY DEF PartLoops, TagFns, LoopOf, LoopFns
  <1> QED  BY <1>1, <1>2, <1>3, RunningFnsFacts

\* The next operand is parsed for a named function.
LEMMA NextOperandFits ==
  ASSUME Inv, Inv', Fitting, call.fn \in RunningFns, call.fn \notin GroupFns, NEW ctxt,
         ctxt.Index = Parser_topContext.Index,
         ctxt.F \notin Unnamed \union GroupFns \union PlainLoops,
         ContextStack' = TopContext(ctxt), Grows(NodeStack, NodeStack'),
         NEW t, t.op \in LeafKinds, ParsePrefix(t), UNCHANGED <<GroupStack, frames>>
  PROVE  Fitting'
  <1>1. call'.fn = "parsePrefix" /\ CallFits(NodeStack', call', ctxt)
    BY ParsePrefixFits
  <1> QED  BY <1>1, NamedOperandKept

LEMMA PartContext ==
  ASSUME Inv, call.fn \in RunningFns, NEW F \in PartFns
  PROVE  /\ ContextWith(F).Index = Parser_topContext.Index
         /\ ContextWith(F).F \notin Unnamed \union GroupFns \union PlainLoops
         /\ \A Prec \in Nat :
              /\ [ContextWith(F) EXCEPT !.Prec = Prec].Index = Parser_topContext.Index
              /\ [ContextWith(F) EXCEPT !.Prec = Prec].F
                   \notin Unnamed \union GroupFns \union PlainLoops
  <1>1. F \in PlainFns /\ AnyClass(F)
    BY PartFnsArePlain
  <1>2. F \notin Unnamed \union GroupFns \union PlainLoops
    BY PartNames
  <1>3. ContextWith(F).F = F /\ ContextWith(F).Index = Parser_topContext.Index
    BY <1>1, ContextWithF
  <1>4. \A Prec \in Nat :
          /\ [ContextWith(F) EXCEPT !.Prec = Prec].F = F
          /\ [ContextWith(F) EXCEPT !.Prec = Prec].Index = Parser_topContext.Index
    BY <1>1, ContextWithFAndPrec
  <1> QED  BY <1>2, <1>3, <1>4

LEMMA TakePartFits ==
  ASSUME Inv, Inv', Fitting, call.fn \in RunningFns, call.fn \notin GroupFns,
         call.tok \in Token, call.tok.hi \in 0..Len(input), NEW F \in PartFns,
         TakeOperand(call.tok, ContextWith(F)), UNCHANGED <<GroupStack, frames>>
  PROVE  Fitting'
  <1> DEFINE ctxt == ContextWith(F)
  <1>1. /\ ctxt.Index = Parser_topContext.Index
        /\ ctxt.F \notin Unnamed \union GroupFns \union PlainLoops
    BY PartContext
  <1>2. TakeOperand(call.tok, ctxt)
    OBVIOUS
  <1> HIDE DEF ctxt
  <1> QED  BY <1>1, <1>2, TakeOperandFits

LEMMA TakePartAtFits ==
  ASSUME Inv, Inv', Fitting, Calling("parseInfix"), NEW F \in PartFns, NEW Prec \in Nat,
         TakeOperand(call.tok, [ContextWith(F) EXCEPT !.Prec = Prec]),
         UNCHANGED <<GroupStack, frames>>
  PROVE  Fitting'
  <1> DEFINE ctxt == [ContextWith(F) EXCEPT !.Prec = Prec]
  <1>1. /\ call.fn \in RunningFns /\ call.fn \notin GroupFns
        /\ call.tok \in Token /\ call.tok.hi \in 0..Len(input)
    BY InfixCall
  <1>2. /\ ctxt.Index = Parser_topContext.Index
        /\ ctxt.F \notin Unnamed \union GroupFns \union PlainLoops
    BY <1>1, PartContext
  <1>3. TakeOperand(call.tok, ctxt)
    OBVIOUS
  <1> HIDE DEF ctxt
  <1> QED  BY <1>1, <1>2, <1>3, TakeOperandFits

LEMMA InfixPartFits ==
  ASSUME Inv, Inv', Fitting, Calling("parseInfix"), NEW F \in PartFns,
         TakeOperand(call.tok, ContextWith(F)), UNCHANGED <<GroupStack, frames>>
  PROVE  Fitting'
  BY InfixCall, TakePartFits

\* The operator has no further part.
LEMMA PartEndFits ==
  ASSUME Inv, Inv', Fitting, call.fn \in RunningFns, call.fn \notin GroupFns,
         LoopOf(call.fn) = "NULL", NEW q,
         NEW fn \in PartReduces \union {"IntegralParselet_reduceIntegral"},
         EndLoop(q, fn), UNCHANGED GroupStack
  PROVE  Fitting'
  <1>1. /\ UNCHANGED <<ContextStack, GroupStack, frames>> /\ UNCHANGED NodeStack
        /\ call'.fn = fn
    BY DEF EndLoop, Jump
  <1>2. Grows(NodeStack, NodeStack')
    BY <1>1, Unchanged
  <1> QED  BY <1>1, <1>2, PartReducesFacts, PartReduceFits

LEMMA TildeInfixFits == Inv /\ Inv' /\ Fitting /\ TildeParselet_parseInfix => Fitting'
  <1> SUFFICES ASSUME Inv, Inv', Fitting, TildeParselet_parseInfix PROVE Fitting'
    OBVIOUS
  <1> DEFINE F    == "TildeParselet_parse1"
             prec == PRECEDENCE.LOWEST
  <1>1. /\ Calling("parseInfix")
        /\ TakeOperand(call.tok, [ContextWith(F) EXCEPT !.Prec = prec])
        /\ UNCHANGED <<GroupStack, frames>>
    BY DEF TildeParselet_parseInfix, Infix
  <1>2. F \in PartFns /\ prec \in Nat
    BY Precedences DEF PartFns
  <1> HIDE DEF F, prec
  <1> QED  BY <1>1, <1>2, TakePartAtFits

LEMMA TildeLoopFits == Inv /\ Inv' /\ Fitting /\ TildeParselet_parse1 => Fitting'
  <1> SUFFICES ASSUME Inv, Inv', Fitting, TildeParselet_parse1 PROVE Fitting'
    OBVIOUS
  <1> DEFINE q    == TriviaEnd(buffer)
             t    == Tokenizer_currentToken(q)
             fn   == "TildeParselet_reduceError"
             F    == "TildeParselet_reduceTilde"
             prec == PRECEDENCE.TILDE
             ctxt == [ContextWith(F) EXCEPT !.Prec = prec]
  <1>1. /\ Calling("TildeParselet_parse1") /\ UNCHANGED GroupStack
        /\ \/ EndLoop(q, fn)
           \/ /\ t.op = "TILDE"
              /\ NodeStack' = NodeStack \o TriviaTokens(buffer, q) \o <<t>>
                                \o TriviaTokens(t.hi, TriviaEnd(t.hi))
              /\ ContextStack' = TopContext(ctxt)
              /\ ParsePrefix(AfterOperator(t))
              /\ UNCHANGED frames
    BY DEF TildeParselet_parse1, Looping
  <1>2. /\ call.fn \in RunningFns /\ call.fn \notin GroupFns
        /\ LoopOf(call.fn) = "NULL"
    BY <1>1, PartRuns DEF Calling, PartLoops
  <1>3. q \in buffer..Len(input) /\ q \in 0..Len(input)
    BY <1>1, PartLoop
  <1>4. F \in PartFns /\ prec \in Nat /\ fn \in PartReduces
    BY Precedences DEF PartFns, PartReduces
  <1>5. CASE EndLoop(q, fn)
    <2> HIDE DEF q, fn
    <2> QED  BY <1>1, <1>2, <1>4, <1>5, PartEndFits
  <1>6. CASE /\ t.op = "TILDE"
             /\ NodeStack' = NodeStack \o TriviaTokens(buffer, q) \o <<t>>
                               \o TriviaTokens(t.hi, TriviaEnd(t.hi))
             /\ ContextStack' = TopContext(ctxt)
             /\ ParsePrefix(AfterOperator(t))
             /\ UNCHANGED frames
    <2>1. t \in Token /\ t.hi \in 0..Len(input)
      BY <1>3, <1>6, TokenAt
    <2> HIDE DEF F, prec
    <2>2. /\ ctxt.Index = Parser_topContext.Index
          /\ ctxt.F \notin Unnamed \union GroupFns \union PlainLoops
      BY <1>2, <1>4, PartContext
    <2> HIDE DEF q, t, ctxt
    <2>3. TriviaEnd(t.hi) \in (t.hi)..Len(input)
      BY <2>1, TriviaEndType
    <2>4. Grows(NodeStack, NodeStack')
      BY <1>3, <1>6, <2>1, <2>3, GrowsInLoop
    <2>5. AfterOperator(t).op \in LeafKinds
      BY <2>1, OperatorType
    <2> QED  BY <1>1, <1>2, <1>6, <2>2, <2>4, <2>5, NextOperandFits
  <1> QED  BY <1>1, <1>5, <1>6

LEMMA TildeReduceFits == Inv /\ Inv' /\ Fitting /\ TildeParselet_reduce => Fitting'
  <1> SUFFICES ASSUME Inv, Inv', Fitting, TildeParselet_reduce PROVE Fitting'
    OBVIOUS
  <1>1. {"TildeParselet_reduceTilde", "TildeParselet_reduceError"}
          \subseteq (ReduceFns \ {InnerReduce}) \ GroupFns
    BY DEF ReduceFns, InnerReduce, GroupFns
  <1>2. {"Ternary", "SyntaxError"} \subseteq NodeKinds \ {"Leaf"}
    BY DEF NodeKinds
  <1> QED  BY <1>1, <1>2, RunningFnsFacts, ReduceContextFits DEF TildeParselet_reduce

LEMMA ColonInfixFits == Inv /\ Inv' /\ Fitting /\ ColonParselet_parseInfix => Fitting'
  <1> SUFFICES ASSUME Inv, Inv', Fitting, ColonParselet_parseInfix PROVE Fitting'
    OBVIOUS
  <1> DEFINE Fs == {"ColonParselet_reducePattern", "ColonParselet_reduceOptional",
                    "ColonParselet_reduceError"}
             Precs == {PRECEDENCE.FAKE_PATTERNCOLON, PRECEDENCE.FAKE_OPTIONALCOLON}
  <1>1. /\ Calling("parseInfix") /\ UNCHANGED <<GroupStack, frames>>
        /\ \E F \in Fs, Prec \in Precs :
             TakeOperand(call.tok, [ContextWith(F) EXCEPT !.Prec = Prec])
    BY DEF ColonParselet_parseInfix, Infix
  <1>2. PICK F \in Fs, Prec \in Precs :
          TakeOperand(call.tok, [ContextWith(F) EXCEPT !.Prec = Prec])
    BY <1>1
  <1>3. F \in PartFns /\ Prec \in Nat
    BY Precedences DEF PartFns
  <1> QED  BY <1>1, <1>2, <1>3, TakePartAtFits

\* The operator and its tag are parsed in the context that the operand to the
\* left of them was parsed for.
LEMMA SlashColonLoopFits ==
  Inv /\ Inv' /\ Fitting /\ SlashColonParselet_parse1 => Fitting'
  <1> SUFFICES ASSUME Inv, Inv', Fitting, SlashColonParselet_parse1 PROVE Fitting'
    OBVIOUS
  <1> DEFINE q    == TriviaEnd(buffer)
             Tok  == Tokenizer_currentToken(q)
             fn   == TagFunction(Tok.op)
             top  == Parser_topContext
             ctxt == [top EXCEPT !.Prec = PRECEDENCE.EQUAL]
             err  == "SlashColonParselet_reduceError"
  <1>1. /\ Calling("SlashColonParselet_parse1") /\ UNCHANGED GroupStack
        /\ \/ EndLoop(q, err)
           \/ /\ NodeStack' = NodeStack \o TriviaTokens(buffer, q)
              /\ ContextStack' = TopContext(ctxt) /\ call'.fn = fn
              /\ UNCHANGED frames
    BY DEF SlashColonParselet_parse1, Looping, Jump
  <1>2. /\ call.fn \in RunningFns /\ call.fn \notin GroupFns
        /\ LoopOf(call.fn) = "NULL" /\ call.fn = "SlashColonParselet_parse1"
    BY <1>1, PartRuns DEF Calling, PartLoops
  <1>3. q \in buffer..Len(input) /\ q \in 0..Len(input)
    BY <1>1, PartLoop
  <1>4. CASE EndLoop(q, err)
    <2>1. err \in PartReduces
      BY DEF PartReduces
    <2> HIDE DEF q, err
    <2> QED  BY <1>1, <1>2, <1>4, <2>1, PartEndFits
  <1>5. CASE /\ NodeStack' = NodeStack \o TriviaTokens(buffer, q)
             /\ ContextStack' = TopContext(ctxt) /\ call'.fn = fn
             /\ UNCHANGED frames
    <2>1. call'.fn \in TagFns
      BY <1>5 DEF TagFunction, TagFns
    <2>2. /\ ContextStack # <<>> /\ top \in Context
          /\ top.F = "SlashColonParselet_parse1" /\ ~GroupMark(top)
      BY <1>2, TopOfRunning DEF TopFits, PartLoops
    <2> HIDE DEF q, top, fn
    <2>3. ctxt.F = top.F /\ ctxt.P = top.P /\ ctxt.Index = top.Index
      BY <2>2, ContextFields DEF Context
    <2>4. ctxt.F = "SlashColonParselet_parse1"
      BY <2>2, <2>3
    <2> HIDE DEF ctxt
    <2>5. ctxt \in Context
      BY <1>5, <2>2, TopChanged
    <2>6. ctxt.F \notin GroupFns \union PlainLoops /\ ~GroupMark(ctxt)
      BY <2>4 DEF GroupFns, PlainLoops, GroupMark
    <2>7. Grows(NodeStack, NodeStack')
      <3>1. buffer \in 0..Len(input) /\ NodeStack \in Seq(Node)
        BY StackTypes
      <3> QED  BY <1>3, <1>5, <3>1, GrowsSomeTrivia
    <2>8. ContextFits(NodeStack', ctxt)
      BY <1>2, <2>3, <2>5, <2>6, <2>7, StillFits DEF top
    <2>9. CallFits(NodeStack', call', ctxt)
      <3>1. TopFits(call', ctxt)
        BY <2>1, <2>4, <2>6 DEF TopFits, TagFns, PartLoops, LoopFns, GroupFns, IsIdentity
      <3>2. ArgumentsFit(call')
        BY <2>1 DEF ArgumentsFit, TagFns, ContextSensitiveFns
      <3>3. LoopOf(call'.fn) = "NULL"
        BY <2>1 DEF TagFns, LoopOf, LoopFns
      <3>4. NodesFit(NodeStack', call', ctxt)
        BY <2>1, <3>3 DEF NodesFit, TagFns
      <3> QED  BY <3>1, <3>2, <3>4 DEF CallFits
    <2>10. call'.fn \in RunningFns
      BY <2>1, RunningFnsFacts DEF ParseFns, ContextSensitiveFns, TagFns
    <2> QED  BY <1>1, <1>2, <1>5, <2>3, <2>5, <2>7, <2>8, <2>9, <2>10, StayKept DEF top
  <1> QED  BY <1>1, <1>4, <1>5

\* The function of a tag, with its operator.
LEMMA TagCall ==
  ASSUME Inv, call.fn \in TagFns
  PROVE  /\ call.fn \in RunningFns /\ call.fn \notin GroupFns
         /\ LoopOf(call.fn) = "NULL"
         /\ call.tok \in Token /\ call.tok.hi \in 0..Len(input)
  <1>1. /\ call.fn \in RunningFns /\ call.fn \notin GroupFns
        /\ LoopOf(call.fn) = "NULL"
    BY PartRuns
  <1> QED  BY <1>1, TagType DEF TagFns

LEMMA TakeUnsetFits ==
  ASSUME Inv, Inv', Fitting, call.fn \in RunningFns, call.fn \notin GroupFns,
         LoopOf(call.fn) = "NULL",
         call.tok \in Token, call.tok.hi \in 0..Len(input), NEW fn \in PartReduces,
         TakeUnset(fn), UNCHANGED <<GroupStack, frames>>
  PROVE  Fitting'
  <1> DEFINE Dot   == AfterOperator(call.tok)
             nodes == WithOperator(call.tok)
  <1>1. NodeStack' = Append(nodes, Dot) /\ call'.fn = fn /\ UNCHANGED ContextStack
    BY DEF TakeUnset, Goto, Jump
  <1>2. Grows(NodeStack, nodes) /\ nodes \in Seq(Node)
    BY GrowsByOperator
  <1>3. Dot \in Node
    BY OperatorType, TokenIsNode
  <1> HIDE DEF Dot, nodes
  <1>4. Grows(NodeStack, NodeStack')
    BY <1>1, <1>2, <1>3, GrowsWithOne
  <1> QED  BY <1>1, <1>4, PartReducesFacts, PartReduceFits

LEMMA EqualInfixFits == Inv /\ Inv' /\ Fitting /\ EqualParselet_parseInfix => Fitting'
  <1> SUFFICES ASSUME Inv, Inv', Fitting, EqualParselet_parseInfix PROVE Fitting'
    OBVIOUS
  <1>1. /\ Calling("parseInfix") /\ UNCHANGED <<GroupStack, frames>>
        /\ \/ TakeUnset("EqualParselet_reduceUnset")
           \/ TakeOperand(call.tok, ContextWith("EqualParselet_reduceSet"))
    BY DEF EqualParselet_parseInfix, Infix
  <1>2. "EqualParselet_reduceSet" \in PartFns /\ "EqualParselet_reduceUnset" \in PartReduces
    BY DEF PartFns, PartReduces
  <1> QED  BY <1>1, <1>2, InfixCall, TakeUnsetFits, InfixPartFits

LEMMA EqualTagFits == Inv /\ Inv' /\ Fitting /\ EqualParselet_parseInfixTag => Fitting'
  <1> SUFFICES ASSUME Inv, Inv', Fitting, EqualParselet_parseInfixTag PROVE Fitting'
    OBVIOUS
  <1>1. /\ call.fn \in TagFns /\ UNCHANGED <<GroupStack, frames>>
        /\ \/ TakeUnset("EqualParselet_reduceTagUnset")
           \/ TakeOperand(call.tok, ContextWith("EqualParselet_reduceTagSet"))
    BY DEF EqualParselet_parseInfixTag, Looping, Calling, TagFns
  <1>2. "EqualParselet_reduceTagSet" \in PartFns
        /\ "EqualParselet_reduceTagUnset" \in PartReduces
    BY DEF PartFns, PartReduces
  <1> QED  BY <1>1, <1>2, TagCall, TakeUnsetFits, TakePartFits

LEMMA ColonEqualTagFits ==
  Inv /\ Inv' /\ Fitting /\ ColonEqualParselet_parseInfixTag => Fitting'
  <1> SUFFICES ASSUME Inv, Inv', Fitting, ColonEqualParselet_parseInfixTag PROVE Fitting'
    OBVIOUS
  <1>1. /\ call.fn \in TagFns /\ UNCHANGED <<GroupStack, frames>>
        /\ TakeOperand(call.tok, ContextWith("ColonEqualParselet_reduceTagSetDelayed"))
    BY DEF ColonEqualParselet_parseInfixTag, Looping, Calling, TagFns
  <1>2. "ColonEqualParselet_reduceTagSetDelayed" \in PartFns
    BY DEF PartFns
  <1> QED  BY <1>1, <1>2, TagCall, TakePartFits

LEMMA TagAndSpan_abortFits == Inv /\ Inv' /\ Fitting /\ TagAndSpan_abort => Fitting'
  <1> SUFFICES ASSUME Inv, Inv', Fitting, TagAndSpan_abort PROVE Fitting'
    OBVIOUS
  <1>1. /\ call.fn \in TagFns \union {"SemiSemiParselet_parse1"}
        /\ NodeStack' = Append(NodesBelow(NodeStack), AbortNode)
        /\ ContextStack' = Pop(ContextStack) /\ Goto("Parser_tryContinue")
        /\ UNCHANGED GroupStack /\ UNCHANGED frames
    BY DEF TagAndSpan_abort, TagFns
  <1>2. call.fn \in RunningFns /\ call.fn \notin GroupFns
    BY <1>1, PartRuns
  <1> QED  BY <1>1, <1>2, AbortKept

-----------------------------------------------------------------------------
(* Spans                                                                   *)

LEMMA SemiSemiPrefixFits ==
  Inv /\ Inv' /\ Fitting /\ SemiSemiParselet_parsePrefix => Fitting'
  <1> SUFFICES ASSUME Inv, Inv', Fitting, SemiSemiParselet_parsePrefix PROVE Fitting'
    OBVIOUS
  <1> DEFINE n     == Len(NodeStack)
             t     == call.tok
             one   == Empty("FAKE_IMPLICITONE", t)
             ctxt  == NewContext(n, PRECEDENCE.SEMISEMI)
             I     == New("SemiSemi")
  <1>1. /\ Calling("parsePrefix") /\ NodeStack' = Append(NodeStack, one)
        /\ ContextStack' =
             Parser_pushContext(Append(NodeStack, one), PRECEDENCE.SEMISEMI)
        /\ call'.fn = "parseInfix" /\ call'.P = I
        /\ UNCHANGED <<GroupStack, frames>>
    BY DEF SemiSemiParselet_parsePrefix, Prefix, Jump
  <1>2. call.fn \in QuietFns /\ t \in Token
    BY <1>1, PrefixCall
  <1>3. one \in Token /\ one \in Node /\ ~LeafIn(one, Openers)
    <2>1. "FAKE_IMPLICITONE" \in LeafKinds /\ "FAKE_IMPLICITONE" \in Errors \union Fakes
      BY ErrorKinds
    <2> HIDE DEF t
    <2> QED  BY <1>2, <2>1, EmptyType, TokenIsNode, ErrorsAreNoOpeners
  <1>4. I.class = "SemiSemi"
    BY NewType DEF InfixClasses
  <1> HIDE DEF one, I
  <1>5. /\ ContextStack' = Append(ContextStack, ctxt) /\ ctxt.Index = n
        /\ ctxt.F = "NULL" /\ ctxt.P = NoParselet /\ ctxt.Prec = PRECEDENCE.SEMISEMI
        /\ ~GroupMark(ctxt) /\ ctxt.F \notin GroupFns \union PlainLoops
    BY <1>1, <1>3, Precedences, EnteredContextFits
  <1>6. PRECEDENCE.SEMISEMI > 0
    BY DEF PRECEDENCE
  <1>7. NodeStack \in Seq(Node) /\ n \in Nat
    BY StackTypes
  <1>8. /\ Grows(NodeStack, NodeStack') /\ NodeStack'[n + 1] = one
        /\ Len(NodeStack') = n + 1 /\ NodeStack' \in Seq(Node)
    BY <1>1, <1>3, <1>7, GrowsByOne
  <1> HIDE DEF ctxt
  <1>9. \A k \in (ctxt.Index + 2)..Len(NodeStack') : LeafIn(NodeStack'[k], Trivia)
    BY <1>5, <1>7, <1>8
  <1>10. ctxt.Prec > 0
    BY <1>5, <1>6
  <1>11. CallFits(NodeStack', call', ctxt)
    BY <1>1, <1>4, <1>5, <1>8, <1>9, <1>10, InfixFits
  <1>12. call'.fn \in RunningFns
    BY <1>1, RunningFnsFacts
  <1> QED  BY <1>1, <1>2, <1>3, <1>5, <1>8, <1>11, <1>12, EnterKept

LEMMA SemiSemiInfixFits ==
  Inv /\ Inv' /\ Fitting /\ SemiSemiParselet_parseInfix => Fitting'
  <1> SUFFICES ASSUME Inv, Inv', Fitting, SemiSemiParselet_parseInfix PROVE Fitting'
    OBVIOUS
  <1> DEFINE top == Parser_topContext
             fn  == "SemiSemiParselet_parse1"
  <1>1. /\ Calling("parseInfix") /\ NodeStack' = Append(NodeStack, call.tok)
        /\ call'.fn = fn
        /\ UNCHANGED <<ContextStack, GroupStack, frames>>
    BY DEF SemiSemiParselet_parseInfix, Infix, TakeLeaf, Goto, Jump
  <1>2. /\ call.fn \in RunningFns /\ call.fn \notin GroupFns /\ call.tok \in Token
        /\ top.F = "NULL" /\ top.P = NoParselet
    BY <1>1, InfixCall
  <1>3. ~GroupMark(top)
    BY <1>2, TopOfRunning
  <1>4. NodeStack \in Seq(Node) /\ call.tok \in Node
    BY <1>2, StackTypes, TokenIsNode
  <1>5. Grows(NodeStack, NodeStack')
    BY <1>1, <1>4, GrowsByOne
  <1> HIDE DEF top
  <1>6. TopFits(call', top)
    <2>1. /\ fn \notin LoopFns /\ fn \notin PartLoops /\ fn \notin TagFns
          /\ fn \notin GroupFns /\ fn # "parseInfix"
      BY DEF LoopFns, PartLoops, TagFns, GroupFns
    <2> QED  BY <1>1, <1>2, <1>3, <2>1 DEF TopFits, IsIdentity
  <1>7. ArgumentsFit(call')
    BY <1>1 DEF ArgumentsFit, ContextSensitiveFns
  <1>8. NodesFit(NodeStack', call', top)
    <2>1. LoopOf(fn) = "NULL"
      BY DEF LoopOf, LoopFns
    <2> QED  BY <1>1, <2>1 DEF NodesFit
  <1>9. call'.fn \in RunningFns
    BY <1>1, RunningFnsFacts DEF ParseFns, ContextSensitiveFns
  <1> QED  BY <1>1, <1>2, <1>5, <1>6, <1>7, <1>8, <1>9, StayFits DEF CallFits, top

LEMMA SemiSemiLoop1Fits ==
  Inv /\ Inv' /\ Fitting /\ SemiSemiParselet_parse1 => Fitting'
  <1> SUFFICES ASSUME Inv, Inv', Fitting, SemiSemiParselet_parse1 PROVE Fitting'
    OBVIOUS
  <1> DEFINE q     == TriviaButNotToplevelNewlinesEnd(buffer)
             t     == Tokenizer_currentToken(q)
             nodes == NodeStack \o TriviaTokens(buffer, q)
             all   == Empty("FAKE_IMPLICITALL", t)
             All   == Append(nodes, all)
             r     == TriviaButNotToplevelNewlinesEnd(t.hi)
             taken == Append(All, t)
             last  == taken \o TriviaTokens(t.hi, r)
             F     == "SemiSemiParselet_parse2"
             G     == "SemiSemiParselet_reduceTernary"
             fn    == "SemiSemiParselet_reduceBinary"
  <1>1. /\ Calling("SemiSemiParselet_parse1") /\ UNCHANGED <<GroupStack, frames>>
        /\ \/ /\ NodeStack' = All /\ call'.fn = fn /\ UNCHANGED ContextStack
           \/ /\ NodeStack' = nodes /\ ContextStack' = TopContext(ContextWith(F))
              /\ ParsePrefix(t)
           \/ /\ t.op = "SEMISEMI" /\ NodeStack' = last
              /\ ContextStack' = TopContext(ContextWith(G))
              /\ ParsePrefix(Tokenizer_currentToken(r))
    BY SMTT(30) DEF SemiSemiParselet_parse1, Looping, Goto, Jump
  <1>2. /\ q \in 0..Len(input) /\ q \in buffer..Len(input) /\ t \in Token
        /\ t.op # "ENDOFFILE" =>
             t.hi \in 0..Len(input) /\ r \in (t.hi)..Len(input) /\ r \in 0..Len(input)
    BY <1>1, SpanTokens
  <1>3. /\ call.fn \in RunningFns /\ call.fn \notin GroupFns
        /\ LoopOf(call.fn) = "NULL"
    BY <1>1, PartRuns DEF Calling
  <1>4. F \in PartFns /\ G \in PartFns /\ fn \in PartReduces
    BY DEF PartFns, PartReduces
  <1>5. t.op \in LeafKinds /\ t \in Node
    BY <1>2, TokenAt, TokenIsNode
  <1> HIDE DEF t, F, G, fn
  <1>6. all \in Node
    BY <1>2, ErrorKinds, EmptyType, TokenIsNode
  <1>7. buffer \in 0..Len(input) /\ NodeStack \in Seq(Node)
    BY StackTypes
  <1> HIDE DEF q
  <1>8. Grows(NodeStack, nodes) /\ nodes \in Seq(Node)
    BY <1>2, <1>7, GrowsSomeTrivia
  <1> HIDE DEF nodes, all
  <1>9. Grows(NodeStack, All) /\ All \in Seq(Node)
    BY <1>6, <1>8, GrowsWithOne
  <1> HIDE DEF All
  <1>10. CASE NodeStack' = All /\ call'.fn = fn /\ UNCHANGED ContextStack
    BY <1>1, <1>3, <1>4, <1>9, <1>10, PartReducesFacts, PartReduceFits
  <1>11. CASE /\ NodeStack' = nodes /\ ContextStack' = TopContext(ContextWith(F))
              /\ ParsePrefix(t)
    BY <1>1, <1>3, <1>4, <1>5, <1>8, <1>11, PartContext, NextOperandFits
  <1>12. CASE /\ t.op = "SEMISEMI" /\ NodeStack' = last
              /\ ContextStack' = TopContext(ContextWith(G))
              /\ ParsePrefix(Tokenizer_currentToken(r))
    <2>1. t.hi \in 0..Len(input) /\ r \in (t.hi)..Len(input) /\ r \in 0..Len(input)
      BY <1>2, <1>12
    <2>2. Grows(NodeStack, taken) /\ taken \in Seq(Node)
      BY <1>5, <1>9, GrowsWithOne
    <2>3. Tokenizer_currentToken(r).op \in LeafKinds
      <3> HIDE DEF r
      <3> QED  BY <2>1, TokenAt
    <2> HIDE DEF r, taken
    <2>4. Grows(taken, last) /\ last \in Seq(Node)
      BY <2>1, <2>2, GrowsSomeTrivia
    <2> HIDE DEF last
    <2>5. Grows(NodeStack, last)
      BY <1>7, <2>2, <2>4, GrowsFurther
    <2> QED  BY <1>1, <1>3, <1>4, <1>12, <2>3, <2>5, PartContext, NextOperandFits
  <1> QED  BY <1>1, <1>10, <1>11, <1>12

LEMMA SemiSemiLoop2Fits ==
  Inv /\ Inv' /\ Fitting /\ SemiSemiParselet_parse2 => Fitting'
  <1> SUFFICES ASSUME Inv, Inv', Fitting, SemiSemiParselet_parse2 PROVE Fitting'
    OBVIOUS
  <1> DEFINE q    == TriviaButNotToplevelNewlinesEnd(buffer)
             t    == Tokenizer_currentToken(q)
             r    == TriviaButNotToplevelNewlinesEnd(t.hi)
             last == NodeStack \o TriviaTokens(buffer, q) \o <<t>> \o TriviaTokens(t.hi, r)
             G    == "SemiSemiParselet_reduceTernary"
             fn   == "SemiSemiParselet_reduceBinary"
  <1>1. /\ Calling("SemiSemiParselet_parse2") /\ UNCHANGED <<GroupStack, frames>>
        /\ \/ /\ call'.fn = fn /\ UNCHANGED NodeStack /\ UNCHANGED ContextStack
           \/ /\ t.op = "SEMISEMI" /\ NodeStack' = last
              /\ ContextStack' = TopContext(ContextWith(G))
              /\ ParsePrefix(Tokenizer_currentToken(r))
    BY DEF SemiSemiParselet_parse2, Looping, Goto, Jump
  <1>2. /\ q \in buffer..Len(input) /\ t \in Token
        /\ t.op # "ENDOFFILE" =>
             t.hi \in 0..Len(input) /\ r \in (t.hi)..Len(input) /\ r \in 0..Len(input)
    BY <1>1, SpanTokens
  <1>3. /\ call.fn \in RunningFns /\ call.fn \notin GroupFns
        /\ LoopOf(call.fn) = "NULL"
    BY <1>1, PartRuns DEF Calling, PartLoops
  <1>4. G \in PartFns /\ fn \in PartReduces
    BY DEF PartFns, PartReduces
  <1> HIDE DEF t, q, G, fn
  <1>5. CASE call'.fn = fn /\ UNCHANGED NodeStack /\ UNCHANGED ContextStack
    <2>1. Grows(NodeStack, NodeStack')
      BY <1>5, Unchanged
    <2> QED  BY <1>1, <1>3, <1>4, <1>5, <2>1, PartReducesFacts, PartReduceFits
  <1>6. CASE /\ t.op = "SEMISEMI" /\ NodeStack' = last
             /\ ContextStack' = TopContext(ContextWith(G))
             /\ ParsePrefix(Tokenizer_currentToken(r))
    <2>1. t.hi \in 0..Len(input) /\ r \in (t.hi)..Len(input) /\ r \in 0..Len(input)
      BY <1>2, <1>6
    <2> HIDE DEF r
    <2>2. Tokenizer_currentToken(r).op \in LeafKinds
      BY <2>1, TokenAt
    <2>3. Grows(NodeStack, NodeStack')
      BY <1>2, <1>6, <2>1, GrowsInLoop
    <2> HIDE DEF last
    <2> QED  BY <1>1, <1>3, <1>4, <1>6, <2>2, <2>3, PartContext, NextOperandFits
  <1> QED  BY <1>1, <1>5, <1>6

-----------------------------------------------------------------------------
(* Integrals                                                               *)

LEMMA IntegralPrefixFits ==
  Inv /\ Inv' /\ Fitting /\ IntegralParselet_parsePrefix => Fitting'
  <1> SUFFICES ASSUME Inv, Inv', Fitting, IntegralParselet_parsePrefix PROVE Fitting'
    OBVIOUS
  <1> DEFINE n     == Len(NodeStack)
             t     == call.tok
             P     == call.P
             r     == NewContext(n, PRECEDENCE.CLASS_INTEGRATIONOPERATORS)
             Tok   == AfterOperator(t)
             one   == Empty("FAKE_IMPLICITONE", Tok)
             nodes == WithOperator(t)
             F     == "IntegralParselet_parse1"
             ctxt  == [r EXCEPT !.F = F, !.P = P]
  <1>1. /\ Calling("parsePrefix") /\ P.class = "Integral" /\ UNCHANGED <<GroupStack, frames>>
        /\ \/ /\ NodeStack' = Append(nodes, one)
              /\ ContextStack' = Append(ContextStack, r)
              /\ call'.fn = F
           \/ /\ NodeStack' = nodes
              /\ ContextStack' = Append(ContextStack, ctxt)
              /\ ParsePrefix(Tok)
    BY DEF IntegralParselet_parsePrefix, Prefix, Jump
  <1>2. /\ t \in Token /\ t.hi \in 0..Len(input) /\ call.fn \in QuietFns
        /\ ~LeafIn(t, Openers)
    BY <1>1, PrefixCall
  <1>3. /\ Grows(NodeStack, nodes) /\ nodes \in Seq(Node) /\ nodes[n + 1] = t
        /\ n < Len(nodes) /\ n \in Nat
    BY <1>2, GrowsByOperator, StackTypes
  <1>4. Tok \in Token /\ Tok.op \in LeafKinds
    BY <1>2, OperatorType
  <1>5. CASE /\ NodeStack' = Append(nodes, one)
             /\ ContextStack' = Append(ContextStack, r)
             /\ call'.fn = F
    <2>1. one \in Node
      <3> HIDE DEF Tok
      <3> QED  BY <1>4, ErrorKinds, EmptyType, TokenIsNode
    <2>2. r.F = "NULL" /\ r.Index = n /\ ~GroupMark(r)
      BY NewContextFields
    <2>3. r.F \notin GroupFns \union PlainLoops
      BY <2>2 DEF GroupFns, PlainLoops
    <2> HIDE DEF one, nodes, r
    <2>4. /\ Grows(NodeStack, NodeStack')
          /\ \A i \in 1..Len(nodes) : NodeStack'[i] = nodes[i]
          /\ Len(nodes) \in Nat
      BY <1>3, <1>5, <2>1, GrowsWithOne
    <2>5. n + 1 \in 1..Len(nodes)
      BY <1>3, <2>4
    <2>6. ~LeafIn(NodeStack'[n + 1], Openers)
      BY <1>2, <1>3, <2>4, <2>5
    <2>7. /\ F \in RunningFns /\ F \notin GroupFns
          /\ F \notin LoopFns \union PartLoops \union TagFns
                        \union {"parseInfix", "SemiSemiParselet_parse1"}
      BY IntegralPart DEF GroupFns, LoopFns, PartLoops, TagFns
    <2>8. LoopOf(F) = "NULL" /\ ~IsIdentity(r)
      BY <2>2 DEF LoopOf, LoopFns, IsIdentity
    <2>9. CallFits(NodeStack', call', r)
      BY <1>5, <2>2, <2>7, <2>8, ReduceFits
    <2> QED  BY <1>1, <1>2, <1>5, <2>2, <2>3, <2>4, <2>6, <2>7, <2>9, EnterKept
  <1>6. CASE /\ NodeStack' = nodes
             /\ ContextStack' = Append(ContextStack, ctxt)
             /\ ParsePrefix(Tok)
    <2>1. ctxt.F = F /\ ctxt.Index = n
      BY DEF NewContext
    <2>2. ctxt.F \notin GroupFns \union PlainLoops \union Unnamed /\ ~GroupMark(ctxt)
      BY <2>1 DEF GroupFns, PlainLoops, Unnamed, GroupMark
    <2>3. CallFits(NodeStack', call', ctxt)
      BY <1>4, <1>6, ParsePrefixFits
    <2> HIDE DEF nodes, ctxt, F
    <2> QED  BY <1>1, <1>2, <1>3, <1>6, <2>1, <2>2, <2>3, EnterKept
  <1> QED  BY <1>1, <1>5, <1>6

LEMMA IntegralLoopFits ==
  Inv /\ Inv' /\ Fitting /\ IntegralParselet_parse1 => Fitting'
  <1> SUFFICES ASSUME Inv, Inv', Fitting, IntegralParselet_parse1 PROVE Fitting'
    OBVIOUS
  <1> DEFINE q    == TriviaEnd(buffer)
             t    == Tokenizer_currentToken(q)
             fn   == "IntegralParselet_reduceIntegral"
             F    == "IntegralParselet_reduceIntegrate"
             P    == call.P
             ctxt == [ContextWith(F) EXCEPT !.P = P]
  <1>1. /\ Calling("IntegralParselet_parse1") /\ UNCHANGED GroupStack
        /\ \/ EndLoop(q, fn)
           \/ /\ NodeStack' = NodeStack \o TriviaTokens(buffer, q)
              /\ ContextStack' = TopContext(ctxt)
              /\ ParsePrefix(t)
              /\ UNCHANGED frames
    BY DEF IntegralParselet_parse1, Looping
  <1>2. /\ call.fn \in RunningFns /\ call.fn \notin GroupFns
        /\ LoopOf(call.fn) = "NULL"
    BY <1>1, PartRuns DEF Calling
  <1>3. q \in buffer..Len(input) /\ q \in 0..Len(input)
    BY <1>1, PartLoop
  <1>4. P \in Parselet /\ P.class = "Integral"
    BY <1>1, StackTypes, CallFields, IntegralPart DEF Calling
  <1>5. CASE EndLoop(q, fn)
    <2> HIDE DEF q
    <2> QED  BY <1>1, <1>2, <1>5, PartEndFits
  <1>6. CASE /\ NodeStack' = NodeStack \o TriviaTokens(buffer, q)
             /\ ContextStack' = TopContext(ctxt)
             /\ ParsePrefix(t)
             /\ UNCHANGED frames
    <2>1. /\ F \in PlainFns /\ P.class \in ClassesFor(F)
          /\ F \notin Unnamed \union GroupFns \union PlainLoops
      BY <1>4, IntegralPart, PartNames
    <2>2. ctxt.F = F /\ ctxt.Index = Parser_topContext.Index
      <3> HIDE DEF F, P
      <3> QED  BY <1>2, <1>4, <2>1, ContextWithFAndP
    <2> HIDE DEF q, ctxt, F
    <2>3. t.op \in LeafKinds
      BY <1>3, TokenAt
    <2>4. Grows(NodeStack, NodeStack')
      <3>1. buffer \in 0..Len(input) /\ NodeStack \in Seq(Node)
        BY StackTypes
      <3> QED  BY <1>3, <1>6, <3>1, GrowsSomeTrivia
    <2> QED  BY <1>1, <1>2, <1>6, <2>1, <2>2, <2>3, <2>4, NextOperandFits
  <1> QED  BY <1>1, <1>5, <1>6

LEMMA TernaryReduceFits ==
  ASSUME Inv, Inv', Fitting,
         \/ ColonParselet_reduce \/ SlashColonParselet_reduceError
         \/ EqualParselet_reduce \/ ColonEqualParselet_reduce
         \/ SemiSemiParselet_reduce \/ IntegralParselet_reduce
  PROVE  Fitting'
  <1> DEFINE reduced == {"ColonParselet_reducePattern", "ColonParselet_reduceError",
                         "ColonParselet_reduceOptional", "SlashColonParselet_reduceError",
                         "EqualParselet_reduceSet", "EqualParselet_reduceUnset",
                         "EqualParselet_reduceTagSet", "EqualParselet_reduceTagUnset",
                         "ColonEqualParselet_reduceSetDelayed",
                         "ColonEqualParselet_reduceTagSetDelayed",
                         "SemiSemiParselet_reduceBinary", "SemiSemiParselet_reduceTernary",
                         "IntegralParselet_reduceIntegrate",
                         "IntegralParselet_reduceIntegral"}
             kinds == {"Binary", "Ternary", "SyntaxError", "Prefix", "PrefixBinary"}
             ops   == {"Pattern", "Optional", "ExpectedSymbol", "ExpectedSet", "Set",
                       "Unset", "TagSet", "TagUnset", "SetDelayed", "TagSetDelayed",
                       "Span", call.P.op, call.P.op2}
  <1>1. reduced \subseteq (ReduceFns \ GroupFns) \ {InnerReduce}
    BY DEF ReduceFns, GroupFns, InnerReduce
  <1>2. kinds \subseteq NodeKinds \ {"Leaf"}
    BY DEF NodeKinds
  <1>3. \E fn \in reduced, kind \in kinds, op \in ops : Reduce(fn, kind, op)
    <2>1. CASE ColonParselet_reduce
      BY <2>1 DEF ColonParselet_reduce
    <2>2. CASE SlashColonParselet_reduceError
      BY <2>2 DEF SlashColonParselet_reduceError
    <2>3. CASE EqualParselet_reduce
      BY <2>3 DEF EqualParselet_reduce
    <2>4. CASE ColonEqualParselet_reduce
      BY <2>4 DEF ColonEqualParselet_reduce
    <2>5. CASE SemiSemiParselet_reduce
      BY <2>5 DEF SemiSemiParselet_reduce
    <2>6. CASE IntegralParselet_reduce
      BY <2>6 DEF IntegralParselet_reduce
    <2> QED  BY <2>1, <2>2, <2>3, <2>4, <2>5, <2>6
  <1> HIDE DEF reduced, kinds, ops
  <1>4. PICK fn \in reduced, kind \in kinds, op \in ops : Reduce(fn, kind, op)
    BY <1>3
  <1>5. fn \in (ReduceFns \ GroupFns) \ {InnerReduce} /\ kind \in NodeKinds \ {"Leaf"}
    BY <1>1, <1>2
  <1> QED  BY <1>4, <1>5, ReduceStepFits

LEMMA TernaryStepFits == Inv /\ Inv' /\ Fitting /\ TernaryNext => Fitting'
  <1> SUFFICES ASSUME Inv, Inv', Fitting, TernaryNext PROVE Fitting'
    OBVIOUS
  <1>1. CASE SlashColonParselet_parseInfix
    BY <1>1, InfixPartFits DEF SlashColonParselet_parseInfix, Infix, PartFns
  <1>2. CASE ColonEqualParselet_parseInfix
    BY <1>2, InfixPartFits DEF ColonEqualParselet_parseInfix, Infix, PartFns
  <1> QED  BY <1>1, <1>2, TernaryReduceFits, TildeInfixFits, TildeLoopFits,
       TildeReduceFits, ColonInfixFits, SlashColonLoopFits, EqualInfixFits, EqualTagFits,
       ColonEqualTagFits, TagAndSpan_abortFits, SemiSemiPrefixFits, SemiSemiInfixFits,
       SemiSemiLoop1Fits, SemiSemiLoop2Fits, IntegralPrefixFits, IntegralLoopFits
       DEF TernaryNext

-----------------------------------------------------------------------------
(* Message names and file operators                                        *)

LEMMA TakeTagFits ==
  ASSUME Inv, Inv', Fitting, call.fn \in RunningFns, call.fn \notin GroupFns,
         LoopOf(call.fn) = "NULL",
         NEW nodes \in Seq(Node), Grows(NodeStack, nodes), NEW t \in Token,
         t.hi \in 0..Len(input), TakeTag(nodes, t),
         UNCHANGED <<ContextStack, GroupStack, frames>>
  PROVE  Fitting'
  <1> DEFINE tag  == Tokenizer_currentToken_stringifyAsTag(t.hi)
             pair == <<t, tag>>
             fn   == "ColonColonParselet_parseLoop"
             top  == Parser_topContext
  <1>1. tag \in Token
    BY StackTypes, TagTokenType
  <1>2. NodeStack' = nodes \o pair /\ call'.fn = fn
    BY DEF TakeTag, Goto, Jump
  <1> HIDE DEF tag
  <1>3. pair \in Seq(Node)
    BY <1>1, TokenIsNode
  <1> HIDE DEF pair
  <1>4. NodeStack \in Seq(Node)
    BY StackTypes
  <1>5. Grows(nodes, NodeStack') /\ NodeStack' \in Seq(Node)
    BY <1>2, <1>3, GrowsByMore
  <1>6. Grows(NodeStack, NodeStack')
    BY <1>4, <1>5, GrowsFurther
  <1>7. /\ fn \in RunningFns /\ fn \notin GroupFns
        /\ fn \notin LoopFns \union PartLoops \union TagFns
                       \union {"parseInfix", "SemiSemiParselet_parse1"}
    BY RunningFnsFacts DEF ParseFns, ContextSensitiveFns, GroupFns, LoopFns, PartLoops,
       TagFns
  <1>8. LoopOf(fn) = "NULL"
    BY DEF LoopOf, LoopFns
  <1>9. ~GroupMark(top) /\ ~IsIdentity(top)
    BY TopOfRunning, RunsInNoLoop
  <1> HIDE DEF top
  <1>10. CallFits(NodeStack', call', top)
    BY <1>2, <1>7, <1>8, <1>9, ReduceFits
  <1> QED  BY <1>2, <1>6, <1>7, <1>10, StayFits DEF top

LEMMA ColonColonLoopFits ==
  Inv /\ Inv' /\ Fitting /\ ColonColonParselet_parseLoop => Fitting'
  <1> SUFFICES ASSUME Inv, Inv', Fitting, ColonColonParselet_parseLoop PROVE Fitting'
    OBVIOUS
  <1> DEFINE q     == TriviaEnd(buffer)
             t     == Tokenizer_currentToken(q)
             fn    == "ColonColonParselet_reduceMessageName"
             nodes == NodeStack \o TriviaTokens(buffer, q)
  <1>1. /\ Calling("ColonColonParselet_parseLoop") /\ UNCHANGED GroupStack
        /\ \/ EndLoop(q, fn)
           \/ /\ t.op = "COLONCOLON" /\ TakeTag(nodes, t)
              /\ UNCHANGED <<ContextStack, frames>>
    BY DEF ColonColonParselet_parseLoop, Looping
  <1>2. /\ call.fn \in RunningFns /\ call.fn \notin GroupFns
        /\ LoopOf(call.fn) = "NULL"
    BY <1>1, PartRuns DEF Calling
  <1>3. q \in buffer..Len(input) /\ q \in 0..Len(input)
    BY <1>1, PartLoop
  <1>4. CASE EndLoop(q, fn)
    <2>1. fn \in PartReduces
      BY DEF PartReduces
    <2> HIDE DEF q, fn
    <2> QED  BY <1>1, <1>2, <1>4, <2>1, PartEndFits
  <1>5. CASE /\ t.op = "COLONCOLON" /\ TakeTag(nodes, t)
             /\ UNCHANGED <<ContextStack, frames>>
    <2>1. t \in Token /\ t.hi \in 0..Len(input)
      BY <1>3, <1>5, TokenAt
    <2>2. buffer \in 0..Len(input) /\ NodeStack \in Seq(Node)
      BY StackTypes
    <2> HIDE DEF q, t
    <2>3. Grows(NodeStack, nodes) /\ nodes \in Seq(Node)
      BY <1>3, <2>2, GrowsSomeTrivia
    <2> HIDE DEF nodes
    <2> QED  BY <1>1, <1>2, <1>5, <2>1, <2>3, TakeTagFits
  <1> QED  BY <1>1, <1>4, <1>5

LEMMA TakeFileGrows ==
  ASSUME Inv, NEW t \in Token, t.hi \in 0..Len(input), NEW fn, TakeFile(t, fn)
  PROVE  /\ Grows(NodeStack, NodeStack') /\ NodeStack'[Len(NodeStack) + 1] = t
         /\ call'.fn = fn
  <1> DEFINE n      == Len(NodeStack)
             q      == FileTriviaEnd(t.hi)
             file   == Tokenizer_currentToken_stringifyAsFile(q)
             trivia == FileTriviaTokens(t.hi, q)
             taken  == Append(NodeStack, t)
             before == taken \o trivia
  <1>1. q \in (t.hi)..Len(input) /\ q \in 0..Len(input)
    BY TriviaEndType
  <1>2. NodeStack' = Append(before, file) /\ call'.fn = fn
    <2>1. NodeStack' = before \o <<file>> /\ call'.fn = fn
      BY DEF TakeFile, Goto, Jump
    <2>2. trivia \in Seq(Node)
      <3>1. trivia \in Seq(Token)
        <4> HIDE DEF q
        <4> QED  BY <1>1, StackTypes, FileTriviaType
      <3> QED  BY <3>1, TokensAreNodes
    <2>3. file \in Node
      <3> HIDE DEF q
      <3> QED  BY <1>1, StackTypes, FileTokenType, TokenIsNode
    <2>4. taken \in Seq(Node)
      BY StackTypes, WithToken
    <2> HIDE DEF q, file, trivia, taken
    <2>5. before \in Seq(Node)
      BY <2>2, <2>4, ConcatNodes
    <2> HIDE DEF before
    <2> QED  BY <2>1, <2>3, <2>5
  <1>3. file \in Node
    <2> HIDE DEF q
    <2> QED  BY <1>1, StackTypes, FileTokenType, TokenIsNode
  <1>4. trivia \in Seq(Node)
    <2>1. trivia \in Seq(Token)
      <3> HIDE DEF q
      <3> QED  BY <1>1, StackTypes, FileTriviaType
    <2> QED  BY <2>1, TokensAreNodes
  <1>5. NodeStack \in Seq(Node) /\ t \in Node /\ n \in Nat
    BY StackTypes, TokenIsNode
  <1>6. /\ Grows(NodeStack, taken) /\ taken \in Seq(Node) /\ Len(taken) = n + 1
        /\ taken[n + 1] = t
    BY <1>5, GrowsByOne
  <1> HIDE DEF q, file, trivia, taken
  <1>7. Grows(taken, before) /\ before \in Seq(Node)
    BY <1>4, <1>6, GrowsByMore
  <1> HIDE DEF before
  <1>8. Grows(before, NodeStack') /\ NodeStack' \in Seq(Node)
    BY <1>2, <1>3, <1>7, GrowsByOne
  <1>9. Grows(taken, NodeStack')
    BY <1>6, <1>7, <1>8, GrowsFurther
  <1>10. n + 1 \in 1..Len(taken)
    BY <1>5, <1>6
  <1>11. NodeStack'[n + 1] = t
    BY <1>6, <1>9, <1>10 DEF Grows, Agree
  <1>12. Grows(NodeStack, NodeStack')
    BY <1>5, <1>6, <1>8, <1>9, GrowsFurther
  <1> QED  BY <1>2, <1>11, <1>12

LEMMA PutFits ==
  ASSUME Inv, Inv', Fitting, Calling("parseInfix"), NEW fn \in PartReduces,
         TakeFile(call.tok, fn), UNCHANGED <<ContextStack, GroupStack, frames>>
  PROVE  Fitting'
  <1>1. /\ call.fn \in RunningFns /\ call.fn \notin GroupFns
        /\ LoopOf(call.fn) = "NULL"
        /\ call.tok \in Token /\ call.tok.hi \in 0..Len(input)
    BY InfixCall
  <1>2. Grows(NodeStack, NodeStack') /\ call'.fn = fn
    BY <1>1, TakeFileGrows
  <1> QED  BY <1>1, <1>2, PartReducesFacts, PartReduceFits

LEMMA LessLessFits == Inv /\ Inv' /\ Fitting /\ LessLessParselet_parsePrefix => Fitting'
  <1> SUFFICES ASSUME Inv, Inv', Fitting, LessLessParselet_parsePrefix PROVE Fitting'
    OBVIOUS
  <1> DEFINE n    == Len(NodeStack)
             ctxt == NewContext(n, PRECEDENCE.HIGHEST)
             fn   == "LessLessParselet_reduceGet"
  <1>1. /\ Calling("parsePrefix") /\ call.P.class = "LessLess" /\ TakeFile(call.tok, fn)
        /\ ContextStack' = Append(ContextStack, ctxt)
        /\ UNCHANGED <<GroupStack, frames>>
    BY DEF LessLessParselet_parsePrefix, Prefix
  <1>2. /\ call.tok \in Token /\ call.tok.hi \in 0..Len(input) /\ call.fn \in QuietFns
        /\ ~LeafIn(call.tok, Openers)
    BY <1>1, PrefixCall
  <1>3. fn \in PartReduces
    BY DEF PartReduces
  <1> HIDE DEF fn
  <1>4. /\ Grows(NodeStack, NodeStack') /\ NodeStack'[n + 1] = call.tok /\ call'.fn = fn
    BY <1>1, <1>2, TakeFileGrows
  <1>5. ctxt.F = "NULL" /\ ctxt.Index = n /\ ~GroupMark(ctxt)
    BY NewContextFields
  <1>6. ctxt.F \notin GroupFns \union PlainLoops
    BY <1>5 DEF GroupFns, PlainLoops
  <1> HIDE DEF ctxt
  <1>7. CallFits(NodeStack', call', ctxt)
    BY <1>3, <1>4, <1>5, PartReducesFacts, NewReduceFits
  <1>8. call'.fn \in RunningFns
    BY <1>3, <1>4, PartReducesRun
  <1> QED  BY <1>1, <1>2, <1>4, <1>5, <1>6, <1>7, <1>8, EnterKept

LEMMA StringifyStepFits == Inv /\ Inv' /\ Fitting /\ StringifyNext => Fitting'
  <1> SUFFICES ASSUME Inv, Inv', Fitting, StringifyNext PROVE Fitting'
    OBVIOUS
  <1>1. CASE ColonColonParselet_parseInfix
    <2>1. /\ Calling("parseInfix") /\ TakeTag(NodeStack, call.tok)
          /\ UNCHANGED <<ContextStack, GroupStack, frames>>
      BY <1>1 DEF ColonColonParselet_parseInfix, Infix
    <2>2. NodeStack \in Seq(Node) /\ Grows(NodeStack, NodeStack)
      BY StackTypes, GrowsSame
    <2> QED  BY <2>1, <2>2, InfixCall, TakeTagFits
  <1>2. CASE GreaterGreaterParselet_parseInfix
    BY <1>2, PutFits DEF GreaterGreaterParselet_parseInfix, Infix, PartReduces
  <1>3. CASE GreaterGreaterGreaterParselet_parseInfix
    BY <1>3, PutFits DEF GreaterGreaterGreaterParselet_parseInfix, Infix, PartReduces
  <1>4. {"Infix", "Binary", "Prefix"} \subseteq NodeKinds \ {"Leaf"}
    BY DEF NodeKinds
  <1>5. CASE \/ ColonColonParselet_reduceMessageName
             \/ GreaterGreaterParselet_reducePut
             \/ GreaterGreaterGreaterParselet_reducePutAppend
             \/ LessLessParselet_reduceGet
    <2>1. {"ColonColonParselet_reduceMessageName", "GreaterGreaterParselet_reducePut",
           "GreaterGreaterGreaterParselet_reducePutAppend", "LessLessParselet_reduceGet"}
            \subseteq (ReduceFns \ GroupFns) \ {InnerReduce}
      BY DEF ReduceFns, GroupFns, InnerReduce
    <2> QED  BY <1>4, <1>5, <2>1, ReduceStepFits
          DEF ColonColonParselet_reduceMessageName, GreaterGreaterParselet_reducePut,
              GreaterGreaterGreaterParselet_reducePutAppend, LessLessParselet_reduceGet
  <1> QED  BY <1>1, <1>2, <1>3, <1>5, ColonColonLoopFits, LessLessFits DEF StringifyNext

-----------------------------------------------------------------------------
(* Every step                                                              *)

LEMMA NextFits == Inv /\ Fitting /\ [Next]_vars => Fitting'
  <1> SUFFICES ASSUME Inv, Fitting, [Next]_vars PROVE Fitting'
    OBVIOUS
  <1>1. Inv'
    BY NextInv
  <1>2. CASE Step
    BY <1>1, <1>2, concreteParseFits, concreteParse_pushFits, Parser_parseClimbFits,
       Parser_parseClimb_abortFits, Parser_tryContinueFits, ReturnFits, PrefixStepFits,
       OperatorStepFits, GroupStepFits, PatternStepFits, TernaryStepFits,
       StringifyStepFits DEF Step
  <1>3. CASE Abort
    BY <1>1, <1>3, FittingAbort
  <1>4. CASE Terminated \/ UNCHANGED vars
    BY <1>1, <1>4, FittingStutter DEF Terminated
  <1> QED  BY <1>2, <1>3, <1>4 DEF Next

\* The contexts fit the nodes, the groups and the loops in every reachable state.
THEOREM FitInvariance == Spec => [](Inv /\ Fitting)
  <1>1. Init => Inv /\ Fitting
    BY InitInv, FittingInit
  <1>2. (Inv /\ Fitting) /\ [Next]_vars => (Inv /\ Fitting)'
    BY NextInv, NextFits
  <1> QED  BY <1>1, <1>2, PTL DEF Spec

-----------------------------------------------------------------------------
(* Places and ranks                                                        *)

\* h takes the numbers of S to those of T and keeps their order.
Ordered(h, S, T) ==
  /\ S \in SUBSET Nat /\ IsFiniteSet(S)
  /\ T \in SUBSET Nat
  /\ h \in [S -> T]
  /\ \A i, j \in S : i < j => h[i] < h[j]
  /\ \A y \in T : \E x \in S : h[x] = y

\* They are as many, and have the same ranks.
LEMMA OrderedSize ==
  ASSUME NEW S, NEW T, NEW h, Ordered(h, S, T)
  PROVE  IsFiniteSet(T) /\ Cardinality(T) = Cardinality(S)
  <1>1. h \in [S -> T] /\ IsFiniteSet(S) /\ S \subseteq Nat /\ T \subseteq Nat
    BY DEF Ordered
  <1>2. ASSUME NEW i \in S, NEW j \in S, h[i] = h[j] PROVE i = j
    <2>1. i \in Nat /\ j \in Nat /\ h[i] \in Nat /\ h[j] \in Nat
      BY <1>1
    <2>2. ~(i < j) /\ ~(j < i)
      BY <1>2, <2>1 DEF Ordered
    <2> QED  BY <2>1, <2>2
  <1>3. h \in Bijection(S, T)
    BY <1>1, <1>2 DEF Ordered, Bijection, Injection, Surjection, IsInjective
  <1>4. ExistsBijection(S, T)
    BY <1>3 DEF ExistsBijection
  <1> QED  BY <1>1, <1>4, FS_Bijection

LEMMA OrderedRank ==
  ASSUME NEW S, NEW T, NEW h, Ordered(h, S, T), NEW x \in S
  PROVE  Rank(T, h[x]) = Rank(S, x)
  <1> DEFINE A == {j \in S : j <= x}
             B == {j \in T : j <= h[x]}
             f == [j \in A |-> h[j]]
  <1>1. /\ h \in [S -> T] /\ IsFiniteSet(S) /\ S \subseteq Nat /\ T \subseteq Nat
        /\ \A i, j \in S : i < j => h[i] < h[j]
        /\ \A y \in T : \E i \in S : h[i] = y
    BY DEF Ordered
  <1>2. A \in SUBSET S /\ IsFiniteSet(A) /\ A \in SUBSET Nat /\ B \in SUBSET Nat
    BY <1>1, FS_Subset
  <1>3. ASSUME NEW j \in A PROVE j \in S /\ h[j] \in B
    <2>1. j \in S /\ j <= x /\ j \in Nat /\ x \in Nat /\ h[j] \in T /\ h[x] \in T
      BY <1>1
    <2>2. h[j] \in Nat /\ h[x] \in Nat
      BY <1>1, <2>1
    <2>3. j = x \/ j < x
      BY <2>1
    <2>4. h[j] <= h[x]
      BY <1>1, <2>1, <2>2, <2>3
    <2> QED  BY <2>1, <2>4
  <1>4. ASSUME NEW y \in B PROVE \E j \in A : h[j] = y
    <2>1. PICK j \in S : h[j] = y
      BY <1>1
    <2>2. j \in Nat /\ x \in Nat /\ h[j] \in Nat /\ h[x] \in Nat /\ h[j] <= h[x]
      BY <1>1, <1>4, <2>1
    <2>3. ~(x < j)
      BY <1>1, <2>1, <2>2
    <2>4. j \in A
      BY <2>1, <2>2, <2>3
    <2> QED  BY <2>1, <2>4
  <1> HIDE DEF A, B
  <1>5. f \in [A -> B] /\ \A j \in A : f[j] = h[j]
    BY <1>3
  <1>6. \A i, j \in A : i < j => f[i] < f[j]
    BY <1>1, <1>3, <1>5
  <1>7. \A y \in B : \E j \in A : f[j] = y
    BY <1>4, <1>5
  <1> HIDE DEF f
  <1>8. Ordered(f, A, B)
    BY <1>2, <1>5, <1>6, <1>7 DEF Ordered
  <1>9. Cardinality(B) = Cardinality(A)
    BY <1>8, OrderedSize
  <1> QED  BY <1>9 DEF Rank, A, B

\* The rank among the first n numbers.
LEMMA IntervalRank ==
  ASSUME NEW n \in Nat
  PROVE  /\ 1..n \in SUBSET Nat /\ IsFiniteSet(1..n) /\ Cardinality(1..n) = n
         /\ \A k \in 1..n : Rank(1..n, k) = k
  <1>1. IsFiniteSet(1..n) /\ Cardinality(1..n) = n /\ 1..n \in SUBSET Nat
    BY FS_Interval
  <1>2. ASSUME NEW k \in 1..n PROVE Rank(1..n, k) = k
    <2>1. {j \in 1..n : j <= k} = 1..k
      OBVIOUS
    <2>2. Cardinality(1..k) = k
      BY FS_Interval
    <2> QED  BY <2>1, <2>2 DEF Rank
  <1> QED  BY <1>1, <1>2

\* No two members of a set have the same rank, and none has a greater one than
\* the set has members.
LEMMA RankUnique ==
  ASSUME NEW S \in SUBSET Nat, IsFiniteSet(S), NEW i \in S, NEW j \in S,
         Rank(S, i) = Rank(S, j)
  PROVE  i = j
  <1> DEFINE A(k) == {l \in S : l <= k}
  <1>1. \A k \in S : IsFiniteSet(A(k)) /\ k \in A(k) /\ k \in Nat
    <2> SUFFICES ASSUME NEW k \in S PROVE IsFiniteSet(A(k)) /\ k \in A(k) /\ k \in Nat
      OBVIOUS
    <2>1. A(k) \in SUBSET S
      OBVIOUS
    <2> HIDE DEF A
    <2>2. IsFiniteSet(A(k))
      BY <2>1, FS_Subset
    <2> QED  BY <2>2 DEF A
  <1>2. ASSUME NEW k \in S, NEW l \in S, k < l, Cardinality(A(k)) = Cardinality(A(l))
        PROVE  FALSE
    <2>1. A(k) \in SUBSET A(l) /\ l \notin A(k)
      <3>1. k \in Nat /\ l \in Nat /\ \A m \in S : m \in Nat
        OBVIOUS
      <3>2. \A m \in S : m <= k => m <= l
        BY <1>2, <3>1
      <3>3. ~(l <= k)
        BY <1>2, <3>1
      <3> QED  BY <3>2, <3>3
    <2> HIDE DEF A
    <2>2. A(k) = A(l)
      BY <1>1, <1>2, <2>1, FS_Subset
    <2> QED  BY <1>1, <2>1, <2>2
  <1>3. Cardinality(A(i)) = Cardinality(A(j))
    BY DEF Rank
  <1> HIDE DEF A
  <1> QED  BY <1>1, <1>2, <1>3

LEMMA RankBound ==
  ASSUME NEW S \in SUBSET Nat, IsFiniteSet(S), NEW i
  PROVE  Rank(S, i) \in Nat /\ Rank(S, i) <= Cardinality(S) /\ Cardinality(S) \in Nat
  <1> DEFINE A == {l \in S : l <= i}
  <1>1. A \in SUBSET S
    OBVIOUS
  <1>2. Rank(S, i) = Cardinality(A)
    BY DEF Rank
  <1> HIDE DEF A
  <1>3. IsFiniteSet(A) /\ Cardinality(A) <= Cardinality(S)
    BY <1>1, FS_Subset
  <1> QED  BY <1>2, <1>3, FS_CardinalityType

-----------------------------------------------------------------------------
(* What follows                                                            *)

\* Each group that is open has its closer on GroupStack, at its rank
\* (Parser_checkGroup, Parser.cpp:435).
LEMMA GroupsMatch == Inv /\ Fitting => GroupsMatchContexts
  <1> SUFFICES ASSUME Inv, Fitting PROVE GroupsMatchContexts
    OBVIOUS
  <1> DEFINE G == GroupStack
             C == ContextStack
             T == GroupPlaces
             S == 1..Len(G)
  <1>1. /\ G \in Seq(AnyCloser) /\ C \in Seq(Context) /\ Len(G) \in Nat /\ Len(C) \in Nat
    BY FittingParts
  <1>2. PICK h \in [S -> 1..Len(C)] : Closes(h, NodeStack, C, G)
    BY FittingParts DEF GroupsOpen
  <1>3. \A i \in 1..Len(C) : StartsGroup(C[i]) <=> Opens(NodeStack, C[i])
    BY DEF StartsGroup, OpenerOf, Opens
  <1>4. T \in SUBSET Nat /\ \A i \in T : i \in 1..Len(C)
    BY <1>1 DEF GroupPlaces
  <1>5. \A i \in T : \E j \in S : h[j] = i
    BY <1>2, <1>3 DEF GroupPlaces, Closes
  <1>6. \A j \in S : h[j] \in T
    BY <1>2, <1>3 DEF GroupPlaces, Closes
  <1> HIDE DEF T
  <1>7. Ordered(h, S, T)
    <2>1. S \in SUBSET Nat /\ IsFiniteSet(S)
      BY <1>1, IntervalRank
    <2>2. h \in [S -> T]
      BY <1>2, <1>6
    <2>3. \A i, j \in S : i < j => h[i] < h[j]
      BY <1>2 DEF Closes
    <2> HIDE DEF S
    <2> QED  BY <1>4, <1>5, <2>1, <2>2, <2>3 DEF Ordered
  <1>8. Cardinality(T) = Len(G)
    BY <1>1, <1>7, OrderedSize, IntervalRank
  <1>9. ASSUME NEW i \in T
        PROVE  G[Rank(T, i)] = GroupOpenerToCloser(OpenerOf(C[i]).op)
    <2>1. PICK j \in S : h[j] = i
      BY <1>5
    <2>2. Rank(T, i) = Rank(S, j)
      <3> HIDE DEF S
      <3> QED  BY <1>7, <2>1, OrderedRank
    <2>3. Rank(S, j) = j
      BY <1>1, IntervalRank
    <2>4. G[j] = GroupOpenerToCloser(NodeStack[C[h[j]].Index + 1].op)
      BY <1>2 DEF Closes
    <2> QED  BY <2>1, <2>2, <2>3, <2>4 DEF OpenerOf
  <1> QED  BY <1>8, <1>9 DEF GroupsMatchContexts, T

\* Between two expressions the three stacks are empty.
LEMMA QuietBetween == Inv /\ Fitting => Quiescent
  <1> SUFFICES ASSUME Inv, Fitting, Calling("concreteParse")
               PROVE  NodeStack = <<>> /\ ContextStack = <<>> /\ GroupStack = <<>>
                      /\ frames = <<>>
    BY DEF Quiescent
  <1>1. Len(NodeStack) = 0 /\ ContextStack = <<>> /\ frames = <<>>
    BY StackTypes DEF Discipline, Calling
  <1>2. NodeStack = <<>>
    BY <1>1, StackTypes
  <1>3. GroupStack = <<>>
    <2>1. PICK h \in [1..Len(GroupStack) -> 1..Len(ContextStack)] :
             Closes(h, NodeStack, ContextStack, GroupStack)
      BY FittingParts DEF GroupsOpen
    <2>2. Len(ContextStack) = 0
      BY <1>1
    <2>3. SUFFICES ASSUME GroupStack # <<>> PROVE FALSE
      OBVIOUS
    <2>4. 1 \in 1..Len(GroupStack)
      BY <2>3, StackTypes
    <2>5. h[1] \in 1..0
      BY <2>1, <2>2, <2>4
    <2> QED  BY <2>5
  <1> QED  BY <1>1, <1>2, <1>3

\* What each function asserts of its context.
LEMMA ContextAsserted == Inv /\ Fitting /\ ContinuationGiven => ContinuationAsserts
  <1> SUFFICES ASSUME Inv, Fitting, ContinuationGiven PROVE ContinuationAsserts
    OBVIOUS
  <1>1. TopFits(call, Parser_topContext)
    BY FittingParts DEF CallFits
  <1>2. ASSUME call.fn \in LoopFns
        PROVE  \/ IsIdentity(Parser_topContext)
               \/ Parser_topContext.F = call.fn /\ Parser_topContext.P = call.P
    <2>1. Parser_topContext.F = LoopF(call.fn)
      BY <1>2 DEF Inv, LoopsInPlace
    <2> QED  BY <1>1, <1>2, <2>1 DEF LoopF, IsIdentity, TopFits
  <1> QED  BY <1>1, <1>2 DEF ContinuationAsserts, TopFits, PartLoops, TagFns

-----------------------------------------------------------------------------
(* The identities and the loops                                            *)

\* The discipline gives the frames their contexts.
LEMMA WitnessGiven ==
  ASSUME Inv
  PROVE  \E g \in [1..Len(frames) -> 1..Len(ContextStack)] :
           Witness(g, ContextStack, frames, Busy(call.fn))
  <1> DEFINE n   == Len(NodeStack)
             C   == ContextStack
             frs == frames
             fn  == call.fn
  <1>1. /\ Discipline(n, C, frs, fn) /\ fn \in Fns
        /\ Len(C) \in Nat /\ Len(frs) \in Nat
    BY StackTypes, CallFields
  <1>2. \/ fn \in {"concreteParse", "done"}
        \/ fn \in {"parsePrefix", "Parser_parseClimb", "Parser_tryContinue", "return"}
        \/ fn \in ContextSensitiveFns
        \/ fn \in RunningFns
        \/ fn = InnerReduce
    <2>1. CASE fn \in ParserFns
      BY <2>1, RunningFnsFacts DEF ParserFns
    <2>2. CASE fn \in LoopFns \union ReduceFns \union ParseFns
      BY <2>2, RunningFnsFacts
    <2> QED  BY <1>1, <2>1, <2>2 DEF Fns
  <1>3. fn \in QuietFns => ~Busy(fn)
    BY FnFacts
  <1>4. fn \in RunningFns \union {InnerReduce} => Busy(fn)
    BY FnFacts
  <1>5. CASE fn \in {"concreteParse", "done"}
    <2>1. Expecting(n, C, frs)
      BY <1>1, <1>5, EmptyOwner DEF Discipline
    <2> QED  BY <1>3, <1>5, <2>1 DEF Expecting, Operating, Witness, QuietFns
  <1>6. CASE fn \in {"parsePrefix", "Parser_parseClimb", "Parser_tryContinue", "return"}
    BY <1>1, <1>3, <1>6
       DEF Discipline, Expecting, Complete, Returning, Operating, Witness, QuietFns
  <1>7. CASE fn \in ContextSensitiveFns
    BY <1>1, <1>3, <1>7 DEF Discipline, ReadingPattern, Witness, QuietFns
  <1>8. CASE fn \in RunningFns
    BY <1>1, <1>4, <1>8 DEF Discipline, Running, Witness
  <1>9. CASE fn = InnerReduce
    <2>1. ReducingInner(n, C, frs)
      BY <1>1, <1>9 DEF Discipline
    <2>2. PICK g \in [1..Len(frs) -> 1..Len(C)] :
             /\ Owner(g, C, frs) /\ AllOwned(g, C, Len(C) - 1)
             /\ g[Len(frs)] = Len(C) - 1
      BY <2>1 DEF ReducingInner
    <2>3. ASSUME NEW j \in 1..Len(frs) PROVE g[j] < Len(C)
      <3>1. j = Len(frs) \/ (j < Len(frs) /\ Len(frs) \in 1..Len(frs))
        BY <1>1
      <3>2. g[j] \in 1..Len(C)
        OBVIOUS
      <3>3. CASE j = Len(frs)
        BY <1>1, <2>2, <3>3
      <3>4. CASE j < Len(frs) /\ Len(frs) \in 1..Len(frs)
        <4>1. g[j] < g[Len(frs)]
          BY <2>2, <3>4 DEF Owner
        <4> QED  BY <1>1, <2>2, <3>2, <4>1
      <3> QED  BY <3>1, <3>3, <3>4
    <2> QED  BY <1>4, <1>9, <2>2, <2>3 DEF Witness
  <1> QED  BY <1>2, <1>5, <1>6, <1>7, <1>8, <1>9

\* A context that fits a loop is the loop's own.
LEMMA FirstOperatorIs ==
  ASSUME NEW ctxt \in Context, Len(NodeStack) \in Nat, NEW lim \in Int,
         lim <= Len(NodeStack), NEW i \in (ctxt.Index + 2)..lim,
         FirstAt(NodeStack, ctxt, i)
  PROVE  FirstOperator(ctxt) = NodeStack[i].op
  <1> DEFINE a == ctxt.Index + 2
             First(k) == /\ ~LeafIn(NodeStack[k], Trivia)
                         /\ \A j \in a..(k - 1) : LeafIn(NodeStack[j], Trivia)
             k0 == CHOOSE k \in a..Len(NodeStack) : First(k)
  <1>1. a \in Nat
    BY ContextFields
  <1> HIDE DEF a
  <1>2. i \in a..Len(NodeStack) /\ First(i)
    BY <1>1 DEF a, FirstAt
  <1>3. k0 \in a..Len(NodeStack) /\ First(k0)
    BY <1>2
  <1>4. k0 = i
    <2>1. ~(k0 < i)
      <3>1. k0 < i => k0 \in a..(i - 1)
        BY <1>1, <1>2, <1>3
      <3> QED  BY <1>2, <1>3, <3>1
    <2>2. ~(i < k0)
      <3>1. i < k0 => i \in a..(k0 - 1)
        BY <1>1, <1>2, <1>3
      <3> QED  BY <1>2, <1>3, <3>1
    <2>3. k0 \in Int /\ i \in Int
      BY <1>1, <1>2, <1>3
    <2> HIDE DEF k0
    <2> QED  BY <2>1, <2>2, <2>3
  <1>5. FirstOperator(ctxt) = NodeStack[k0].op
    BY DEF FirstOperator, a
  <1> HIDE DEF k0
  <1> QED  BY <1>4, <1>5

LEMMA FitsOwns ==
  ASSUME NEW ctxt \in Context, Len(NodeStack) \in Nat, NEW lim \in Int,
         lim <= Len(NodeStack), NEW loop, Fits(NodeStack, loop, ctxt, lim),
         ContextFits(NodeStack, ctxt)
  PROVE  Owns(loop, ctxt)
  <1>1. CASE loop.fn = "GroupParselet_parseLoop"
    <2>1. GroupMark(ctxt)
          /\ GroupOpenerToCloser(NodeStack[ctxt.Index + 1].op) = loop.P.closer
      BY <1>1 DEF Fits
    <2>2. Opens(NodeStack, ctxt)
      BY <2>1 DEF ContextFits
    <2> QED  BY <1>1, <2>1, <2>2 DEF Owns, StartsGroup, OpenerOf, Opens
  <1>2. CASE loop.fn # "GroupParselet_parseLoop"
    <2>1. HasOperator(NodeStack, loop, ctxt, lim)
      BY <1>2 DEF Fits
    <2>2. PICK i \in (ctxt.Index + 2)..lim :
            NodeStack[i].op \in OperatorsOf(loop) /\ FirstAt(NodeStack, ctxt, i)
      BY <2>1 DEF HasOperator
    <2>3. FirstOperator(ctxt) \in OperatorsOf(loop)
      BY <2>2, FirstOperatorIs
    <2> HIDE DEF FirstOperator
    <2> QED  BY <1>2, <2>3 DEF Owns, OperatorsOf
  <1> QED  BY <1>1, <1>2

\* The identities are the contexts of the loops that called an operand, and
\* that of the loop that runs.
LEMMA IdentitiesOwned ==
  ASSUME Inv, Fitting, NEW g \in [1..Len(frames) -> 1..Len(ContextStack)],
         Witness(g, ContextStack, frames, Busy(call.fn))
  PROVE  /\ \A j \in LoopPlaces : g[j] \in IdentityPlaces
         /\ \A i \in IdentityPlaces : (\E j \in LoopPlaces : g[j] = i)
                                        \/ (LoopRuns /\ i = Len(ContextStack))
         /\ LoopRuns => /\ ContextStack # <<>>
                        /\ Len(ContextStack) \in IdentityPlaces
                        /\ \A j \in LoopPlaces : g[j] < Len(ContextStack)
  <1> DEFINE C == ContextStack
             m == Len(C)
  <1>1. C \in Seq(Context) /\ m \in Nat
    BY StackTypes
  <1>2. \A j \in 1..Len(frames) : C[g[j]].F = SuspendedF(frames[j])
    BY DEF Witness, Owner
  <1>3. \A j \in LoopPlaces : j \in 1..Len(frames) /\ g[j] \in IdentityPlaces
    BY <1>2 DEF LoopPlaces, IdentityPlaces, IsIdentity, SuspendedF
  <1>4. ASSUME NEW j \in 1..Len(frames), g[j] \in IdentityPlaces PROVE j \in LoopPlaces
    BY <1>2, <1>4 DEF LoopPlaces, IdentityPlaces, IsIdentity, SuspendedF
  <1>5. ASSUME LoopRuns
        PROVE  Busy(call.fn) /\ C # <<>> /\ m \in IdentityPlaces
    <2>1. LoopOf(call.fn) # "NULL" /\ IsIdentity(Parser_topContext)
      BY <1>5 DEF LoopRuns
    <2>2. Busy(call.fn) /\ call.fn # InnerReduce
      <3>1. call.fn \notin QuietFns
        BY <2>1, FnFacts
      <3>2. call.fn \in Fns
        BY StackTypes, CallFields
      <3>3. CASE call.fn \in ParserFns
        BY <3>1, <3>3, FnFacts, RunningFnsFacts, RunningFnsExclude DEF ParserFns, QuietFns
      <3>4. CASE call.fn \in LoopFns \union ReduceFns \union ParseFns
        BY <2>1, <3>1, <3>4, FnFacts, RunningFnsFacts DEF QuietFns
      <3> QED  BY <3>2, <3>3, <3>4 DEF Fns
    <2>3. call.fn \in RunningFns
      BY <2>2 DEF Busy
    <2>4. C # <<>> /\ Parser_topContext = Top(C)
      BY <2>3, TopOfRunning, FittingParts
    <2>5. m \in 1..m
      BY <1>1, <2>4
    <2> QED  BY <2>1, <2>2, <2>4, <2>5 DEF IdentityPlaces, Top
  <1>6. ASSUME NEW i \in IdentityPlaces
        PROVE  (\E j \in LoopPlaces : g[j] = i) \/ (LoopRuns /\ i = m)
    <2>1. i \in 1..m /\ C[i].F = "Parser_identity"
      BY DEF IdentityPlaces, IsIdentity
    <2>2. CASE ~Busy(call.fn)
      <3>1. \E j \in 1..Len(frames) : g[j] = i
        BY <2>1, <2>2 DEF Witness, AllOwned
      <3> QED  BY <1>4, <3>1
    <2>3. CASE Busy(call.fn) /\ i < m
      <3>1. i \in 1..(m - 1)
        BY <1>1, <2>1, <2>3
      <3>2. \E j \in 1..Len(frames) : g[j] = i
        BY <2>1, <2>3, <3>1 DEF Witness, AllOwned
      <3> QED  BY <1>4, <3>2
    <2>4. CASE Busy(call.fn) /\ ~(i < m)
      <3>1. i = m /\ C # <<>>
        BY <1>1, <2>1, <2>4
      <3>2. IsIdentity(Parser_topContext)
        BY <2>1, <3>1 DEF IsIdentity, Parser_topContext, Top
      <3>3. TopFits(call, Parser_topContext)
        BY FittingParts DEF CallFits
      <3>4. LoopRuns
        BY <2>4, <3>2, <3>3 DEF TopFits, LoopRuns
      <3> QED  BY <3>1, <3>4
    <2> QED  BY <2>2, <2>3, <2>4
  <1>7. LoopRuns => \A j \in LoopPlaces : g[j] < m
    BY <1>3, <1>5 DEF Witness
  <1> QED  BY <1>3, <1>5, <1>6, <1>7

\* They have the same ranks.
LEMMA IdentityRanks ==
  ASSUME Inv, Fitting, NEW g \in [1..Len(frames) -> 1..Len(ContextStack)],
         Witness(g, ContextStack, frames, Busy(call.fn))
  PROVE  /\ LoopPlaces \in SUBSET Nat /\ IsFiniteSet(LoopPlaces)
         /\ Cardinality(IdentityPlaces) =
              Cardinality(LoopPlaces) + (IF LoopRuns THEN 1 ELSE 0)
         /\ \A j \in LoopPlaces : Rank(IdentityPlaces, g[j]) = Rank(LoopPlaces, j)
         /\ LoopRuns => Rank(IdentityPlaces, Len(ContextStack)) = Cardinality(LoopPlaces) + 1
  <1> DEFINE L == LoopPlaces
             I == IdentityPlaces
             m == Len(ContextStack)
             T == {i \in I : ~(LoopRuns /\ i = m)}
             f == [j \in L |-> g[j]]
  <1>1. m \in Nat /\ Len(frames) \in Nat
    BY StackTypes
  <1>2. L \in SUBSET (1..Len(frames)) /\ L \in SUBSET Nat /\ IsFiniteSet(L)
    <2>1. L \in SUBSET (1..Len(frames)) /\ IsFiniteSet(1..Len(frames))
          /\ 1..Len(frames) \in SUBSET Nat
      BY <1>1, IntervalRank DEF LoopPlaces
    <2> HIDE DEF L
    <2>2. IsFiniteSet(L)
      BY <2>1, FS_Subset
    <2> QED  BY <2>1, <2>2
  <1>3. I \in SUBSET (1..m) /\ I \in SUBSET Nat /\ IsFiniteSet(I)
    <2>1. I \in SUBSET (1..m) /\ IsFiniteSet(1..m) /\ 1..m \in SUBSET Nat
      BY <1>1, IntervalRank DEF IdentityPlaces
    <2> HIDE DEF I
    <2>2. IsFiniteSet(I)
      BY <2>1, FS_Subset
    <2> QED  BY <2>1, <2>2
  <1>4. /\ \A j \in L : g[j] \in I
        /\ \A i \in I : (\E j \in L : g[j] = i) \/ (LoopRuns /\ i = m)
        /\ LoopRuns => m \in I /\ \A j \in L : g[j] < m
    BY IdentitiesOwned
  <1>5. \A j \in L : g[j] \in T
    BY <1>1, <1>4
  <1>6. \A i \in T : \E j \in L : g[j] = i
    BY <1>4
  <1> HIDE DEF L, I
  <1>7. T \in SUBSET Nat
    BY <1>3
  <1> HIDE DEF T
  <1>8. f \in [L -> T] /\ \A j \in L : f[j] = g[j]
    BY <1>5
  <1>9. \A i, j \in L : i < j => f[i] < f[j]
    <2>1. \A i, j \in 1..Len(frames) : i < j => g[i] < g[j]
      BY DEF Witness, Owner
    <2> QED  BY <1>2, <1>8, <2>1
  <1>10. \A y \in T : \E j \in L : f[j] = y
    BY <1>6, <1>8
  <1> HIDE DEF f
  <1>11. Ordered(f, L, T)
    BY <1>2, <1>7, <1>8, <1>9, <1>10 DEF Ordered
  <1>12. /\ IsFiniteSet(T) /\ Cardinality(T) = Cardinality(L)
         /\ \A j \in L : Rank(T, g[j]) = Rank(L, j)
    BY <1>8, <1>11, OrderedSize, OrderedRank
  <1>13. Cardinality(L) \in Nat
    BY <1>2, FS_CardinalityType
  <1>14. CASE ~LoopRuns
    <2>1. T = I
      BY <1>14 DEF T
    <2> QED  BY <1>2, <1>12, <1>13, <1>14, <2>1 DEF L, I
  <1>15. CASE LoopRuns
    <2>1. m \in I /\ T \subseteq I /\ m \notin T /\ I = T \union {m}
      BY <1>4, <1>15 DEF T
    <2>2. Cardinality(I) = Cardinality(L) + 1
      BY <1>12, <2>1, FS_AddElement
    <2>3. ASSUME NEW j \in L PROVE Rank(I, g[j]) = Rank(L, j)
      <3>1. g[j] < m /\ g[j] \in Nat
        BY <1>3, <1>4, <1>15
      <3>2. {i \in I : i <= g[j]} = {i \in T : i <= g[j]}
        <4>1. ~(m <= g[j])
          BY <1>1, <3>1
        <4> QED  BY <2>1, <4>1
      <3> QED  BY <1>12, <3>2 DEF Rank
    <2>4. Rank(I, m) = Cardinality(I)
      <3>1. {i \in I : i <= m} = I
        <4>1. \A i \in 1..m : i <= m
          BY <1>1
        <4>2. \A i \in I : i <= m
          BY <1>3, <4>1
        <4> QED  BY <4>2, Zenon
      <3> QED  BY <3>1 DEF Rank
    <2> QED  BY <1>2, <1>15, <2>2, <2>3, <2>4 DEF L, I
  <1> QED  BY <1>14, <1>15

\* A loop to which native returns lead finds its own context.
LEMMA IdentitiesReturn == Inv /\ Fitting => IdentityReturnsToOwner
  <1> SUFFICES ASSUME Inv, Fitting PROVE IdentityReturnsToOwner
    OBVIOUS
  <1> DEFINE C == ContextStack
             m == Len(C)
             L == LoopPlaces
             I == IdentityPlaces
  <1>1. PICK g \in [1..Len(frames) -> 1..m] : Witness(g, C, frames, Busy(call.fn))
    BY WitnessGiven
  <1>2. /\ NodeStack \in Seq(Node) /\ C \in Seq(Context) /\ Len(NodeStack) \in Nat
        /\ m \in Nat /\ Nested(Len(NodeStack), C) /\ ContextsFit(NodeStack, C)
        /\ LoopsFit(NodeStack, C, frames, call.fn)
    BY FittingParts
  <1>3. /\ L \in SUBSET Nat /\ IsFiniteSet(L)
        /\ Cardinality(I) = Cardinality(L) + (IF LoopRuns THEN 1 ELSE 0)
        /\ \A j \in L : Rank(I, g[j]) = Rank(L, j)
        /\ LoopRuns => Rank(I, m) = Cardinality(L) + 1
    BY <1>1, IdentityRanks
  <1>4. \A i \in I : (\E j \in L : g[j] = i) \/ (LoopRuns /\ i = m)
    BY <1>1, IdentitiesOwned
  <1>5. \A j \in L : j \in 1..Len(frames) /\ IsLoop(frames[j])
    BY DEF LoopPlaces
  <1> HIDE DEF L, I
  <1>6. ASSUME NEW j \in L PROVE LoopFor(g[j]) = frames[j] /\ Owns(frames[j], C[g[j]])
    <2>1. j \in 1..Len(frames) /\ IsLoop(frames[j]) /\ g[j] \in 1..m
      BY <1>5
    <2>2. LoopFor(g[j]) = frames[j]
      <3> DEFINE k == CHOOSE k \in L : Rank(L, k) = Rank(I, g[j])
      <3>1. Rank(L, j) = Rank(I, g[j])
        BY <1>3
      <3>2. k \in L /\ Rank(L, k) = Rank(L, j)
        BY <3>1
      <3>3. LoopFor(g[j]) = frames[k]
        BY <3>1 DEF LoopFor, L, I
      <3> HIDE DEF k
      <3>4. k = j
        BY <1>3, <3>2, RankUnique
      <3> QED  BY <3>3, <3>4
    <2> DEFINE lim == Limit(NodeStack, C, call.fn, g[j])
    <2>3. Fits(NodeStack, frames[j], C[g[j]], lim)
      BY <1>1, <1>2, <2>1 DEF LoopsFit
    <2>4. lim \in Int /\ lim <= Len(NodeStack)
      BY <1>2, <2>1, LimitType
    <2>5. C[g[j]] \in Context /\ ContextFits(NodeStack, C[g[j]])
      BY <1>2, <2>1 DEF ContextsFit
    <2> HIDE DEF lim
    <2>6. Owns(frames[j], C[g[j]])
      BY <1>2, <2>3, <2>4, <2>5, FitsOwns
    <2> QED  BY <2>2, <2>6
  <1>7. ASSUME LoopRuns PROVE LoopFor(m) = RunningLoop /\ Owns(RunningLoop, C[m])
    <2>1. LoopFor(m) = RunningLoop
      <3>1. \A j \in L : Rank(L, j) \in Nat /\ Rank(L, j) <= Cardinality(L)
                         /\ Cardinality(L) \in Nat
        BY <1>3, RankBound
      <3>2. ~\E j \in L : Rank(L, j) = Rank(I, m)
        BY <1>3, <1>7, <3>1
      <3> QED  BY <3>2 DEF LoopFor, L, I
    <2>2. C # <<>>
      BY <1>1, <1>7, IdentitiesOwned
    <2>3. /\ Parser_topContext = C[m] /\ Parser_topContext \in Context
          /\ ContextFits(NodeStack, Parser_topContext)
          /\ NodesFit(NodeStack, call, Parser_topContext)
      BY <2>2, FittingParts DEF Top, CallFits
    <2>4. Fits(NodeStack, RunningLoop, Parser_topContext, Len(NodeStack) - 1)
      BY <1>7, <2>3 DEF NodesFit, LoopRuns, RunningLoop
    <2>5. Len(NodeStack) - 1 \in Int /\ Len(NodeStack) - 1 <= Len(NodeStack)
      BY <1>2
    <2>6. Owns(RunningLoop, Parser_topContext)
      BY <1>2, <2>3, <2>4, <2>5, FitsOwns
    <2> QED  BY <2>1, <2>3, <2>6
  <1>8. \A i \in I : Owns(LoopFor(i), C[i])
    BY <1>4, <1>6, <1>7
  <1> QED  BY <1>3, <1>8 DEF IdentityReturnsToOwner, L, I

-----------------------------------------------------------------------------
(* The theorems                                                            *)

\* Between two top-level expressions every stack is empty, after an abort too:
\* Parser_isQuiescent (Parser.cpp:713).
THEOREM BetweenExpressions == Spec => []Quiescent
  <1> QED  BY QuietBetween, FitInvariance, PTL

\* GroupStack, which decides whose a closer is, always has the closers of the
\* groups whose contexts are open, in their order, though neither stack is
\* popped with the other (Parser_pushGroup, Parser_popGroup, Parser.cpp:424).
THEOREM ClosersMatch == Spec => []GroupsMatchContexts
  <1> QED  BY GroupsMatch, FitInvariance, PTL

\* In the default build every native return leads to the loop whose context is
\* on top (Parser_identity, Parser.cpp:242).
THEOREM ReturnsReachOwner == Spec => []IdentityReturnsToOwner
  <1> QED  BY IdentitiesReturn, FitInvariance, PTL

\* The assertions on Ctxt.F and Ctxt.P hold: each parselet finds the context as
\* the one before it must leave it (as at Parselet.cpp:1002 and Parser.cpp:236).
THEOREM ContextsAsAsserted == Spec => []ContinuationAsserts
  <1> QED  BY ContextAsserted, ContinuationsGiven, FitInvariance, PTL

=============================================================================
