--------------------------- MODULE OperandProofs ----------------------------
(***************************************************************************)
(* What is on the node stack.  Between one context's start and the next    *)
(* lie the operands and operators that the waiting function has so far.    *)
(* Shaped says that they are the ones it takes them for.  First lemmas     *)
(* about the parts of a context; then every step on the way from the call  *)
(* for an operand to the complete operand, and on to the function that     *)
(* waits for it, keeps Shaped.                                             *)
(***************************************************************************)
EXTENDS ContextProofs

\* The nodes behind place b, up to place l, that are not trivia have these
\* labels; h says where they are.
PartsAre(nodes, b, l, parts) ==
  \E h \in [1..Len(parts) -> (b + 1)..l] :
    /\ \A r, s \in 1..Len(parts) : r < s => h[r] < h[s]
    /\ \A k \in (b + 1)..l :
         ~LeafIn(nodes[k], Trivia) <=> \E r \in 1..Len(parts) : h[r] = k
    /\ \A r \in 1..Len(parts) : parts[r] = LabelOf(nodes[h[r]])

\* A place with nothing behind it has no parts.
LEMMA PartsNone ==
  ASSUME NEW nodes, NEW b \in Nat
  PROVE  PartsAre(nodes, b, b, <<>>)
  <1> DEFINE h == [r \in 1..0 |-> b]
  <1>1. Len(<<>>) = 0 /\ 1..0 = {} /\ (b + 1)..b = {}
    OBVIOUS
  <1>2. h \in [1..Len(<<>>) -> (b + 1)..b]
    BY <1>1
  <1>3. \A r \in 1..Len(<<>>) : FALSE
    BY <1>1
  <1>4. \A k \in (b + 1)..b : FALSE
    BY <1>1
  <1> HIDE DEF h
  <1> QED  BY <1>2, <1>3, <1>4 DEF PartsAre

\* The parts depend only on the nodes they are among.
LEMMA PartsKept ==
  ASSUME NEW nodes, NEW more, NEW b \in Nat, NEW l \in Nat, NEW parts,
         PartsAre(nodes, b, l, parts), NEW m \in Int, l <= m, Agree(nodes, more, m)
  PROVE  PartsAre(more, b, l, parts)
  <1>1. \A k \in (b + 1)..l : more[k] = nodes[k]
    BY DEF Agree
  <1>2. PICK h \in [1..Len(parts) -> (b + 1)..l] :
          /\ \A r, s \in 1..Len(parts) : r < s => h[r] < h[s]
          /\ \A k \in (b + 1)..l :
               ~LeafIn(nodes[k], Trivia) <=> \E r \in 1..Len(parts) : h[r] = k
          /\ \A r \in 1..Len(parts) : parts[r] = LabelOf(nodes[h[r]])
    BY DEF PartsAre
  <1>3. \A r \in 1..Len(parts) : h[r] \in (b + 1)..l
    BY <1>2
  <1>4. \A r \in 1..Len(parts) : parts[r] = LabelOf(more[h[r]])
    BY <1>1, <1>2, <1>3
  <1>5. \A k \in (b + 1)..l :
          ~LeafIn(more[k], Trivia) <=> \E r \in 1..Len(parts) : h[r] = k
    BY <1>1, <1>2
  <1> QED  BY <1>2, <1>4, <1>5 DEF PartsAre

\* Trivia are no parts.
LEMMA PartsMore ==
  ASSUME NEW nodes, NEW b \in Nat, NEW l \in Nat, NEW m \in Nat, NEW parts,
         Len(parts) \in Nat, b <= l, l <= m, PartsAre(nodes, b, l, parts),
         \A k \in (l + 1)..m : LeafIn(nodes[k], Trivia)
  PROVE  PartsAre(nodes, b, m, parts)
  <1>2. PICK h \in [1..Len(parts) -> (b + 1)..l] :
          /\ \A r, s \in 1..Len(parts) : r < s => h[r] < h[s]
          /\ \A k \in (b + 1)..l :
               ~LeafIn(nodes[k], Trivia) <=> \E r \in 1..Len(parts) : h[r] = k
          /\ \A r \in 1..Len(parts) : parts[r] = LabelOf(nodes[h[r]])
    BY DEF PartsAre
  <1>3. \A r \in 1..Len(parts) : h[r] \in (b + 1)..l
    BY <1>2
  <1>4. h \in [1..Len(parts) -> (b + 1)..m]
    BY <1>3
  <1>5. ASSUME NEW k \in (b + 1)..m
        PROVE  ~LeafIn(nodes[k], Trivia) <=> \E r \in 1..Len(parts) : h[r] = k
    <2>1. CASE k \in (b + 1)..l
      BY <1>2, <2>1
    <2>2. CASE k \in (l + 1)..m
      BY <1>3, <2>2
    <2> QED  BY <2>1, <2>2
  <1> QED  BY <1>2, <1>4, <1>5 DEF PartsAre

\* A node that is no trivium is one more part.
LEMMA PartsOne ==
  ASSUME NEW nodes, NEW b \in Nat, NEW l \in Nat, NEW parts \in Seq(Label), b <= l,
         PartsAre(nodes, b, l, parts), LabelOf(nodes[l + 1]) \in Label,
         ~LeafIn(nodes[l + 1], Trivia)
  PROVE  /\ PartsAre(nodes, b, l + 1, Append(parts, LabelOf(nodes[l + 1])))
         /\ Append(parts, LabelOf(nodes[l + 1])) \in Seq(Label)
  <1> DEFINE n == Len(parts)
             more == Append(parts, LabelOf(nodes[l + 1]))
  <1>1. /\ n \in Nat /\ more \in Seq(Label) /\ Len(more) = n + 1
        /\ \A r \in 1..n : more[r] = parts[r]
        /\ more[n + 1] = LabelOf(nodes[l + 1])
    OBVIOUS
  <1>2. PICK h \in [1..n -> (b + 1)..l] :
          /\ \A r, s \in 1..n : r < s => h[r] < h[s]
          /\ \A k \in (b + 1)..l :
               ~LeafIn(nodes[k], Trivia) <=> \E r \in 1..n : h[r] = k
          /\ \A r \in 1..n : parts[r] = LabelOf(nodes[h[r]])
    BY DEF PartsAre
  <1>3. \A r \in 1..n : h[r] \in (b + 1)..l
    BY <1>2
  <1> DEFINE g == [r \in 1..(n + 1) |-> IF r = n + 1 THEN l + 1 ELSE h[r]]
  <1>4. g[n + 1] = l + 1 /\ \A r \in 1..n : g[r] = h[r]
    BY <1>1
  <1>5. g \in [1..(n + 1) -> (b + 1)..(l + 1)]
    <2>1. \A r \in 1..(n + 1) : r = n + 1 \/ r \in 1..n
      BY <1>1
    <2>2. l + 1 \in (b + 1)..(l + 1) /\ \A r \in 1..n : h[r] \in (b + 1)..(l + 1)
      BY <1>3
    <2> HIDE DEF n, more
    <2> QED  BY <2>1, <2>2
  <1> HIDE DEF g, more, n
  <1>6. \A r \in 1..(n + 1) : r \in 1..n \/ r = n + 1
    BY <1>1
  <1>7. \A r, s \in 1..Len(more) : r < s => g[r] < g[s]
    <2> SUFFICES ASSUME NEW r \in 1..(n + 1), NEW s \in 1..(n + 1), r < s
                 PROVE  g[r] < g[s]
      BY <1>1
    <2>1. r \in 1..n /\ h[r] \in (b + 1)..l /\ g[r] = h[r]
      BY <1>1, <1>3, <1>4, <1>6
    <2>2. CASE s \in 1..n
      BY <1>2, <1>4, <2>1, <2>2
    <2>3. CASE s = n + 1
      BY <1>4, <2>1, <2>3
    <2> QED  BY <1>6, <2>2, <2>3
  <1>8. \A r \in 1..Len(more) : more[r] = LabelOf(nodes[g[r]])
    BY <1>1, <1>2, <1>4, <1>6
  <1>9. ASSUME NEW k \in (b + 1)..(l + 1)
        PROVE  ~LeafIn(nodes[k], Trivia) <=> \E r \in 1..Len(more) : g[r] = k
    <2>1. CASE k \in (b + 1)..l
      <3>1. (\E r \in 1..n : h[r] = k) <=> \E r \in 1..Len(more) : g[r] = k
        <4>1. ASSUME NEW r \in 1..n, h[r] = k PROVE r \in 1..Len(more) /\ g[r] = k
          BY <1>1, <1>4, <4>1
        <4>2. ASSUME NEW r \in 1..Len(more), g[r] = k PROVE r \in 1..n /\ h[r] = k
          BY <1>1, <1>4, <1>6, <2>1, <4>2
        <4> QED  BY <4>1, <4>2
      <3> QED  BY <1>2, <2>1, <3>1
    <2>2. CASE k = l + 1
      BY <1>1, <1>4, <2>2
    <2> QED  BY <2>1, <2>2
  <1> QED  BY <1>1, <1>5, <1>7, <1>8, <1>9 DEF PartsAre, more, n

\* A node's label is its kind and its operator.
LEMMA LabelType ==
  ASSUME NEW N \in Node
  PROVE  /\ LabelOf(N) \in Label /\ LabelOf(N)[1] = N.kind /\ LabelOf(N)[2] = N.op
         /\ NotTrivia(LabelOf(N)) <=> ~LeafIn(N, Trivia)
  <1>1. N.kind \in NodeKinds /\ N.op \in LeafKinds \union Ops
    BY NodeFields
  <1>2. LabelOf(N) \in Label
    <2> HIDE DEF NodeKinds, LeafKinds, Ops
    <2> QED  BY <1>1 DEF LabelOf, Label
  <1> QED  BY <1>2 DEF LabelOf, NotTrivia, LeafIn

\* One node is taken, among trivia: it is one more part.
LEMMA PartsTaken ==
  ASSUME NEW nodes \in Seq(Node), NEW more \in Seq(Node), NEW b \in Nat,
         b <= Len(nodes), NEW parts \in Seq(Label),
         PartsAre(nodes, b, Len(nodes), parts), Grows(nodes, more),
         NEW q \in (Len(nodes) + 1)..Len(more), ~LeafIn(more[q], Trivia),
         \A k \in (Len(nodes) + 1)..Len(more) : k # q => LeafIn(more[k], Trivia)
  PROVE  /\ PartsAre(more, b, Len(more), Append(parts, LabelOf(more[q])))
         /\ Append(parts, LabelOf(more[q])) \in Seq(Label)
  <1>1. /\ Len(nodes) \in Nat /\ Len(more) \in Nat /\ q - 1 \in Nat /\ q \in Nat
        /\ Len(nodes) <= q - 1 /\ q <= Len(more) /\ b <= q - 1 /\ Len(parts) \in Nat
        /\ q - 1 + 1 = q /\ q \in 1..Len(more)
    OBVIOUS
  <1>2. PartsAre(more, b, Len(nodes), parts)
    BY <1>1, PartsKept DEF Grows
  <1>3. \A k \in (Len(nodes) + 1)..(q - 1) : LeafIn(more[k], Trivia)
    BY <1>1
  <1>4. PartsAre(more, b, q - 1, parts)
    BY <1>1, <1>2, <1>3, PartsMore
  <1>5. LabelOf(more[q]) \in Label
    BY <1>1, LabelType
  <1>6. /\ PartsAre(more, b, q, Append(parts, LabelOf(more[q])))
        /\ Append(parts, LabelOf(more[q])) \in Seq(Label)
    BY <1>1, <1>4, <1>5, PartsOne
  <1>7. Len(Append(parts, LabelOf(more[q]))) \in Nat
    BY <1>6
  <1>8. \A k \in (q + 1)..Len(more) : LeafIn(more[k], Trivia)
    BY <1>1
  <1> QED  BY SMTT(60), <1>1, <1>6, <1>7, <1>8, PartsMore

\* The node that is made of a context's nodes has their parts.
LEMMA PartsOfNode ==
  ASSUME NEW nodes \in Seq(Node), NEW b \in Nat, b < Len(nodes),
         NEW parts \in Seq(Label), PartsAre(nodes, b, Len(nodes), parts), NEW N,
         N.kids = [i \in 1..(Len(nodes) - b) |-> LabelOf(nodes[b + i])]
  PROVE  Parts(N) = parts
  <1> DEFINE n == Len(parts)
             m == Len(nodes) - b
             T == PartPlaces(N)
  <1>1. n \in Nat /\ m \in Nat /\ Len(N.kids) = m /\ Len(nodes) \in Nat
    OBVIOUS
  <1>2. PICK h \in [1..n -> (b + 1)..Len(nodes)] :
          /\ \A r, s \in 1..n : r < s => h[r] < h[s]
          /\ \A k \in (b + 1)..Len(nodes) :
               ~LeafIn(nodes[k], Trivia) <=> \E r \in 1..n : h[r] = k
          /\ \A r \in 1..n : parts[r] = LabelOf(nodes[h[r]])
    BY DEF PartsAre
  <1>3. \A r \in 1..n : h[r] \in (b + 1)..Len(nodes)
    BY <1>2
  <1>4. \A k \in 1..m : N.kids[k] = LabelOf(nodes[b + k]) /\ nodes[b + k] \in Node
    BY <1>1
  <1>5. \A k \in 1..m : NotTrivia(N.kids[k]) <=> ~LeafIn(nodes[b + k], Trivia)
    BY <1>4, LabelType
  <1>6. T = {k \in 1..m : ~LeafIn(nodes[b + k], Trivia)}
    BY <1>1, <1>5 DEF PartPlaces
  <1> DEFINE g == [r \in 1..n |-> h[r] - b]
  <1> HIDE DEF m, n, T
  <1>7. \A r \in 1..n : g[r] = h[r] - b /\ g[r] \in 1..m /\ b + g[r] = h[r]
    BY <1>1, <1>3 DEF m
  <1>8. \A r \in 1..n : g[r] \in T
    <2> SUFFICES ASSUME NEW r \in 1..n PROVE g[r] \in T
      OBVIOUS
    <2>1. ~LeafIn(nodes[h[r]], Trivia)
      BY <1>2, <1>3
    <2> QED  BY <1>6, <1>7, <2>1
  <1>9. g \in [1..n -> T]
    BY <1>8
  <1> HIDE DEF g
  <1>10. \A y \in T : \E r \in 1..n : g[r] = y
    <2> SUFFICES ASSUME NEW y \in T PROVE \E r \in 1..n : g[r] = y
      OBVIOUS
    <2>1. y \in 1..m /\ ~LeafIn(nodes[b + y], Trivia)
      BY <1>6
    <2>2. b + y \in (b + 1)..Len(nodes)
      BY <1>1, <2>1 DEF m
    <2>3. PICK r \in 1..n : h[r] = b + y
      BY <1>2, <2>1, <2>2
    <2> QED  BY <1>7, <2>1, <2>3
  <1>11. \A r, s \in 1..n : r < s => g[r] < g[s]
    BY <1>2, <1>3, <1>7
  <1>12. Ordered(g, 1..n, T)
    BY <1>1, <1>6, <1>9, <1>10, <1>11, IntervalRank DEF Ordered
  <1>13. IsFiniteSet(T) /\ Cardinality(T) = n /\ T \in SUBSET Nat
    <2>1. IsFiniteSet(T) /\ Cardinality(T) = Cardinality(1..n)
      BY <1>12, OrderedSize
    <2>2. Cardinality(1..n) = n
      BY <1>1, IntervalRank
    <2>3. T \in SUBSET Nat
      BY <1>12 DEF Ordered
    <2> QED  BY <2>1, <2>2, <2>3
  <1>14. \A r \in 1..n : Rank(T, g[r]) = r
    BY <1>1, <1>12, OrderedRank, IntervalRank
  <1>15. ASSUME NEW r \in 1..n
         PROVE  N.kids[CHOOSE k \in T : Rank(T, k) = r] = parts[r]
    <2>1. \A k \in T : Rank(T, k) = r => k = g[r]
      BY <1>8, <1>13, <1>14, RankUnique
    <2>2. (CHOOSE k \in T : Rank(T, k) = r) = g[r]
      BY <1>8, <1>14, <2>1
    <2> QED
      <3>1. N.kids[g[r]] = LabelOf(nodes[b + g[r]])
        BY <1>4, <1>7
      <3>2. N.kids[g[r]] = parts[r]
        BY <1>2, <1>7, <3>1
      <3> QED  BY <2>2, <3>2
  <1>16. Parts(N) = [r \in 1..n |-> N.kids[CHOOSE k \in T : Rank(T, k) = r]]
    BY <1>13 DEF Parts, T
  <1>17. parts = [r \in 1..n |-> parts[r]]
    BY DEF n
  <1> QED  BY <1>15, <1>16, <1>17

(* What each function takes the nodes of its context for                   *)

\* Operands with an operator between each two.
ChainFns ==
  {"InfixOperatorParselet_parseLoop", "InfixOperatorParselet_reduceInfixOperator",
   "CommaParselet_parseLoop", "CommaParselet_reduceComma",
   "SemiParselet_parseLoop", "SemiParselet_reduceCompoundExpression",
   "TimesParselet_parseLoop", "TimesParselet_reduceTimes",
   "ColonColonParselet_parseLoop", "ColonColonParselet_reduceMessageName"}

\* Two operands and an operator.
TripleFns ==
  {"BinaryOperatorParselet_reduceBinaryOperator", "TildeParselet_parse1",
   "TildeParselet_reduceError", "ColonParselet_reducePattern",
   "ColonParselet_reduceError", "ColonParselet_reduceOptional",
   "SlashColonParselet_parse1", "SlashColonParselet_reduceError",
   "EqualParselet_reduceSet", "ColonEqualParselet_reduceSetDelayed",
   "GreaterGreaterParselet_reducePut",
   "GreaterGreaterGreaterParselet_reducePutAppend", "SemiSemiParselet_parse2",
   "SemiSemiParselet_reduceBinary"} \union TagFns

\* Three operands and two operators.
QuintFns ==
  {"TildeParselet_reduceTilde", "EqualParselet_reduceTagSet",
   "ColonEqualParselet_reduceTagSetDelayed", "SemiSemiParselet_reduceTernary"}

\* An operator and its operand.
PrefixedFns ==
  {"PrefixOperatorParselet_reducePrefixOperator", "LessLessParselet_reduceGet",
   "IntegralParselet_parse1", "IntegralParselet_reduceIntegral"}

\* An operand and its operator.
PostfixedFns ==
  {"PostfixOperatorParselet_reducePostfixOperator", "SemiSemiParselet_parse1"}

\* Two tokens that make an operand.
CompoundFns ==
  {"SymbolParselet_reducePatternBlank", "SymbolParselet_reducePatternOptionalDefault",
   "UnderParselet_reduceBlank", InnerReduce, "HashParselet_reduceSlot",
   "HashHashParselet_reduceSlotSequence", "PercentParselet_reduceOut"}

Odd == {i \in Nat : i % 2 = 1}

\* How many parts there are when the function runs.
Lengths(fn) ==
  CASE fn \in ChainFns     -> Odd \ {1}
    [] fn \in TripleFns \union {"EqualParselet_reduceUnset",
                                "IntegralParselet_reduceIntegrate"} -> {3}
    [] fn \in QuintFns \union {"EqualParselet_reduceTagUnset"}      -> {5}
    [] fn = "parseInfix"   -> {1}
    [] fn = "GroupParselet_reduceGroup" -> Nat \ {0, 1}
    [] fn \in GroupFns \ {"GroupParselet_reduceGroup"} -> Nat \ {0}
    [] OTHER               -> {2}

\* Which of the n parts are operands.
Where(fn, n) ==
  CASE fn \in ChainFns \union TripleFns \union QuintFns \union PostfixedFns
                \union {"parseInfix"}  -> Odd
    [] fn \in PrefixedFns              -> {2}
    [] fn = "IntegralParselet_reduceIntegrate" -> {2, 3}
    [] fn = "EqualParselet_reduceUnset"        -> {1}
    [] fn = "EqualParselet_reduceTagUnset"     -> {1, 3}
    [] fn = "GroupParselet_reduceGroup"        -> 2..(n - 1)
    [] fn \in GroupFns \ {"GroupParselet_reduceGroup"} -> Nat \ {0, 1}
    [] OTHER                           -> {1, 2}

\* A group begins with an opener and ends with its closer, and a compound node
\* begins with a token.
EndsFit(fn, parts) ==
  /\ fn \in CompoundFns => parts[1][1] = "Leaf"
  /\ fn \in GroupFns => parts[1][1] = "Leaf" /\ parts[1][2] \in Openers
  /\ fn = "GroupParselet_reduceGroup" =>
       /\ Top(parts)[1] = "Leaf"
       /\ TokenToCloser(Top(parts)[2]) = GroupOpenerToCloser(parts[1][2])

\* The parts that the function finds when it runs ...
Form(fn, parts) ==
  /\ Len(parts) \in Lengths(fn)
  /\ OperandsAt(parts, Where(fn, Len(parts)))
  /\ EndsFit(fn, parts)
  /\ fn = "CallParselet_reduceCall" => parts[2][1] \in GroupKinds \union {"Abort"}

\* ... and while it waits for an operand.
Awaits(fn, parts) ==
  /\ Len(parts) # 0
  /\ Len(parts) + 1 \in Lengths(fn)
  /\ Len(parts) + 1 \in Where(fn, 0)
  /\ OperandsAt(parts, Where(fn, 0))
  /\ EndsFit(fn, parts)

\* The function, or one like it, that waits when the context has F.
WaitingFn(nodes, ctxt) ==
  CASE ctxt.F = "Parser_identity" ->
         IF Opens(nodes, ctxt) THEN "GroupParselet_parseLoop"
                               ELSE "CommaParselet_parseLoop"
    [] ctxt.F = "NULL" -> InnerReduce
    [] OTHER           -> ctxt.F

Waiting(nodes, ctxt, l) ==
  \E parts \in Seq(Label) :
    /\ PartsAre(nodes, ctxt.Index, l, parts)
    /\ Awaits(WaitingFn(nodes, ctxt), parts)

Ready(nodes, ctxt, fn) ==
  \E parts \in Seq(Label) :
    PartsAre(nodes, ctxt.Index, Len(nodes), parts) /\ Form(fn, parts)

-----------------------------------------------------------------------------
(* The invariant                                                           *)

\* The functions that read an operand, those that run when it is complete, and
\* those that have their nodes.
ReadingFns == {"parsePrefix"} \union ContextSensitiveFns

CompleteFns == {"Parser_parseClimb", "Parser_tryContinue", "return"}

WorkingFns == RunningFns \union {InnerReduce}

TopWaits(nodes, ctxt, fn) ==
  /\ fn \in ReadingFns  => Waiting(nodes, ctxt, Len(nodes))
  /\ fn \in CompleteFns => Waiting(nodes, ctxt, Len(nodes) - 1)
  /\ fn \in WorkingFns  => Ready(nodes, ctxt, fn)

\* A group that is opened is closed by its closer.
CloserFits(nodes, ctxt, c) ==
  /\ ctxt.F = "GroupParselet_parseLoop" =>
       ctxt.P.closer = GroupOpenerToCloser(nodes[ctxt.Index + 1].op)
  /\ c.fn \in GroupFns => c.P.closer = GroupOpenerToCloser(nodes[ctxt.Index + 1].op)

\* A call takes nothing but a group.
CallWaits(nodes, ctxt, c) ==
  ctxt.F = "CallParselet_reduceCall" =>
    /\ ctxt.Prec = PRECEDENCE.HIGHEST
    /\ c.fn \notin ContextSensitiveFns
    /\ c.fn = "parsePrefix" => c.P.class = "Group"
    /\ c.fn \in CompleteFns => Top(nodes).kind \in GroupKinds \union {"Abort"}

\* The contexts below the top one, while the one above them is there.
LowerFits(nodes, C) ==
  \A i \in 1..(Len(C) - 1) :
    /\ Waiting(nodes, C[i], C[i + 1].Index)
    /\ C[i].F = "GroupParselet_parseLoop" =>
         C[i].P.closer = GroupOpenerToCloser(nodes[C[i].Index + 1].op)
    /\ C[i].F = "CallParselet_reduceCall" =>
         C[i].Prec = PRECEDENCE.HIGHEST /\ Opens(nodes, C[i + 1])

\* The function is called for a token it is meant for.
TokenFits(c) ==
  /\ c.fn = "parsePrefix" =>
       /\ c.tok.op \in Tokens \ Trivia
       /\ \/ c.P = prefixParselets[c.tok.op]
          \/ c.P.class = "Group"
          \/ c.P.class = "PrefixToplevelCloser" /\ c.tok.op \in CloserTokens
  /\ c.fn = "parseInfix" =>
       /\ c.P.class \notin NeverParsesInfix
       /\ c.tok.op \notin Trivia \union OperandTokens
  /\ c.fn \in ContextSensitiveFns => c.tok.op \in OperandTokens
  /\ c.fn \in TagFns => c.tok.op \in {"EQUAL", "COLONEQUAL"}

\* What is known of the top context, and of the call whatever the contexts.
TopShaped(nodes, ctxt, c) ==
  TopWaits(nodes, ctxt, c.fn) /\ CloserFits(nodes, ctxt, c) /\ CallWaits(nodes, ctxt, c)

CallShaped(nodes, c) ==
  /\ c.fn \in CompleteFns => IsOperand(LabelOf(Top(nodes)))
  /\ TokenFits(c)

\* With Inv and Fitting, the inductive invariant behind WellFormed.
Shaped ==
  /\ WellFormed
  /\ LowerFits(NodeStack, ContextStack)
  /\ ContextStack # <<>> => TopShaped(NodeStack, Parser_topContext, call)
  /\ CallShaped(NodeStack, call)

-----------------------------------------------------------------------------
(* Facts about the functions and the parts they take                       *)

LinearFns == ChainFns \union TripleFns \union QuintFns \union PostfixedFns
               \union {"parseInfix"}

\* Operands and operators in turn.
Alternates(parts) == OperandsAt(parts, Odd)

\* The odd places, as far as the proofs count.
LEMMA OddFacts ==
  /\ 1 \in Odd /\ 2 \notin Odd /\ 3 \in Odd /\ 4 \notin Odd /\ 5 \in Odd
  /\ \A n \in Nat : n + 1 \in Odd <=> n \notin Odd
  /\ Odd \subseteq Nat \ {0}
  BY DEF Odd

\* How many parts each function has when it runs.
LEMMA LengthOf ==
  ASSUME NEW fn
  PROVE  /\ fn \in ChainFns => Lengths(fn) = Odd \ {1}
         /\ fn \in TripleFns => Lengths(fn) = {3}
         /\ fn \in QuintFns => Lengths(fn) = {5}
         /\ fn \in PostfixedFns => Lengths(fn) = {2}
         /\ fn = "parseInfix" => Lengths(fn) = {1}
         /\ fn \in PrefixedFns \union CompoundFns \union {"CallParselet_reduceCall"}
              => Lengths(fn) = {2}
         /\ fn = "IntegralParselet_reduceIntegrate" => Lengths(fn) = {3}
         /\ fn = "EqualParselet_reduceUnset" => Lengths(fn) = {3}
         /\ fn = "EqualParselet_reduceTagUnset" => Lengths(fn) = {5}
         /\ fn = "GroupParselet_reduceGroup" => Lengths(fn) = Nat \ {0, 1}
         /\ fn \in GroupFns \ {"GroupParselet_reduceGroup"} => Lengths(fn) = Nat \ {0}
  <1>1. fn \in ChainFns => Lengths(fn) = Odd \ {1}
    BY DEF Lengths, ChainFns, TripleFns, QuintFns, PostfixedFns, PrefixedFns,
         CompoundFns, GroupFns, TagFns, InnerReduce
  <1>2. fn \in TripleFns => Lengths(fn) = {3}
    BY DEF Lengths, ChainFns, TripleFns, QuintFns, PostfixedFns, PrefixedFns,
         CompoundFns, GroupFns, TagFns, InnerReduce
  <1>3. fn \in QuintFns => Lengths(fn) = {5}
    BY DEF Lengths, ChainFns, TripleFns, QuintFns, PostfixedFns, PrefixedFns,
         CompoundFns, GroupFns, TagFns, InnerReduce
  <1>4. fn \in PostfixedFns => Lengths(fn) = {2}
    BY DEF Lengths, ChainFns, TripleFns, QuintFns, PostfixedFns, PrefixedFns,
         CompoundFns, GroupFns, TagFns, InnerReduce
  <1>5. fn = "parseInfix" => Lengths(fn) = {1}
    BY DEF Lengths, ChainFns, TripleFns, QuintFns, PostfixedFns, PrefixedFns,
         CompoundFns, GroupFns, TagFns, InnerReduce
  <1>6. fn \in PrefixedFns \union CompoundFns \union {"CallParselet_reduceCall"}
            => Lengths(fn) = {2}
    <2>1. fn \in PrefixedFns => Lengths(fn) = {2}
      BY DEF Lengths, ChainFns, TripleFns, QuintFns, PostfixedFns, PrefixedFns,
         CompoundFns, GroupFns, TagFns, InnerReduce
    <2>2. fn \in CompoundFns => Lengths(fn) = {2}
      BY DEF Lengths, ChainFns, TripleFns, QuintFns, PostfixedFns, PrefixedFns,
         CompoundFns, GroupFns, TagFns, InnerReduce
    <2>3. fn = "CallParselet_reduceCall" => Lengths(fn) = {2}
      BY DEF Lengths, ChainFns, TripleFns, QuintFns, PostfixedFns, PrefixedFns,
         CompoundFns, GroupFns, TagFns, InnerReduce
    <2> QED  BY <2>1, <2>2, <2>3
  <1>7. fn = "IntegralParselet_reduceIntegrate" => Lengths(fn) = {3}
    BY DEF Lengths, ChainFns, TripleFns, QuintFns, PostfixedFns, PrefixedFns,
         CompoundFns, GroupFns, TagFns, InnerReduce
  <1>8. fn = "EqualParselet_reduceUnset" => Lengths(fn) = {3}
    BY DEF Lengths, ChainFns, TripleFns, QuintFns, PostfixedFns, PrefixedFns,
         CompoundFns, GroupFns, TagFns, InnerReduce
  <1>9. fn = "EqualParselet_reduceTagUnset" => Lengths(fn) = {5}
    BY DEF Lengths, ChainFns, TripleFns, QuintFns, PostfixedFns, PrefixedFns,
         CompoundFns, GroupFns, TagFns, InnerReduce
  <1>10. fn = "GroupParselet_reduceGroup" => Lengths(fn) = Nat \ {0, 1}
    <2> HAVE fn = "GroupParselet_reduceGroup"
    <2>1. /\ fn \notin ChainFns /\ fn \notin TripleFns /\ fn \notin QuintFns
          /\ fn \notin PostfixedFns /\ fn \notin PrefixedFns
      BY DEF ChainFns, TripleFns, QuintFns, PostfixedFns, PrefixedFns, TagFns
    <2>2. fn # "parseInfix" /\ fn # "EqualParselet_reduceUnset"
              /\ fn # "EqualParselet_reduceTagUnset"
          /\ fn # "IntegralParselet_reduceIntegrate"
      OBVIOUS
    <2>3. fn \notin TripleFns \union {"EqualParselet_reduceUnset",
                      "IntegralParselet_reduceIntegrate"}
      BY <2>1, <2>2
    <2>4. fn \notin QuintFns \union {"EqualParselet_reduceTagUnset"}
      BY <2>1, <2>2
    <2>5. fn \notin GroupFns \ {"GroupParselet_reduceGroup"}
      OBVIOUS
    <2> QED  BY <2>1, <2>2, <2>3, <2>4, <2>5 DEF Lengths
  <1>11. fn \in GroupFns \ {"GroupParselet_reduceGroup"} => Lengths(fn) = Nat \ {0}
    BY DEF Lengths, ChainFns, TripleFns, QuintFns, PostfixedFns, PrefixedFns,
         CompoundFns, GroupFns, TagFns, InnerReduce
  <1> QED  BY <1>1, <1>2, <1>3, <1>4, <1>5, <1>6, <1>7, <1>8, <1>9, <1>10, <1>11

\* Which of them are operands.
LEMMA WhereOf ==
  ASSUME NEW fn, NEW n
  PROVE  /\ fn \in LinearFns => Where(fn, n) = Odd
         /\ fn \in PrefixedFns => Where(fn, n) = {2}
         /\ fn \in CompoundFns \union {"CallParselet_reduceCall"} => Where(fn, n) = {1, 2}
         /\ fn = "IntegralParselet_reduceIntegrate" => Where(fn, n) = {2, 3}
         /\ fn = "EqualParselet_reduceUnset" => Where(fn, n) = {1}
         /\ fn = "EqualParselet_reduceTagUnset" => Where(fn, n) = {1, 3}
         /\ fn = "GroupParselet_reduceGroup" => Where(fn, n) = 2..(n - 1)
         /\ fn \in GroupFns \ {"GroupParselet_reduceGroup"} => Where(fn, n) = Nat \ {0, 1}
         /\ fn # "GroupParselet_reduceGroup" => Where(fn, n) = Where(fn, 0)
  <1>1. fn \in LinearFns => Where(fn, n) = Odd
    <2>1. fn \in ChainFns => Where(fn, n) = Odd
      BY DEF Where, ChainFns, TripleFns, QuintFns, PostfixedFns, PrefixedFns,
         CompoundFns, GroupFns, TagFns, InnerReduce
    <2>2. fn \in TripleFns => Where(fn, n) = Odd
      BY DEF Where, ChainFns, TripleFns, QuintFns, PostfixedFns, PrefixedFns,
         CompoundFns, GroupFns, TagFns, InnerReduce
    <2>3. fn \in QuintFns => Where(fn, n) = Odd
      BY DEF Where, ChainFns, TripleFns, QuintFns, PostfixedFns, PrefixedFns,
         CompoundFns, GroupFns, TagFns, InnerReduce
    <2>4. fn \in PostfixedFns => Where(fn, n) = Odd
      BY DEF Where, ChainFns, TripleFns, QuintFns, PostfixedFns, PrefixedFns,
         CompoundFns, GroupFns, TagFns, InnerReduce
    <2>5. fn \in {"parseInfix"} => Where(fn, n) = Odd
      BY DEF Where, ChainFns, TripleFns, QuintFns, PostfixedFns, PrefixedFns,
         CompoundFns, GroupFns, TagFns, InnerReduce
    <2> QED  BY <2>1, <2>2, <2>3, <2>4, <2>5 DEF LinearFns
  <1>2. fn \in PrefixedFns => Where(fn, n) = {2}
    BY DEF Where, LinearFns, ChainFns, TripleFns, QuintFns, PostfixedFns, PrefixedFns,
         CompoundFns, GroupFns, TagFns, InnerReduce
  <1>3. fn \in CompoundFns \union {"CallParselet_reduceCall"} => Where(fn, n) = {1, 2}
    BY DEF Where, LinearFns, ChainFns, TripleFns, QuintFns, PostfixedFns, PrefixedFns,
         CompoundFns, GroupFns, TagFns, InnerReduce
  <1>4. fn = "IntegralParselet_reduceIntegrate" => Where(fn, n) = {2, 3}
    BY DEF Where, LinearFns, ChainFns, TripleFns, QuintFns, PostfixedFns, PrefixedFns,
         CompoundFns, GroupFns, TagFns, InnerReduce
  <1>5. fn = "EqualParselet_reduceUnset" => Where(fn, n) = {1}
    BY DEF Where, LinearFns, ChainFns, TripleFns, QuintFns, PostfixedFns, PrefixedFns,
         CompoundFns, GroupFns, TagFns, InnerReduce
  <1>6. fn = "EqualParselet_reduceTagUnset" => Where(fn, n) = {1, 3}
    BY DEF Where, LinearFns, ChainFns, TripleFns, QuintFns, PostfixedFns, PrefixedFns,
         CompoundFns, GroupFns, TagFns, InnerReduce
  <1>7. fn = "GroupParselet_reduceGroup" => Where(fn, n) = 2..(n - 1)
    <2> HAVE fn = "GroupParselet_reduceGroup"
    <2>1. /\ fn \notin ChainFns /\ fn \notin TripleFns /\ fn \notin QuintFns
          /\ fn \notin PostfixedFns /\ fn \notin PrefixedFns
      BY DEF ChainFns, TripleFns, QuintFns, PostfixedFns, PrefixedFns, TagFns
    <2>2. fn # "parseInfix" /\ fn # "EqualParselet_reduceUnset"
              /\ fn # "EqualParselet_reduceTagUnset"
          /\ fn # "IntegralParselet_reduceIntegrate"
      OBVIOUS
    <2> QED  BY <2>1, <2>2 DEF Where
  <1>8. fn \in GroupFns \ {"GroupParselet_reduceGroup"} => Where(fn, n) = Nat \ {0, 1}
    BY DEF Where, LinearFns, ChainFns, TripleFns, QuintFns, PostfixedFns, PrefixedFns,
         CompoundFns, GroupFns, TagFns, InnerReduce
  <1>9. fn # "GroupParselet_reduceGroup" => Where(fn, n) = Where(fn, 0)
    BY DEF Where, LinearFns, ChainFns, TripleFns, QuintFns, PostfixedFns, PrefixedFns,
         CompoundFns, GroupFns, TagFns, InnerReduce
  <1> QED  BY <1>1, <1>2, <1>3, <1>4, <1>5, <1>6, <1>7, <1>8, <1>9

\* The operators with operands between are none of the compounds, groups and
\* calls.
LEMMA LinearPlain ==
  ASSUME NEW fn \in LinearFns
  PROVE  fn \notin CompoundFns \union GroupFns \union {"CallParselet_reduceCall"}
  BY DEF LinearFns, ChainFns, TripleFns, QuintFns, PostfixedFns, PrefixedFns, CompoundFns,
         GroupFns, TagFns, InnerReduce

\* One more part.
LEMMA PartAppended ==
  ASSUME NEW parts \in Seq(Label), NEW o \in Label
  PROVE  LET more == Append(parts, o)
         IN /\ more \in Seq(Label) /\ Len(more) = Len(parts) + 1 /\ Len(parts) \in Nat
            /\ \A i \in 1..Len(parts) : more[i] = parts[i]
            /\ more[Len(parts) + 1] = o
            /\ \A S : OperandsAt(parts, S) /\ (IsOperand(o) <=> Len(parts) + 1 \in S)
                 => OperandsAt(more, S)
  <1> DEFINE more == Append(parts, o)
             n == Len(parts)
  <1>1. /\ more \in Seq(Label) /\ Len(more) = n + 1 /\ n \in Nat
        /\ \A i \in 1..n : more[i] = parts[i]
        /\ more[n + 1] = o
    OBVIOUS
  <1> HIDE DEF more, n
  <1>2. ASSUME NEW S, OperandsAt(parts, S), IsOperand(o) <=> n + 1 \in S
        PROVE  OperandsAt(more, S)
    <2> SUFFICES ASSUME NEW i \in 1..(n + 1) PROVE IsOperand(more[i]) <=> i \in S
      BY <1>1 DEF OperandsAt
    <2>1. CASE i = n + 1
      BY <1>1, <1>2, <2>1
    <2>2. CASE i \in 1..n
      BY <1>1, <1>2, <2>2 DEF OperandsAt, n
    <2> QED  BY <1>1, <2>1, <2>2
  <1> QED  BY <1>1, <1>2 DEF more, n

\* The operand that a function waits for makes its parts complete.
LEMMA Completed ==
  ASSUME NEW fn, fn # "GroupParselet_reduceGroup", NEW parts \in Seq(Label),
         Awaits(fn, parts), NEW o \in Label, IsOperand(o),
         fn = "CallParselet_reduceCall" => o[1] \in GroupKinds \union {"Abort"}
  PROVE  Form(fn, Append(parts, o)) /\ Append(parts, o) \in Seq(Label)
  <1> DEFINE more == Append(parts, o)
  <1>1. /\ more \in Seq(Label) /\ Len(more) = Len(parts) + 1 /\ Len(parts) \in Nat
        /\ \A i \in 1..Len(parts) : more[i] = parts[i]
        /\ more[Len(parts) + 1] = o
        /\ \A S : OperandsAt(parts, S) /\ (IsOperand(o) <=> Len(parts) + 1 \in S)
                 => OperandsAt(more, S)
    BY PartAppended
  <1> HIDE DEF more
  <1>2. Where(fn, Len(more)) = Where(fn, 0)
    BY WhereOf
  <1>3. OperandsAt(more, Where(fn, Len(more))) /\ Len(more) \in Lengths(fn)
    BY <1>1, <1>2 DEF Awaits
  <1>4. more[1] = parts[1]
    BY <1>1 DEF Awaits
  <1>5. EndsFit(fn, more)
    BY <1>4 DEF Awaits, EndsFit
  <1>6. fn = "CallParselet_reduceCall" => more[2] = o
    BY <1>1, LengthOf DEF Awaits
  <1> QED  BY <1>1, <1>3, <1>5, <1>6 DEF Form, more

\* What the functions of operators in a row take.
LEMMA LinearForm ==
  ASSUME NEW fn \in LinearFns, NEW parts
  PROVE  /\ Form(fn, parts) <=> Len(parts) \in Lengths(fn) /\ Alternates(parts)
         /\ Awaits(fn, parts) <=>
              /\ Len(parts) # 0 /\ Len(parts) + 1 \in Lengths(fn)
              /\ Len(parts) + 1 \in Odd /\ Alternates(parts)
  <1>1. fn \notin CompoundFns \union GroupFns \union {"CallParselet_reduceCall"}
    BY LinearPlain
  <1>2. Where(fn, Len(parts)) = Odd /\ Where(fn, 0) = Odd
    BY WhereOf
  <1>3. EndsFit(fn, parts)
    BY <1>1 DEF EndsFit, GroupFns
  <1> QED  BY <1>1, <1>2, <1>3 DEF Form, Awaits, Alternates

\* A call reads an operand, works on one or has one complete, and no two of
\* these.
LEMMA PhasesDiffer ==
  /\ \A fn \in CompleteFns :
       /\ fn \notin ReadingFns /\ fn \notin WorkingFns /\ fn \notin GroupFns
       /\ fn \notin ContextSensitiveFns /\ fn \notin TagFns
       /\ fn # "parsePrefix" /\ fn # "parseInfix"
  /\ \A fn \in ReadingFns :
       /\ fn \notin WorkingFns /\ fn \notin GroupFns /\ fn \notin TagFns
       /\ fn # "parseInfix"
  /\ \A fn \in WorkingFns :
       /\ fn \notin ReadingFns /\ fn \notin CompleteFns
       /\ fn \notin ContextSensitiveFns /\ fn # "parsePrefix"
  <1> USE DEF CompleteFns, ReadingFns, WorkingFns, GroupFns, TagFns
  <1>1. "parsePrefix" \notin RunningFns /\ "Parser_parseClimb" \notin RunningFns
        /\ "Parser_tryContinue" \notin RunningFns /\ "return" \notin RunningFns
        /\ \A fn \in ContextSensitiveFns : fn \notin RunningFns
    BY RunningFnsExclude
  <1>2. InnerReduce \notin ContextSensitiveFns /\ InnerReduce # "parsePrefix"
        /\ InnerReduce \notin CompleteFns
    BY DEF InnerReduce, ContextSensitiveFns
  <1>3. \A fn \in ContextSensitiveFns :
          /\ fn \notin CompleteFns /\ fn \notin GroupFns /\ fn \notin TagFns
          /\ fn # "parsePrefix" /\ fn # "parseInfix"
    BY DEF ContextSensitiveFns
  <1>4. \A fn \in CompleteFns :
       /\ fn \notin ReadingFns /\ fn \notin WorkingFns /\ fn \notin GroupFns
       /\ fn \notin ContextSensitiveFns /\ fn \notin TagFns
       /\ fn # "parsePrefix" /\ fn # "parseInfix"
    BY <1>1, <1>2, <1>3
  <1>5. \A fn \in ReadingFns :
       /\ fn \notin WorkingFns /\ fn \notin GroupFns /\ fn \notin TagFns
       /\ fn # "parseInfix"
    BY <1>1, <1>2, <1>3
  <1>6. \A fn \in WorkingFns :
       /\ fn \notin ReadingFns /\ fn \notin CompleteFns
       /\ fn \notin ContextSensitiveFns /\ fn # "parsePrefix"
    BY <1>1, <1>2, <1>3
  <1> QED  BY <1>4, <1>5, <1>6

\* The stacks are sequences after the step as well.
LEMMA StackTypesNext ==
  ASSUME Inv'
  PROVE  /\ NodeStack' \in Seq(Node) /\ ContextStack' \in Seq(Context)
         /\ Len(NodeStack') \in Nat /\ Len(ContextStack') \in Nat
  BY DEF Inv, TypeOK

\* What a context waits with stays as it is while the nodes below it do.
LEMMA WaitingKept ==
  ASSUME NEW nodes, NEW more, NEW ctxt \in Context, NEW l \in Nat, NEW m \in Nat,
         l <= m, ctxt.Index < m, Agree(nodes, more, m), Waiting(nodes, ctxt, l)
  PROVE  Waiting(more, ctxt, l)
  <1>1. ctxt.Index \in Nat
    BY ContextFields
  <1>2. Opens(more, ctxt) <=> Opens(nodes, ctxt)
    BY AgreeOpens
  <1>3. WaitingFn(more, ctxt) = WaitingFn(nodes, ctxt)
    BY <1>2 DEF WaitingFn
  <1>4. PICK parts \in Seq(Label) :
          /\ PartsAre(nodes, ctxt.Index, l, parts)
          /\ Awaits(WaitingFn(nodes, ctxt), parts)
    BY DEF Waiting
  <1>5. PartsAre(more, ctxt.Index, l, parts)
    BY <1>1, <1>4, PartsKept
  <1> QED  BY <1>3, <1>4, <1>5 DEF Waiting

LowerFitsAt(nodes, C, i) ==
  /\ Waiting(nodes, C[i], C[i + 1].Index)
  /\ C[i].F = "GroupParselet_parseLoop" =>
       C[i].P.closer = GroupOpenerToCloser(nodes[C[i].Index + 1].op)
  /\ C[i].F = "CallParselet_reduceCall" =>
       C[i].Prec = PRECEDENCE.HIGHEST /\ Opens(nodes, C[i + 1])

\* The lower contexts fit one by one.
LEMMA LowerIs ==
  ASSUME NEW nodes, NEW C
  PROVE  LowerFits(nodes, C) <=> \A i \in 1..(Len(C) - 1) : LowerFitsAt(nodes, C, i)
  BY DEF LowerFits, LowerFitsAt

\* The same of the contexts below the top one.
LEMMA LowerAtKept ==
  ASSUME NEW nodes, NEW more, NEW C \in Seq(Context), NEW D \in Seq(Context),
         NEW n \in Nat, Nested(n, C), NEW i \in 1..(Len(C) - 1), i + 1 \in 1..Len(D),
         D[i] = C[i], D[i + 1].Index = C[i + 1].Index, NEW m \in Nat,
         Agree(nodes, more, m), C[i + 1].Index <= m,
         C[i].F = "CallParselet_reduceCall" => C[i + 1].Index < m,
         LowerFitsAt(nodes, C, i)
  PROVE  LowerFitsAt(more, D, i)
  <1>1. /\ C[i] \in Context /\ C[i + 1] \in Context /\ D[i + 1] \in Context
        /\ i \in 1..Len(C) /\ i + 1 \in 1..Len(C)
    OBVIOUS
  <1>2. C[i].Index \in Nat /\ C[i + 1].Index \in Nat
    BY <1>1, ContextFields
  <1>3. C[i].Index < C[i + 1].Index
    BY <1>1 DEF Nested
  <1>4. C[i].Index < m
    BY <1>2, <1>3
  <1>5. Waiting(more, D[i], D[i + 1].Index)
    BY <1>1, <1>2, <1>4, WaitingKept DEF LowerFitsAt
  <1>6. more[C[i].Index + 1] = nodes[C[i].Index + 1]
    BY <1>1, <1>4, AgreeOpens
  <1>7. C[i].F = "CallParselet_reduceCall" => Opens(more, D[i + 1])
    <2> HAVE C[i].F = "CallParselet_reduceCall"
    <2>1. Opens(nodes, C[i + 1]) /\ C[i + 1].Index < m
      BY DEF LowerFitsAt
    <2>2. Opens(more, C[i + 1])
      BY <1>1, <2>1, AgreeOpens
    <2> QED  BY <2>2 DEF Opens
  <1> QED  BY <1>5, <1>6, <1>7 DEF LowerFitsAt

\* Leaves have no children to be wrong.
LEMMA LeavesWellFormed ==
  ASSUME NEW N, N.kind \in {"Leaf", "Abort"} PROVE WellFormedNode(N)
  <1>1. N.kind \notin GroupKinds
    BY DEF GroupKinds
  <1>2. CASE N.kind = "Leaf"
    BY <1>1, <1>2 DEF WellFormedNode
  <1>3. CASE N.kind = "Abort"
    BY <1>1, <1>3 DEF WellFormedNode
  <1> QED  BY <1>2, <1>3

\* A step that leaves the contexts where they are.
LEMMA LevelShaped ==
  ASSUME Inv, Inv', Fitting, Shaped, Grows(NodeStack, NodeStack'),
         Level(ContextStack, ContextStack'),
         \A k \in (Len(NodeStack) + 1)..Len(NodeStack') :
           NodeStack'[k].kind \in {"Leaf", "Abort"},
         ContextStack' # <<>> => TopShaped(NodeStack', Top(ContextStack'), call'),
         CallShaped(NodeStack', call')
  PROVE  Shaped'
  <1>1. /\ NodeStack \in Seq(Node) /\ ContextStack \in Seq(Context)
        /\ Nested(Len(NodeStack), ContextStack) /\ Len(NodeStack) \in Nat
    BY FittingParts
  <1>2. /\ NodeStack' \in Seq(Node) /\ ContextStack' \in Seq(Context)
        /\ Len(NodeStack') \in Nat /\ Len(ContextStack') \in Nat
    BY StackTypesNext
  <1>3. Len(ContextStack') = Len(ContextStack) /\ Len(ContextStack) \in Nat
    BY <1>1 DEF Level
  <1>4. ASSUME NEW i \in 1..(Len(ContextStack') - 1)
        PROVE  LowerFitsAt(NodeStack', ContextStack', i)
    <2>1. /\ i \in 1..(Len(ContextStack) - 1) /\ i + 1 \in 1..Len(ContextStack)
          /\ i + 1 \in 1..Len(ContextStack')
      BY <1>3
    <2>2. ContextStack'[i] = ContextStack[i]
          /\ ContextStack'[i + 1].Index = ContextStack[i + 1].Index
      BY <2>1 DEF Level
    <2>3. ContextStack[i + 1].Index < Len(NodeStack)
          /\ ContextStack[i + 1].Index \in Nat
      BY <1>1, <2>1, ContextFields DEF Nested
    <2>4. LowerFitsAt(NodeStack, ContextStack, i)
      BY <2>1, LowerIs DEF Shaped
    <2>5. Agree(NodeStack, NodeStack', Len(NodeStack))
      BY DEF Grows
    <2> QED  BY SMTT(60), <1>1, <1>2, <2>1, <2>2, <2>3, <2>4, <2>5, LowerAtKept
  <1>5. ASSUME NEW i \in 1..Len(NodeStack') PROVE WellFormedNode(NodeStack'[i])
    <2>1. CASE i \in 1..Len(NodeStack)
      <3>1. NodeStack'[i] = NodeStack[i]
        BY <2>1 DEF Grows, Agree
      <3> QED  BY <2>1, <3>1 DEF Shaped, WellFormed
    <2>2. CASE i \in (Len(NodeStack) + 1)..Len(NodeStack')
      BY <2>2, LeavesWellFormed
    <2> QED  BY <1>1, <1>2, <2>1, <2>2
  <1>6. LowerFits(NodeStack', ContextStack')
    BY <1>4, LowerIs
  <1>7. WellFormed'
    BY <1>5 DEF WellFormed
  <1>8. Parser_topContext' = Top(ContextStack')
    BY DEF Parser_topContext, Top
  <1> QED  BY <1>6, <1>7, <1>8 DEF Shaped

\* A step that opens a context.
LEMMA PushShaped ==
  ASSUME Inv, Inv', Fitting, Shaped, Grows(NodeStack, NodeStack'),
         NEW ctxt, ContextStack' = Append(ContextStack, ctxt),
         \/ call.fn \in ReadingFns /\ ctxt.Index = Len(NodeStack)
         \/ call.fn \in CompleteFns /\ ctxt.Index = Len(NodeStack) - 1,
         \A k \in (Len(NodeStack) + 1)..Len(NodeStack') :
           NodeStack'[k].kind \in {"Leaf", "Abort"},
         ContextStack # <<>> /\ Parser_topContext.F = "CallParselet_reduceCall" =>
           Opens(NodeStack', ctxt),
         TopShaped(NodeStack', ctxt, call'), CallShaped(NodeStack', call')
  PROVE  Shaped'
  <1>1. /\ NodeStack \in Seq(Node) /\ ContextStack \in Seq(Context)
        /\ Nested(Len(NodeStack), ContextStack) /\ Len(NodeStack) \in Nat
    BY FittingParts
  <1>2. /\ NodeStack' \in Seq(Node) /\ ContextStack' \in Seq(Context)
        /\ Len(NodeStack') \in Nat
    BY StackTypesNext
  <1>3. ctxt \in Context
    BY NewTopContext
  <1> DEFINE n == Len(ContextStack)
  <1>4. /\ n \in Nat /\ Len(ContextStack') = n + 1 /\ ContextStack'[n + 1] = ctxt
        /\ \A i \in 1..n : ContextStack'[i] = ContextStack[i]
        /\ Top(ContextStack') = ctxt
    BY <1>1, <1>3 DEF Top
  <1>5. Agree(NodeStack, NodeStack', Len(NodeStack))
    BY DEF Grows
  <1>6. ASSUME NEW i \in 1..(n - 1)
        PROVE  LowerFitsAt(NodeStack', ContextStack', i)
    <2>1. i \in 1..n /\ i + 1 \in 1..n /\ i + 1 \in 1..Len(ContextStack')
          /\ i \in 1..(Len(ContextStack) - 1)
      BY <1>4
    <2>2. ContextStack'[i] = ContextStack[i]
          /\ ContextStack'[i + 1].Index = ContextStack[i + 1].Index
      BY <1>4, <2>1
    <2>3. ContextStack[i + 1].Index < Len(NodeStack)
          /\ ContextStack[i + 1].Index <= Len(NodeStack)
      <3>1. ContextStack[i + 1].Index < Len(NodeStack)
        BY <1>1, <2>1 DEF Nested
      <3>2. ContextStack[i + 1].Index \in Nat
        BY <1>1, <2>1, ContextFields
      <3> QED  BY <1>1, <3>1, <3>2
    <2>4. LowerFitsAt(NodeStack, ContextStack, i)
      BY <2>1, LowerIs DEF Shaped
    <2> HIDE DEF n
    <2> QED  BY <1>1, <1>2, <1>5, <2>1, <2>2, <2>3, <2>4, LowerAtKept
  <1>7. ASSUME n # 0 PROVE LowerFitsAt(NodeStack', ContextStack', n)
    <2>1. /\ ContextStack # <<>> /\ Parser_topContext = ContextStack[n]
          /\ ContextStack[n] \in Context /\ n \in 1..n
          /\ ContextStack'[n] = ContextStack[n] /\ ContextStack'[n + 1] = ctxt
      BY <1>1, <1>4, <1>7 DEF Parser_topContext, Top
    <2>2. TopShaped(NodeStack, ContextStack[n], call)
      BY <2>1 DEF Shaped
    <2>3. Waiting(NodeStack, ContextStack[n], ctxt.Index)
      BY <2>2 DEF TopShaped, TopWaits
    <2>4. ctxt.Index \in Nat /\ ctxt.Index <= Len(NodeStack)
          /\ ContextStack[n].Index < Len(NodeStack) /\ ContextStack[n].Index \in Nat
      <3>1. ctxt.Index \in Nat /\ ContextStack[n].Index \in Nat
        BY <1>3, <2>1, ContextFields
      <3>2. ContextStack[n].Index < Len(NodeStack)
        BY <1>1, <2>1 DEF Nested
      <3>3. ctxt.Index <= Len(NodeStack)
        BY <1>1
      <3> QED  BY <3>1, <3>2, <3>3
    <2>5. Waiting(NodeStack', ContextStack[n], ctxt.Index)
      BY <1>1, <1>5, <2>1, <2>3, <2>4, WaitingKept
    <2>6. NodeStack'[ContextStack[n].Index + 1] = NodeStack[ContextStack[n].Index + 1]
      BY <1>1, <1>5, <2>1, <2>4, AgreeOpens
    <2>7. ContextStack[n].F = "GroupParselet_parseLoop" =>
            ContextStack[n].P.closer =
              GroupOpenerToCloser(NodeStack'[ContextStack[n].Index + 1].op)
      BY <2>2, <2>6 DEF TopShaped, CloserFits
    <2>8. ContextStack[n].F = "CallParselet_reduceCall" =>
            ContextStack[n].Prec = PRECEDENCE.HIGHEST /\ Opens(NodeStack', ctxt)
      BY <2>1, <2>2 DEF TopShaped, CallWaits
    <2> HIDE DEF n
    <2> QED  BY <2>1, <2>5, <2>7, <2>8 DEF LowerFitsAt
  <1>8. \A i \in 1..(Len(ContextStack') - 1) : LowerFitsAt(NodeStack', ContextStack', i)
    <2> SUFFICES ASSUME NEW i \in 1..n PROVE LowerFitsAt(NodeStack', ContextStack', i)
      BY <1>4
    <2>1. CASE i = n
      BY <1>4, <1>7, <2>1
    <2>2. CASE i \in 1..(n - 1)
      BY <1>6, <2>2
    <2> QED  BY <1>4, <2>1, <2>2
  <1>9. ASSUME NEW i \in 1..Len(NodeStack') PROVE WellFormedNode(NodeStack'[i])
    <2>1. CASE i \in 1..Len(NodeStack)
      <3>1. NodeStack'[i] = NodeStack[i]
        BY <1>5, <2>1 DEF Agree
      <3> QED  BY <2>1, <3>1 DEF Shaped, WellFormed
    <2>2. CASE i \in (Len(NodeStack) + 1)..Len(NodeStack')
      BY <2>2, LeavesWellFormed
    <2> QED  BY <1>1, <1>2, <2>1, <2>2
  <1>10. LowerFits(NodeStack', ContextStack')
    BY <1>8, LowerIs
  <1>11. WellFormed'
    BY <1>9 DEF WellFormed
  <1>12. Parser_topContext' = ctxt
    BY <1>4 DEF Parser_topContext, Top
  <1> QED  BY <1>10, <1>11, <1>12 DEF Shaped

\* A step that closes the top context, with one node in place of its nodes.
LEMMA PopShaped ==
  ASSUME Inv, Inv', Fitting, Shaped, ContextStack # <<>>,
         ContextStack' = Pop(ContextStack),
         Len(NodeStack') = Parser_topContext.Index + 1,
         Agree(NodeStack, NodeStack', Parser_topContext.Index),
         WellFormedNode(Top(NodeStack')), IsOperand(LabelOf(Top(NodeStack'))),
         Opens(NodeStack, Parser_topContext) =>
           Top(NodeStack').kind \in GroupKinds \union {"Abort"},
         call'.fn \in CompleteFns
  PROVE  Shaped'
  <1> DEFINE n == Len(ContextStack)
             b == Parser_topContext.Index
  <1>1. /\ NodeStack \in Seq(Node) /\ ContextStack \in Seq(Context)
        /\ Nested(Len(NodeStack), ContextStack) /\ Len(NodeStack) \in Nat
        /\ Parser_topContext = Top(ContextStack) /\ b \in Nat /\ b < Len(NodeStack)
    BY FittingParts
  <1>2. /\ NodeStack' \in Seq(Node) /\ ContextStack' \in Seq(Context)
    BY StackTypesNext
  <1>3. /\ Len(ContextStack') = n - 1 /\ n \in Nat \ {0}
        /\ \A i \in 1..(n - 1) : ContextStack'[i] = ContextStack[i]
        /\ ContextStack[n].Index = b
    BY <1>1, PoppedContexts
  <1>4. ASSUME NEW i \in 1..(n - 2) PROVE LowerFitsAt(NodeStack', ContextStack', i)
    <2>1. i \in 1..n /\ i + 1 \in 1..n /\ i + 1 \in 1..(n - 1) /\ n \in 1..n
          /\ i \in 1..(n - 1) /\ i + 1 < n
      BY <1>3
    <2>2. ContextStack'[i] = ContextStack[i]
          /\ ContextStack'[i + 1].Index = ContextStack[i + 1].Index
          /\ i + 1 \in 1..Len(ContextStack')
      BY <1>3, <2>1
    <2>3. ContextStack[i + 1].Index < b
      BY <1>1, <1>3, <2>1 DEF Nested
    <2>4. ContextStack[i + 1].Index \in Nat
      BY <1>1, <2>1, ContextFields
    <2>5. LowerFitsAt(NodeStack, ContextStack, i)
      BY <2>1, LowerIs DEF Shaped
    <2>6. ContextStack[i + 1].Index <= b
      BY <1>1, <2>3, <2>4
    <2> QED  BY <1>1, <1>2, <2>1, <2>2, <2>3, <2>5, <2>6, LowerAtKept
  <1>5. LowerFits(NodeStack', ContextStack')
    <2>1. \A i \in 1..(Len(ContextStack') - 1) : i \in 1..(n - 2)
      BY <1>3
    <2> QED  BY <1>4, <2>1, LowerIs
  <1>6. ASSUME NEW i \in 1..Len(NodeStack') PROVE WellFormedNode(NodeStack'[i])
    <2>1. CASE i \in 1..b
      <3>1. NodeStack'[i] = NodeStack[i] /\ i \in 1..Len(NodeStack)
        BY <1>1, <2>1 DEF Agree
      <3> QED  BY <3>1 DEF Shaped, WellFormed
    <2>2. CASE i = Len(NodeStack')
      BY <2>2 DEF Top
    <2> QED  BY <1>1, <2>1, <2>2
  <1>7. WellFormed'
    BY <1>6 DEF WellFormed
  <1>8. CallShaped(NodeStack', call')
    BY PhasesDiffer DEF CallShaped, TokenFits
  <1>9. ASSUME ContextStack' # <<>>
        PROVE  TopShaped(NodeStack', Top(ContextStack'), call')
    <2> DEFINE c == ContextStack[n - 1]
    <2>1. /\ Len(ContextStack') # 0 /\ n - 1 \in 1..(n - 1) /\ n - 1 \in 1..n /\ n \in 1..n
          /\ Top(ContextStack') = c
      BY <1>2, <1>3, <1>9 DEF Top
    <2>2. c \in Context /\ c.Index < b /\ c.Index \in Nat
      <3>1. c \in Context
        BY <1>1, <2>1
      <3>2. c.Index < ContextStack[n].Index
        BY <1>1, <1>3, <2>1 DEF Nested
      <3> QED  BY <1>3, <3>1, <3>2, ContextFields
    <2>3. LowerFitsAt(NodeStack, ContextStack, n - 1)
      <3>1. n - 1 \in 1..(Len(ContextStack) - 1)
        BY <2>1
      <3> QED  BY <3>1, LowerIs DEF Shaped
    <2>4. /\ Waiting(NodeStack, c, b)
          /\ c.F = "GroupParselet_parseLoop" =>
               c.P.closer = GroupOpenerToCloser(NodeStack[c.Index + 1].op)
          /\ c.F = "CallParselet_reduceCall" =>
               c.Prec = PRECEDENCE.HIGHEST /\ Opens(NodeStack, ContextStack[n])
      <3>1. n - 1 + 1 = n
        BY <1>3
      <3> QED  BY <1>3, <2>3, <3>1 DEF LowerFitsAt
    <2>5. ContextStack[n] = Parser_topContext
      BY <1>1 DEF Top
    <2>6. NodeStack'[c.Index + 1] = NodeStack[c.Index + 1]
      BY <1>1, <2>2, AgreeOpens
    <2> HIDE DEF c
    <2>7. Waiting(NodeStack', c, b)
      BY <1>1, <2>2, <2>4, WaitingKept
    <2>8. TopWaits(NodeStack', c, call'.fn)
      <3>1. Len(NodeStack') - 1 = b
        BY <1>1
      <3> QED  BY <2>7, <3>1, PhasesDiffer DEF TopWaits
    <2>9. CloserFits(NodeStack', c, call')
      BY <2>4, <2>6, PhasesDiffer DEF CloserFits
    <2>10. CallWaits(NodeStack', c, call')
      BY <2>4, <2>5, PhasesDiffer DEF CallWaits
    <2> QED  BY <2>1, <2>8, <2>9, <2>10 DEF TopShaped
  <1>10. Parser_topContext' = Top(ContextStack')
    BY DEF Parser_topContext, Top
  <1> QED  BY <1>5, <1>7, <1>8, <1>9, <1>10 DEF Shaped

-----------------------------------------------------------------------------
(* What a step puts on the node stack                                      *)

\* Only trivia, or N among trivia.
TookTrivia(nodes, more) ==
  /\ Grows(nodes, more)
  /\ \A k \in (Len(nodes) + 1)..Len(more) : LeafIn(more[k], Trivia)

Took(nodes, more, N) ==
  /\ Grows(nodes, more)
  /\ \E q \in (Len(nodes) + 1)..Len(more) :
       /\ more[q] = N /\ ~LeafIn(N, Trivia)
       /\ \A k \in (Len(nodes) + 1)..Len(more) : k # q => LeafIn(more[k], Trivia)

\* Nothing taken is trivia taken.
LEMMA TookNothing ==
  ASSUME NEW s \in Seq(Node) PROVE TookTrivia(s, s)
  <1>1. (Len(s) + 1)..Len(s) = {}
    OBVIOUS
  <1> QED  BY <1>1, GrowsSame DEF TookTrivia

\* A node that is appended is a node taken.
LEMMA TookOne ==
  ASSUME NEW s \in Seq(Node), NEW N \in Node, ~LeafIn(N, Trivia)
  PROVE  /\ Took(s, Append(s, N), N) /\ Append(s, N) \in Seq(Node)
         /\ s \o <<N>> = Append(s, N)
  <1>1. /\ Grows(s, Append(s, N)) /\ Append(s, N) \in Seq(Node)
        /\ Len(Append(s, N)) = Len(s) + 1 /\ Append(s, N)[Len(s) + 1] = N
        /\ Len(s) \in Nat
    BY GrowsByOne
  <1>2. Len(s) + 1 \in (Len(s) + 1)..Len(Append(s, N))
        /\ \A k \in (Len(s) + 1)..Len(Append(s, N)) : k = Len(s) + 1
    BY <1>1
  <1>3. s \o <<N>> = Append(s, N)
    OBVIOUS
  <1> QED  BY <1>1, <1>2, <1>3 DEF Took

\* Trivia may follow the node taken.
LEMMA TookThenTrivia ==
  ASSUME NEW s \in Seq(Node), NEW t \in Seq(Node), NEW u \in Seq(Node), NEW N,
         Took(s, t, N), TookTrivia(t, u)
  PROVE  Took(s, u, N)
  <1>1. Grows(s, u)
    BY GrowsFurther DEF Took, TookTrivia
  <1>2. PICK q \in (Len(s) + 1)..Len(t) :
          /\ t[q] = N /\ ~LeafIn(N, Trivia)
          /\ \A k \in (Len(s) + 1)..Len(t) : k # q => LeafIn(t[k], Trivia)
    BY DEF Took
  <1>3. Len(s) \in Nat /\ Len(t) \in Nat /\ Len(u) \in Nat /\ Len(t) <= Len(u)
    BY DEF TookTrivia, Grows
  <1>4. \A k \in 1..Len(t) : u[k] = t[k]
    BY DEF TookTrivia, Grows, Agree
  <1>5. q \in 1..Len(t) /\ q \in (Len(s) + 1)..Len(u) /\ u[q] = N
    BY <1>2, <1>3, <1>4
  <1>6. ASSUME NEW k \in (Len(s) + 1)..Len(u), k # q PROVE LeafIn(u[k], Trivia)
    <2>1. CASE k \in (Len(s) + 1)..Len(t)
      BY <1>2, <1>3, <1>4, <1>6, <2>1
    <2>2. CASE k \in (Len(t) + 1)..Len(u)
      BY <2>2 DEF TookTrivia
    <2> QED  BY <1>3, <2>1, <2>2
  <1> QED  BY <1>1, <1>2, <1>5, <1>6 DEF Took

\* Trivia may come before the node taken.
LEMMA TriviaThenTook ==
  ASSUME NEW s \in Seq(Node), NEW t \in Seq(Node), NEW u \in Seq(Node), NEW N,
         TookTrivia(s, t), Took(t, u, N)
  PROVE  Took(s, u, N)
  <1>1. Grows(s, u)
    BY GrowsFurther DEF Took, TookTrivia
  <1>2. PICK q \in (Len(t) + 1)..Len(u) :
          /\ u[q] = N /\ ~LeafIn(N, Trivia)
          /\ \A k \in (Len(t) + 1)..Len(u) : k # q => LeafIn(u[k], Trivia)
    BY DEF Took
  <1>3. Len(s) \in Nat /\ Len(t) \in Nat /\ Len(u) \in Nat /\ Len(s) <= Len(t)
    BY DEF TookTrivia, Grows
  <1>4. \A k \in 1..Len(t) : u[k] = t[k]
    BY DEF Took, Grows, Agree
  <1>5. q \in (Len(s) + 1)..Len(u)
    BY <1>2, <1>3
  <1>6. ASSUME NEW k \in (Len(s) + 1)..Len(u), k # q PROVE LeafIn(u[k], Trivia)
    <2>1. CASE k \in (Len(s) + 1)..Len(t)
      BY <1>3, <1>4, <2>1 DEF TookTrivia
    <2>2. CASE k \in (Len(t) + 1)..Len(u)
      BY <1>2, <1>6, <2>2
    <2> QED  BY <1>3, <2>1, <2>2
  <1> QED  BY <1>1, <1>2, <1>5, <1>6 DEF Took

\* Trivia and more trivia are trivia.
LEMMA TriviaThenTrivia ==
  ASSUME NEW s \in Seq(Node), NEW t \in Seq(Node), NEW u \in Seq(Node),
         TookTrivia(s, t), TookTrivia(t, u)
  PROVE  TookTrivia(s, u)
  <1>1. Grows(s, u)
    BY GrowsFurther DEF TookTrivia
  <1>3. Len(s) \in Nat /\ Len(t) \in Nat /\ Len(u) \in Nat /\ Len(s) <= Len(t)
    BY DEF TookTrivia, Grows
  <1>4. \A k \in 1..Len(t) : u[k] = t[k]
    BY DEF TookTrivia, Grows, Agree
  <1>6. ASSUME NEW k \in (Len(s) + 1)..Len(u) PROVE LeafIn(u[k], Trivia)
    <2>1. CASE k \in (Len(s) + 1)..Len(t)
      BY <1>3, <1>4, <2>1 DEF TookTrivia
    <2>2. CASE k \in (Len(t) + 1)..Len(u)
      BY <2>2 DEF TookTrivia
    <2> QED  BY <1>3, <2>1, <2>2
  <1> QED  BY <1>1, <1>6 DEF TookTrivia

\* What it means for the parts, and that only leaves were put there.
LEMMA TookParts ==
  ASSUME NEW nodes \in Seq(Node), NEW more \in Seq(Node), NEW b \in Nat,
         b <= Len(nodes), NEW parts \in Seq(Label),
         PartsAre(nodes, b, Len(nodes), parts), NEW N, Took(nodes, more, N)
  PROVE  /\ PartsAre(more, b, Len(more), Append(parts, LabelOf(N)))
         /\ Append(parts, LabelOf(N)) \in Seq(Label) /\ LabelOf(N) \in Label
  <1>1. PICK q \in (Len(nodes) + 1)..Len(more) :
          /\ more[q] = N /\ ~LeafIn(N, Trivia)
          /\ \A k \in (Len(nodes) + 1)..Len(more) : k # q => LeafIn(more[k], Trivia)
    BY DEF Took
  <1>2. Grows(nodes, more)
    BY DEF Took
  <1>3. q \in 1..Len(more)
    OBVIOUS
  <1>4. N \in Node
    BY <1>1, <1>3
  <1> QED  BY <1>1, <1>2, <1>4, PartsTaken, LabelType

\* Trivia that are taken change no parts.
LEMMA TriviaParts ==
  ASSUME NEW nodes \in Seq(Node), NEW more \in Seq(Node), NEW b \in Nat,
         b <= Len(nodes), NEW parts \in Seq(Label),
         PartsAre(nodes, b, Len(nodes), parts), TookTrivia(nodes, more)
  PROVE  PartsAre(more, b, Len(more), parts)
  <1>1. Len(nodes) \in Nat /\ Len(more) \in Nat /\ Len(parts) \in Nat
        /\ Len(nodes) <= Len(more)
    BY DEF TookTrivia, Grows
  <1>2. PartsAre(more, b, Len(nodes), parts)
    BY <1>1, PartsKept DEF TookTrivia, Grows
  <1> QED  BY <1>1, <1>2, PartsMore DEF TookTrivia

LeavesOnly(nodes, more) ==
  \A k \in (Len(nodes) + 1)..Len(more) : more[k].kind \in {"Leaf", "Abort"}

\* Only leaves are put on the stack by taking trivia or a token.
LEMMA TookLeaves ==
  ASSUME NEW nodes, NEW more
  PROVE  /\ TookTrivia(nodes, more) => LeavesOnly(nodes, more)
         /\ \A N : Took(nodes, more, N) /\ N.kind \in {"Leaf", "Abort"}
              => LeavesOnly(nodes, more)
  BY DEF TookTrivia, Took, LeavesOnly, LeafIn

\* Leaves and more leaves are leaves.
LEMMA LeavesThenLeaves ==
  ASSUME NEW s \in Seq(Node), NEW t \in Seq(Node), NEW u \in Seq(Node),
         Grows(s, t), Grows(t, u), LeavesOnly(s, t), LeavesOnly(t, u)
  PROVE  LeavesOnly(s, u)
  <1>3. Len(s) \in Nat /\ Len(t) \in Nat /\ Len(u) \in Nat /\ Len(s) <= Len(t)
    BY DEF Grows
  <1>4. \A k \in 1..Len(t) : u[k] = t[k]
    BY DEF Grows, Agree
  <1>6. ASSUME NEW k \in (Len(s) + 1)..Len(u) PROVE u[k].kind \in {"Leaf", "Abort"}
    <2>1. CASE k \in (Len(s) + 1)..Len(t)
      BY <1>3, <1>4, <2>1 DEF LeavesOnly
    <2>2. CASE k \in (Len(t) + 1)..Len(u)
      BY <2>2 DEF LeavesOnly
    <2> QED  BY <1>3, <2>1, <2>2
  <1> QED  BY <1>6 DEF LeavesOnly

-----------------------------------------------------------------------------
(* What the tokens that a step takes are                                   *)

\* A token on the stack is a leaf, and is an operand if its kind is one.
LEMMA TokenIsLeaf ==
  ASSUME NEW t \in Token
  PROVE  /\ t \in Node /\ t.kind = "Leaf" /\ t.op \in LeafKinds
         /\ \A toks : LeafIn(t, toks) <=> t.op \in toks
         /\ IsOperand(LabelOf(t)) <=> t.op \in OperandTokens
         /\ LabelOf(t) \in Label /\ LabelOf(t)[1] = "Leaf" /\ LabelOf(t)[2] = t.op
  <1>1. t \in Node /\ t.kind = "Leaf" /\ t.op \in LeafKinds
    BY TokenIsNode DEF Token
  <1>2. LabelOf(t) \in Label /\ LabelOf(t)[1] = t.kind /\ LabelOf(t)[2] = t.op
    BY <1>1, LabelType
  <1> QED  BY <1>1, <1>2 DEF LeafIn, IsOperand

\* The tokens that stand for an operand, and the trivia, are no others.
LEMMA TokenSets ==
  /\ Trivia \intersect OperandTokens = {}
  /\ Openers \intersect OperandTokens = {} /\ Openers \intersect Trivia = {}
  /\ CloserTokens \intersect OperandTokens = {} /\ CloserTokens \intersect Trivia = {}
  /\ Errors \subseteq OperandTokens
  /\ {"FAKE_IMPLICITNULL", "FAKE_IMPLICITONE", "FAKE_IMPLICITALL"} \subseteq OperandTokens
  /\ Errors \intersect Trivia = {} /\ Fakes \intersect Trivia = {}
  <1>1. Trivia \intersect OperandTokens = {}
    BY DEF Trivia, Newlines, OperandTokens, Unders, Errors, TokenizerErrors,
         ParserErrors, Fakes
  <1>2. Openers \intersect OperandTokens = {}
    BY DEF Openers, PossibleBeginningOpeners, OperandTokens, Unders, Errors,
         TokenizerErrors,
           ParserErrors, Fakes
  <1>3. CloserTokens \intersect OperandTokens = {}
    BY DEF CloserTokens, OperandTokens, Unders, Errors, TokenizerErrors, ParserErrors, Fakes
  <1>4. Openers \intersect Trivia = {} /\ CloserTokens \intersect Trivia = {}
    BY DEF Openers, PossibleBeginningOpeners, CloserTokens, Trivia, Newlines
  <1>5. Errors \subseteq OperandTokens
    BY DEF OperandTokens
  <1>6. {"FAKE_IMPLICITNULL", "FAKE_IMPLICITONE", "FAKE_IMPLICITALL"} \subseteq OperandTokens
    BY DEF OperandTokens, Fakes
  <1>7. Errors \intersect Trivia = {} /\ Fakes \intersect Trivia = {}
    BY DEF Errors, TokenizerErrors, ParserErrors, Fakes, Trivia, Newlines
  <1> QED  BY <1>1, <1>2, <1>3, <1>4, <1>5, <1>6, <1>7

\* The end of the file is never skipped as trivia.
LEMMA EndIsNoTrivia ==
  ASSUME input \in Seq(SourceTokens)
  PROVE  KindAt(Len(input)) = "ENDOFFILE" /\ "ENDOFFILE" \notin Trivia
  <1>1. RawKind(Len(input)) = "ENDOFFILE"
    BY DEF RawKind
  <1>2. KindAt(Len(input)) = "ENDOFFILE"
    BY <1>1 DEF KindAt
  <1> QED  BY <1>2 DEF Trivia, Newlines

\* The token that is current behind the trivia.
LEMMA EndOfTrivia ==
  ASSUME Inv, NEW p \in 0..Len(input)
  PROVE  /\ Tokenizer_currentToken(TriviaEnd(p)) \in Token
         /\ Tokenizer_currentToken(TriviaEnd(p)).op \in Tokens \ Trivia
         /\ Tokenizer_currentToken(TriviaButNotToplevelNewlinesEnd(p)) \in Token
         /\ Tokenizer_currentToken(TriviaButNotToplevelNewlinesEnd(p)).op
              \in Tokens \ TriviaButNotToplevelNewline
  <1>1. input \in Seq(SourceTokens) /\ Len(input) \in Nat
    BY StackTypes
  <1>2. KindAt(Len(input)) = "ENDOFFILE" /\ "ENDOFFILE" \notin Trivia
    BY <1>1, EndIsNoTrivia
  <1>3. ASSUME NEW toks \in SUBSET Trivia
        PROVE  /\ Tokenizer_currentToken(SkipKinds(p, toks)) \in Token
               /\ Tokenizer_currentToken(SkipKinds(p, toks)).op \in Tokens \ toks
    <2> DEFINE q == SkipKinds(p, toks)
    <2>1. /\ q \in p..Len(input) /\ (q = Len(input) \/ KindAt(q) \notin toks)
      BY <1>1, SkipKindsFacts
    <2>2. q \in Nat /\ KindAt(q) \notin toks
      BY <1>1, <1>2, <2>1
    <2> HIDE DEF q
    <2>3. /\ Tokenizer_currentToken(q) \in Token /\ Tokenizer_currentToken(q).op \in Tokens
      BY <1>1, <2>2, CurrentTokenType
    <2>4. Tokenizer_currentToken(q).op = KindAt(q)
      BY DEF Tokenizer_currentToken, Leaf
    <2> QED  BY <2>2, <2>3, <2>4 DEF q
  <1>4. Trivia \in SUBSET Trivia /\ TriviaButNotToplevelNewline \in SUBSET Trivia
    BY DEF TriviaButNotToplevelNewline
  <1> QED  BY <1>3, <1>4 DEF TriviaEnd, TriviaButNotToplevelNewlinesEnd

\* The trivia that is taken is trivia.
LEMMA TakesTrivia ==
  ASSUME Inv, NEW s \in Seq(Node), NEW p \in 0..Len(input),
         NEW q \in {TriviaEnd(p), TriviaButNotToplevelNewlinesEnd(p)}
  PROVE  /\ TookTrivia(s, s \o TriviaTokens(p, q)) /\ s \o TriviaTokens(p, q) \in Seq(Node)
         /\ q \in p..Len(input) /\ q \in 0..Len(input)
  <1>1. input \in Seq(SourceTokens) /\ Len(input) \in Nat
    BY StackTypes
  <1>2. q \in p..Len(input) /\ \A r \in p..(q - 1) : KindAt(r) \in Trivia
    <2>1. CASE q = TriviaEnd(p)
      BY <1>1, <2>1, SkipKindsFacts DEF TriviaEnd
    <2>2. CASE q = TriviaButNotToplevelNewlinesEnd(p)
      <3>1. /\ q \in p..Len(input)
            /\ \A r \in p..(q - 1) : KindAt(r) \in TriviaButNotToplevelNewline
        BY <1>1, <2>2, SkipKindsFacts DEF TriviaButNotToplevelNewlinesEnd
      <3> QED  BY <3>1 DEF TriviaButNotToplevelNewline
    <2> QED  BY <2>1, <2>2
  <1>3. /\ Grows(s, s \o TriviaTokens(p, q)) /\ s \o TriviaTokens(p, q) \in Seq(Node)
        /\ \A k \in (Len(s) + 1)..Len(s \o TriviaTokens(p, q)) :
              LeafIn((s \o TriviaTokens(p, q))[k], Trivia)
    BY <1>2, GrowsByTrivia
  <1>4. q \in 0..Len(input)
    BY <1>1, <1>2
  <1> QED  BY <1>2, <1>3, <1>4 DEF TookTrivia

\* An operator is taken with the trivia behind it.
LEMMA TakesOperator ==
  ASSUME Inv, NEW t \in Token, t.hi \in 0..Len(input), t.op \notin Trivia
  PROVE  /\ Took(NodeStack, WithOperator(t), t) /\ WithOperator(t) \in Seq(Node)
         /\ LeavesOnly(NodeStack, WithOperator(t)) /\ Grows(NodeStack, WithOperator(t))
  <1>1. NodeStack \in Seq(Node) /\ t \in Node /\ t.kind = "Leaf" /\ ~LeafIn(t, Trivia)
    BY StackTypes, TokenIsLeaf
  <1>2. Took(NodeStack, Append(NodeStack, t), t) /\ Append(NodeStack, t) \in Seq(Node)
    BY <1>1, TookOne
  <1>3. /\ TookTrivia(Append(NodeStack, t), WithOperator(t)) /\ WithOperator(t) \in Seq(Node)
    BY <1>2, TakesTrivia DEF WithOperator
  <1>4. Took(NodeStack, WithOperator(t), t)
    BY <1>1, <1>2, <1>3, TookThenTrivia
  <1> QED  BY <1>1, <1>3, <1>4, TookLeaves DEF Took

\* In a loop there is trivia before the operator too.
LEMMA TakesInLoop ==
  ASSUME Inv, NEW q \in {TriviaEnd(buffer), TriviaButNotToplevelNewlinesEnd(buffer)},
         NEW t \in Token, t.hi \in 0..Len(input), t.op \notin Trivia,
         NEW r \in {TriviaEnd(t.hi), TriviaButNotToplevelNewlinesEnd(t.hi)}
  PROVE  LET a == NodeStack \o TriviaTokens(buffer, q)
             b == a \o <<t>>
             c == b \o TriviaTokens(t.hi, r)
         IN /\ TookTrivia(NodeStack, a) /\ Took(NodeStack, b, t) /\ Took(NodeStack, c, t)
            /\ a \in Seq(Node) /\ b \in Seq(Node) /\ c \in Seq(Node)
            /\ LeavesOnly(NodeStack, a) /\ LeavesOnly(NodeStack, b)
            /\ LeavesOnly(NodeStack, c)
            /\ b = Append(a, t)
  <1> DEFINE a == NodeStack \o TriviaTokens(buffer, q)
             b == a \o <<t>>
             c == b \o TriviaTokens(t.hi, r)
  <1>1. NodeStack \in Seq(Node) /\ t \in Node /\ t.kind = "Leaf" /\ ~LeafIn(t, Trivia)
        /\ buffer \in 0..Len(input)
    BY StackTypes, TokenIsLeaf
  <1>2. TookTrivia(NodeStack, a) /\ a \in Seq(Node)
    BY <1>1, TakesTrivia
  <1> HIDE DEF a
  <1>3. Took(a, b, t) /\ b \in Seq(Node) /\ b = Append(a, t)
    BY <1>1, <1>2, TookOne
  <1> HIDE DEF b
  <1>4. TookTrivia(b, c) /\ c \in Seq(Node)
    BY <1>3, TakesTrivia
  <1> HIDE DEF c
  <1>5. Took(NodeStack, b, t)
    BY <1>1, <1>2, <1>3, TriviaThenTook
  <1>6. Took(NodeStack, c, t)
    BY <1>1, <1>3, <1>4, <1>5, TookThenTrivia
  <1>7. /\ LeavesOnly(NodeStack, a) /\ LeavesOnly(NodeStack, b) /\ LeavesOnly(NodeStack, c)
    BY <1>1, <1>2, <1>5, <1>6, TookLeaves
  <1> QED  BY <1>2, <1>3, <1>4, <1>5, <1>6, <1>7 DEF a, b, c

OperandClasses == {"Leaf", "Symbol", "Under", "UnderDot", "Hash", "HashHash", "Percent"}

OperatorClasses == {"PrefixOperator", "LessLess", "SemiSemi", "Integral", "Group"}

\* What parsePrefix takes is an operand or an operator as its parselet says.
LEMMA PrefixToken ==
  ASSUME Inv, Fitting, Shaped, Calling("parsePrefix")
  PROVE  /\ call.tok \in Token /\ call.tok.op \in Tokens \ Trivia
         /\ call.P.class \in OperandClasses => call.tok.op \in OperandTokens
         /\ call.P.class \in OperatorClasses => call.tok.op \notin OperandTokens
         /\ call.P.class = "Group" => call.tok.op \in Openers
         /\ call.P.class = "PrefixError" => call.tok.op \in Errors
         /\ call.P.class \in {"PrefixCloser", "PrefixToplevelCloser"} =>
              call.tok.op \in CloserTokens
         /\ call.P.class = "PrefixUnhandled" =>
              /\ call.tok.op \notin PossibleBeginning
              /\ infixParselets[call.tok.op].class
                   \notin {"InfixImplicitTimes", "InfixDifferentialD"}
  <1>1. call.tok \in Token /\ (call.P.class = "Group" => call.tok.op \in Openers)
    BY PrefixCall
  <1>2. TokenFits(call)
    BY DEF Shaped, CallShaped
  <1>3. /\ call.tok.op \in Tokens \ Trivia
        /\ \/ call.P = prefixParselets[call.tok.op]
           \/ call.P.class = "Group"
           \/ call.P.class = "PrefixToplevelCloser" /\ call.tok.op \in CloserTokens
    BY <1>2 DEF TokenFits, Calling
  <1>4. call.tok.op \notin Openers \intersect OperandTokens
    BY TokenSets
  <1>5. CASE call.P = prefixParselets[call.tok.op]
    <2> DEFINE P == prefixParselets[call.tok.op]
    <2>1. /\ P.class \in OperandClasses => call.tok.op \in OperandTokens
          /\ P.class \in {"PrefixOperator", "LessLess", "SemiSemi", "Integral"} =>
               call.tok.op \notin OperandTokens
          /\ P.class = "PrefixError" => call.tok.op \in Errors
          /\ P.class \in {"PrefixCloser", "PrefixToplevelCloser"} =>
               call.tok.op \in CloserTokens
          /\ P.class = "PrefixUnhandled" =>
               /\ call.tok.op \notin PossibleBeginning
               /\ infixParselets[call.tok.op].class
                    \notin {"InfixImplicitTimes", "InfixDifferentialD"}
      BY <1>3, OperandTablesAssumption DEF OperandClasses
    <2> HIDE DEF P
    <2>2. call.P.class \in OperatorClasses =>
            call.P.class = "Group"
              \/ call.P.class \in {"PrefixOperator", "LessLess", "SemiSemi", "Integral"}
      BY DEF OperatorClasses
    <2> QED  BY <1>1, <1>3, <1>4, <1>5, <2>1, <2>2 DEF P
  <1>6. CASE call.P.class = "Group"
    BY <1>1, <1>3, <1>4, <1>6 DEF OperandClasses
  <1>7. CASE call.P.class = "PrefixToplevelCloser" /\ call.tok.op \in CloserTokens
    BY <1>1, <1>3, <1>7 DEF OperandClasses, OperatorClasses
  <1> QED  BY <1>3, <1>5, <1>6, <1>7

\* parseInfix takes an operator.
LEMMA InfixToken ==
  ASSUME Inv, Fitting, Shaped, Calling("parseInfix")
  PROVE  /\ call.tok \in Token /\ call.tok.op \notin Trivia /\ call.tok.op \notin OperandTokens
         /\ call.tok.hi \in 0..Len(input) /\ call.P.class \notin NeverParsesInfix
  <1>1. call.tok \in Token /\ call.tok.hi \in 0..Len(input)
    BY InfixCall
  <1>2. TokenFits(call)
    BY DEF Shaped, CallShaped
  <1> QED  BY <1>1, <1>2 DEF TokenFits, Calling

\* Who parses an operand, runs or has finished finds the parts it takes.
LEMMA WorkingParts ==
  ASSUME Inv, Fitting, Shaped, call.fn \in WorkingFns
  PROVE  /\ ContextStack # <<>> /\ Parser_topContext \in Context
         /\ NodeStack \in Seq(Node) /\ Len(NodeStack) \in Nat
         /\ Parser_topContext.Index \in Nat /\ Parser_topContext.Index < Len(NodeStack)
         /\ TopShaped(NodeStack, Parser_topContext, call)
         /\ \E parts \in Seq(Label) :
              PartsAre(NodeStack, Parser_topContext.Index, Len(NodeStack), parts)
                /\ Form(call.fn, parts)
  <1>1. ContextStack # <<>>
    <2>1. CASE call.fn \in RunningFns
      BY <2>1, RunningType
    <2>2. CASE call.fn = InnerReduce
      BY <2>2, StackTypes DEF Discipline, ReducingInner
    <2> QED  BY <2>1, <2>2 DEF WorkingFns
  <1>2. /\ NodeStack \in Seq(Node) /\ Len(NodeStack) \in Nat
        /\ Parser_topContext \in Context
        /\ Parser_topContext.Index \in Nat /\ Parser_topContext.Index < Len(NodeStack)
    BY <1>1, FittingParts
  <1>3. TopShaped(NodeStack, Parser_topContext, call)
    BY <1>1 DEF Shaped
  <1>4. Ready(NodeStack, Parser_topContext, call.fn)
    BY <1>3 DEF TopShaped, TopWaits
  <1> QED  BY <1>1, <1>2, <1>3, <1>4 DEF Ready

\* An operand is complete as soon as it is one node.
LEMMA OperandShaped ==
  ASSUME Inv, Inv', Fitting, Shaped, call.fn \in ReadingFns, NEW N \in Node,
         NodeStack' = Append(NodeStack, N), N.kind \in {"Leaf", "Abort"},
         IsOperand(LabelOf(N)), UNCHANGED ContextStack, call'.fn \in CompleteFns,
         ContextStack # <<>> /\ Parser_topContext.F = "CallParselet_reduceCall" =>
           N.kind = "Abort"
  PROVE  Shaped'
  <1> DEFINE ctxt == Parser_topContext
             n == Len(NodeStack)
  <1>1. NodeStack \in Seq(Node) /\ n \in Nat
    BY StackTypes
  <1>2. /\ Grows(NodeStack, NodeStack') /\ Len(NodeStack') = n + 1
        /\ NodeStack'[n + 1] = N /\ Top(NodeStack') = N
    BY <1>1, GrowsByOne
  <1>3. CallShaped(NodeStack', call')
    <2>1. TokenFits(call')
      BY PhasesDiffer DEF TokenFits
    <2> QED  BY <1>2, <2>1 DEF CallShaped
  <1>4. ASSUME ContextStack # <<>> PROVE TopShaped(NodeStack', ctxt, call')
    <2>1. TopShaped(NodeStack, ctxt, call) /\ ctxt \in Context /\ ctxt.Index \in Nat
          /\ ctxt.Index < n
      BY <1>4, FittingParts DEF Shaped
    <2>2. Waiting(NodeStack, ctxt, n)
      BY <2>1 DEF TopShaped, TopWaits
    <2>3. Agree(NodeStack, NodeStack', n)
      BY <1>2 DEF Grows
    <2>4. Waiting(NodeStack', ctxt, n)
      BY <1>1, <2>1, <2>2, <2>3, WaitingKept
    <2>5. Len(NodeStack') - 1 = n
      BY <1>1, <1>2
    <2>6. NodeStack'[ctxt.Index + 1] = NodeStack[ctxt.Index + 1]
      BY <1>1, <2>1, <2>3, AgreeOpens
    <2>7. TopWaits(NodeStack', ctxt, call'.fn)
      BY <2>4, <2>5, PhasesDiffer DEF TopWaits
    <2>8. CloserFits(NodeStack', ctxt, call')
      BY <2>1, <2>6, PhasesDiffer DEF TopShaped, CloserFits
    <2>9. CallWaits(NodeStack', ctxt, call')
      <3>1. ASSUME ctxt.F = "CallParselet_reduceCall"
            PROVE  /\ ctxt.Prec = PRECEDENCE.HIGHEST
                   /\ Top(NodeStack').kind \in GroupKinds \union {"Abort"}
        BY <1>2, <1>4, <2>1, <3>1 DEF TopShaped, CallWaits
      <3> QED  BY <3>1, PhasesDiffer DEF CallWaits
    <2> QED  BY <2>7, <2>8, <2>9 DEF TopShaped
  <1>5. \A k \in (Len(NodeStack) + 1)..Len(NodeStack') :
          NodeStack'[k].kind \in {"Leaf", "Abort"}
    BY <1>1, <1>2
  <1>6. ContextStack' # <<>> => TopShaped(NodeStack', Top(ContextStack'), call')
    BY <1>4 DEF Parser_topContext
  <1> QED  BY <1>2, <1>3, <1>5, <1>6, LevelShaped, SameLevel

\* One part, with the places of the operands.
LEMMA OnePart ==
  ASSUME NEW a \in Label
  PROVE  /\ <<a>> \in Seq(Label) /\ Len(<<a>>) = 1 /\ <<a>>[1] = a
         /\ \A S : OperandsAt(<<a>>, S) <=> (IsOperand(a) <=> 1 \in S)
  <1>1. <<a>> \in Seq(Label) /\ Len(<<a>>) = 1 /\ <<a>>[1] = a
    OBVIOUS
  <1>2. \A i \in 1..Len(<<a>>) : i = 1
    BY <1>1
  <1>3. 1 \in 1..Len(<<a>>)
    BY <1>1
  <1> QED  BY <1>1, <1>2, <1>3 DEF OperandsAt

\* Two parts, with the places of the operands.
LEMMA TwoParts ==
  ASSUME NEW a \in Label, NEW b \in Label
  PROVE  /\ <<a, b>> \in Seq(Label) /\ Len(<<a, b>>) = 2
         /\ <<a, b>>[1] = a /\ <<a, b>>[2] = b
         /\ \A S : OperandsAt(<<a, b>>, S) <=>
                     (IsOperand(a) <=> 1 \in S) /\ (IsOperand(b) <=> 2 \in S)
         /\ <<a, b>> = Append(<<a>>, b)
  <1>1. /\ <<a, b>> \in Seq(Label) /\ Len(<<a, b>>) = 2
        /\ <<a, b>>[1] = a /\ <<a, b>>[2] = b /\ <<a, b>> = Append(<<a>>, b)
    OBVIOUS
  <1>2. \A i \in 1..Len(<<a, b>>) : i = 1 \/ i = 2
    BY <1>1
  <1>3. 1 \in 1..Len(<<a, b>>) /\ 2 \in 1..Len(<<a, b>>)
    BY <1>1
  <1> QED  BY <1>1, <1>2, <1>3 DEF OperandsAt

\* The functions of compound nodes and of prefix operators are no others.
LEMMA FnSets ==
  /\ \A fn \in CompoundFns : fn \notin GroupFns /\ fn # "CallParselet_reduceCall"
  /\ \A fn \in PrefixedFns : fn \notin CompoundFns /\ fn \notin GroupFns
                               /\ fn # "CallParselet_reduceCall"
  /\ \A fn \in GroupFns : fn \notin CompoundFns /\ fn # "CallParselet_reduceCall"
  /\ "GroupParselet_parseLoop" \in GroupFns \ {"GroupParselet_reduceGroup"}
  BY DEF CompoundFns, PrefixedFns, GroupFns, InnerReduce

\* What one part is enough for.
LEMMA FormOfOne ==
  ASSUME NEW a \in Label
  PROVE  /\ IsOperand(a) => Form("parseInfix", <<a>>)
         /\ ~IsOperand(a) => \A fn \in PrefixedFns : Awaits(fn, <<a>>)
         /\ ~IsOperand(a) /\ a[1] = "Leaf" /\ a[2] \in Openers =>
              Form("GroupParselet_parseLoop", <<a>>)
         /\ IsOperand(a) /\ a[1] = "Leaf" => \A fn \in CompoundFns : Awaits(fn, <<a>>)
  <1>1. /\ Len(<<a>>) = 1 /\ <<a>>[1] = a
        /\ \A S : OperandsAt(<<a>>, S) <=> (IsOperand(a) <=> 1 \in S)
    BY OnePart
  <1>2. ASSUME IsOperand(a) PROVE Form("parseInfix", <<a>>)
    <2>1. "parseInfix" \in LinearFns
      BY DEF LinearFns
    <2>2. Lengths("parseInfix") = {1}
      BY LengthOf
    <2>3. Alternates(<<a>>)
      BY <1>1, <1>2, OddFacts DEF Alternates
    <2> QED  BY <1>1, <2>1, <2>2, <2>3, LinearForm
  <1>3. ASSUME ~IsOperand(a), NEW fn \in PrefixedFns PROVE Awaits(fn, <<a>>)
    <2>1. Lengths(fn) = {2} /\ Where(fn, 0) = {2}
      BY LengthOf, WhereOf
    <2>2. OperandsAt(<<a>>, {2})
      BY <1>1, <1>3
    <2>3. EndsFit(fn, <<a>>)
      BY FnSets DEF EndsFit, GroupFns
    <2> QED  BY <1>1, <2>1, <2>2, <2>3 DEF Awaits
  <1>4. ASSUME ~IsOperand(a), a[1] = "Leaf", a[2] \in Openers
        PROVE  Form("GroupParselet_parseLoop", <<a>>)
    <2>1. /\ Lengths("GroupParselet_parseLoop") = Nat \ {0}
          /\ Where("GroupParselet_parseLoop", 1) = Nat \ {0, 1}
      BY FnSets, LengthOf, WhereOf
    <2>2. OperandsAt(<<a>>, Nat \ {0, 1})
      BY <1>1, <1>4
    <2>3. EndsFit("GroupParselet_parseLoop", <<a>>)
      BY <1>1, <1>4, FnSets DEF EndsFit
    <2> QED  BY <1>1, <2>1, <2>2, <2>3 DEF Form
  <1>5. ASSUME IsOperand(a), a[1] = "Leaf", NEW fn \in CompoundFns
        PROVE  Awaits(fn, <<a>>)
    <2>1. Lengths(fn) = {2} /\ Where(fn, 0) = {1, 2}
      BY LengthOf, WhereOf
    <2>2. OperandsAt(<<a>>, {1, 2})
      BY <1>1, <1>5
    <2>3. EndsFit(fn, <<a>>)
      BY <1>1, <1>5, FnSets DEF EndsFit, GroupFns
    <2> QED  BY <1>1, <2>1, <2>2, <2>3 DEF Awaits
  <1> QED  BY <1>2, <1>3, <1>4, <1>5

\* What two parts, the second an operand, are enough for.
LEMMA FormOfTwo ==
  ASSUME NEW a \in Label, NEW b \in Label, IsOperand(b)
  PROVE  /\ <<a, b>> \in Seq(Label)
         /\ ~IsOperand(a) => \A fn \in PrefixedFns : Form(fn, <<a, b>>)
         /\ IsOperand(a) /\ a[1] = "Leaf" => \A fn \in CompoundFns : Form(fn, <<a, b>>)
  <1>1. <<a>> \in Seq(Label) /\ <<a, b>> = Append(<<a>>, b) /\ <<a, b>> \in Seq(Label)
    BY OnePart, TwoParts
  <1>2. \A fn \in PrefixedFns \union CompoundFns :
          fn # "GroupParselet_reduceGroup" /\ fn # "CallParselet_reduceCall"
    BY FnSets DEF GroupFns
  <1>3. ASSUME ~IsOperand(a), NEW fn \in PrefixedFns PROVE Form(fn, <<a, b>>)
    <2>1. Awaits(fn, <<a>>)
      BY <1>3, FormOfOne
    <2> QED  BY <1>1, <1>2, <2>1, Completed
  <1>4. ASSUME IsOperand(a), a[1] = "Leaf", NEW fn \in CompoundFns PROVE Form(fn, <<a, b>>)
    <2>1. Awaits(fn, <<a>>)
      BY <1>4, FormOfOne
    <2> QED  BY <1>1, <1>2, <2>1, Completed
  <1> QED  BY <1>1, <1>3, <1>4

\* The parts of a context that starts with the nodes just taken.
LEMMA NewParts ==
  ASSUME NEW nodes \in Seq(Node), NEW more \in Seq(Node), NEW N, Took(nodes, more, N)
  PROVE  /\ PartsAre(more, Len(nodes), Len(more), <<LabelOf(N)>>)
         /\ LabelOf(N) \in Label /\ <<LabelOf(N)>> \in Seq(Label)
  <1> DEFINE none == <<>>
  <1>1. Len(nodes) \in Nat /\ none \in Seq(Label) /\ Len(nodes) <= Len(nodes)
    OBVIOUS
  <1>2. PartsAre(nodes, Len(nodes), Len(nodes), none)
    BY <1>1, PartsNone
  <1>3. ASSUME LabelOf(N) \in Label
        PROVE  Append(none, LabelOf(N)) = <<LabelOf(N)>> /\ <<LabelOf(N)>> \in Seq(Label)
    BY <1>3
  <1> HIDE DEF none
  <1>4. /\ PartsAre(more, Len(nodes), Len(more), Append(none, LabelOf(N)))
        /\ LabelOf(N) \in Label
    BY <1>1, <1>2, TookParts
  <1> QED  BY <1>3, <1>4

\* Two nodes taken one after the other are two parts.
LEMMA NewPair ==
  ASSUME NEW nodes \in Seq(Node), NEW mid \in Seq(Node), NEW more \in Seq(Node),
         NEW N, NEW M, Took(nodes, mid, N), Took(mid, more, M)
  PROVE  /\ PartsAre(more, Len(nodes), Len(more), <<LabelOf(N), LabelOf(M)>>)
         /\ LabelOf(N) \in Label /\ LabelOf(M) \in Label
  <1>1. /\ PartsAre(mid, Len(nodes), Len(mid), <<LabelOf(N)>>)
        /\ LabelOf(N) \in Label /\ <<LabelOf(N)>> \in Seq(Label)
    BY NewParts
  <1>2. Len(nodes) \in Nat /\ Len(nodes) <= Len(mid)
    BY DEF Took, Grows
  <1>3. /\ PartsAre(more, Len(nodes), Len(more), Append(<<LabelOf(N)>>, LabelOf(M)))
        /\ LabelOf(M) \in Label
    BY <1>1, <1>2, TookParts
  <1>4. Append(<<LabelOf(N)>>, LabelOf(M)) = <<LabelOf(N), LabelOf(M)>>
    BY <1>1, <1>3, TwoParts
  <1> QED  BY <1>1, <1>3, <1>4

\* A call waits for nothing but its group.
LEMMA NoCallWaits ==
  ASSUME Inv, Fitting, Shaped, call.fn \in ReadingFns,
         Calling("parsePrefix") => call.P.class # "Group", ContextStack # <<>>
  PROVE  Parser_topContext.F # "CallParselet_reduceCall"
  <1>1. CallWaits(NodeStack, Parser_topContext, call)
    BY DEF Shaped, TopShaped
  <1>2. call.fn \in ContextSensitiveFns \/ Calling("parsePrefix")
    BY DEF ReadingFns, Calling
  <1> QED  BY <1>1, <1>2 DEF CallWaits, Calling

\* A token is the operand.
LEMMA LeafShaped ==
  ASSUME Inv, Inv', Fitting, Shaped, call.fn \in ReadingFns,
         Calling("parsePrefix") => call.P.class # "Group",
         NEW t \in Token, t.op \in OperandTokens, NodeStack' = Append(NodeStack, t),
         UNCHANGED ContextStack, call'.fn \in CompleteFns
  PROVE  Shaped'
  <1>1. t \in Node /\ t.kind \in {"Leaf", "Abort"} /\ IsOperand(LabelOf(t))
    BY TokenIsLeaf
  <1> QED  BY <1>1, NoCallWaits, OperandShaped

\* The node of an aborted parse stands for an operand.
LEMMA AbortIsOperand ==
  AbortNode \in Node /\ AbortNode.kind = "Abort" /\ IsOperand(LabelOf(AbortNode))
    /\ LabelOf(AbortNode) \in Label /\ LabelOf(AbortNode)[1] = "Abort"
  <1>1. AbortNode \in Node /\ AbortNode.kind = "Abort"
    BY AbortNodeType DEF AbortNode
  <1> QED  BY <1>1, LabelType DEF IsOperand

\* After an abort there is the node of the abort instead.
LEMMA AbortShaped ==
  ASSUME Inv, Inv', Fitting, Shaped, call.fn \in ReadingFns,
         NodeStack' = Append(NodeStack, AbortNode),
         UNCHANGED ContextStack, call'.fn \in CompleteFns
  PROVE  Shaped'
  BY AbortIsOperand, OperandShaped

\* A token put in for an error is an operand.
LEMMA ErrorOperand ==
  ASSUME NEW op \in Errors, NEW t \in Token
  PROVE  /\ Empty(op, t) \in Token /\ Empty(op, t).op \in OperandTokens
         /\ [t EXCEPT !.op = op] \in Token /\ [t EXCEPT !.op = op].op \in OperandTokens
  <1>1. op \in LeafKinds /\ op \in OperandTokens
    BY ErrorKinds, TokenSets
  <1>2. [t EXCEPT !.op = op].op = op
    <2>1. t \in [kind : NodeKinds, op : LeafKinds \union Ops, lo : Nat, hi : Nat,
                 kids : Seq(Label)]
      BY TokenIsNode DEF Node
    <2> QED  BY <2>1
  <1> QED  BY <1>1, <1>2, EmptyType, ReplacedTokenType

\* parsePrefix reads an operand.
LEMMA ReadingPrefix == Calling("parsePrefix") => call.fn \in ReadingFns
  BY DEF Calling, ReadingFns

\* A step to one of these has an operand complete.
LEMMA CompleteNext ==
  ASSUME NEW fn \in CompleteFns, Goto(fn)
  PROVE  call'.fn \in CompleteFns
  BY DEF Goto, Jump

\* The prefix parselets that leave one operand: LeafParselet, the error
\* parselets and the abort.
LEMMA PrefixLeavesShape ==
  ASSUME Inv, Inv', Fitting, Shaped,
         \/ LeafParselet_reduceLeaf \/ PrefixErrorParselet_parsePrefix
         \/ PrefixCloserParselet_parsePrefix \/ PrefixEndOfFileParselet_parsePrefix
         \/ PrefixToplevelCloserParselet_parsePrefix
         \/ PrefixUnsupportedTokenParselet_parsePrefix
         \/ PrefixCommaParselet_parsePrefix \/ UnderDotParselet_parsePrefix
         \/ parsePrefix_abort
  PROVE  Shaped'
  <1>1. {"Parser_parseClimb", "Parser_tryContinue", "return"} \subseteq CompleteFns
    BY DEF CompleteFns
  <1>2. CASE LeafParselet_reduceLeaf \/ UnderDotParselet_parsePrefix
    <2>1. /\ Calling("parsePrefix") /\ call.P.class \in {"Leaf", "UnderDot"}
          /\ NodeStack' = Append(NodeStack, call.tok) /\ Goto("Parser_parseClimb")
          /\ UNCHANGED ContextStack
      BY <1>2 DEF LeafParselet_reduceLeaf, UnderDotParselet_parsePrefix, Prefix, TakeLeaf
    <2>2. call.tok \in Token /\ call.tok.op \in OperandTokens /\ call.P.class # "Group"
      BY <2>1, PrefixToken DEF OperandClasses
    <2> QED  BY <1>1, <2>1, <2>2, ReadingPrefix, CompleteNext, LeafShaped
  <1>3. CASE PrefixErrorParselet_parsePrefix
    <2>1. /\ Calling("parsePrefix") /\ call.P.class = "PrefixError"
          /\ NodeStack' = Append(NodeStack, call.tok) /\ Goto("Parser_tryContinue")
          /\ UNCHANGED ContextStack
      BY <1>3 DEF PrefixErrorParselet_parsePrefix, Prefix, TakeLeaf
    <2>2. call.tok \in Token /\ call.tok.op \in OperandTokens /\ call.P.class # "Group"
      BY <2>1, PrefixToken, TokenSets
    <2> QED  BY <1>1, <2>1, <2>2, ReadingPrefix, CompleteNext, LeafShaped
  <1>4. ASSUME NEW op \in Errors, NEW class \in PrefixClasses \ {"Group"}, Prefix(class),
               \/ NodeStack' = Append(NodeStack, Empty(op, call.tok))
               \/ NodeStack' = Append(NodeStack, [call.tok EXCEPT !.op = op]),
               Goto("Parser_parseClimb") \/ Goto("Parser_tryContinue"),
               UNCHANGED ContextStack
        PROVE  Shaped'
    <2>1. Calling("parsePrefix") /\ call.P.class # "Group" /\ call.tok \in Token
      BY <1>4, PrefixToken DEF Prefix
    <2>2. call'.fn \in CompleteFns /\ call.fn \in ReadingFns
      BY <1>1, <1>4, <2>1, CompleteNext, ReadingPrefix
    <2>3. PICK t \in Token : t.op \in OperandTokens /\ NodeStack' = Append(NodeStack, t)
      BY <1>4, <2>1, ErrorOperand
    <2> QED  BY <1>4, <2>1, <2>2, <2>3, LeafShaped
  <1>5. CASE PrefixCloserParselet_parsePrefix \/ PrefixEndOfFileParselet_parsePrefix
    <2>1. PICK class \in {"PrefixCloser", "PrefixEndOfFile"} :
            /\ Prefix(class) /\ Goto("Parser_tryContinue")
            /\ NodeStack' = Append(NodeStack, MissingOperand(call.tok))
            /\ UNCHANGED ContextStack
      BY <1>5 DEF PrefixCloserParselet_parsePrefix, PrefixEndOfFileParselet_parsePrefix,
                  PushOperandError
    <2>2. PICK op \in {"ERROR_INFIXIMPLICITNULL", "ERROR_EXPECTEDOPERAND"} :
            MissingOperand(call.tok) = Empty(op, call.tok)
      BY DEF MissingOperand
    <2>3. op \in Errors /\ class \in PrefixClasses \ {"Group"}
      BY ErrorKinds DEF PrefixClasses
    <2> QED  BY <1>4, <2>1, <2>2, <2>3
  <1>6. CASE PrefixToplevelCloserParselet_parsePrefix
               \/ PrefixUnsupportedTokenParselet_parsePrefix
    <2>1. PICK class \in {"PrefixToplevelCloser", "PrefixUnsupportedToken"},
               op \in {"ERROR_UNEXPECTEDCLOSER", "ERROR_UNSUPPORTEDTOKEN"} :
            /\ Prefix(class) /\ Goto("Parser_tryContinue")
            /\ NodeStack' = Append(NodeStack, [call.tok EXCEPT !.op = op])
            /\ UNCHANGED ContextStack
      BY <1>6 DEF PrefixToplevelCloserParselet_parsePrefix,
                  PrefixUnsupportedTokenParselet_parsePrefix, PushOperandError
    <2>2. op \in Errors /\ class \in PrefixClasses \ {"Group"}
      BY DEF PrefixClasses, Errors, ParserErrors
    <2> QED  BY <1>4, <2>1, <2>2
  <1>7. CASE PrefixCommaParselet_parsePrefix
    <2>1. PICK op \in {"ERROR_PREFIXIMPLICITNULL", "ERROR_EXPECTEDOPERAND"} :
            /\ Prefix("PrefixComma") /\ Goto("Parser_parseClimb")
            /\ NodeStack' = Append(NodeStack, Empty(op, call.tok))
            /\ UNCHANGED ContextStack
      BY <1>7 DEF PrefixCommaParselet_parsePrefix
    <2>2. op \in Errors /\ "PrefixComma" \in PrefixClasses \ {"Group"}
      BY ErrorKinds DEF PrefixClasses
    <2> QED  BY <1>4, <2>1, <2>2
  <1>8. CASE parsePrefix_abort
    <2>1. /\ Calling("parsePrefix") /\ NodeStack' = Append(NodeStack, AbortNode)
          /\ Goto("Parser_tryContinue") /\ UNCHANGED ContextStack
      BY <1>8 DEF parsePrefix_abort, PushOperandError
    <2> QED  BY <1>1, <2>1, ReadingPrefix, CompleteNext, AbortShaped
  <1> QED  BY <1>2, <1>3, <1>5, <1>6, <1>7, <1>8

\* The part of a pattern that was called for is the operand.
LEMMA ReadsShape ==
  ASSUME Inv, Inv', Fitting, Shaped,
         \/ SymbolParselet_parseInfixContextSensitive
         \/ UnderDotParselet_parseInfixContextSensitive
         \/ ContextSensitive_abort
  PROVE  Shaped'
  <1>1. "return" \in CompleteFns
    BY DEF CompleteFns
  <1>2. CASE SymbolParselet_parseInfixContextSensitive
               \/ UnderDotParselet_parseInfixContextSensitive
    <2>1. /\ call.fn \in ContextSensitiveFns /\ ~Calling("parsePrefix")
          /\ NodeStack' = Append(NodeStack, call.tok) /\ Goto("return")
          /\ UNCHANGED ContextStack
      BY <1>2 DEF SymbolParselet_parseInfixContextSensitive,
                  UnderDotParselet_parseInfixContextSensitive, ContextSensitive,
                  ContextSensitiveFns, Calling, TakeLeaf
    <2>2. call.tok \in Token /\ call.tok.op \in OperandTokens
      BY <2>1, ReadingFacts DEF Shaped, CallShaped, TokenFits
    <2>3. call.fn \in ReadingFns
      BY <2>1 DEF ReadingFns
    <2> QED  BY <1>1, <2>1, <2>2, <2>3, CompleteNext, LeafShaped
  <1>3. CASE ContextSensitive_abort
    <2>1. /\ call.fn \in ReadingFns /\ NodeStack' = Append(NodeStack, AbortNode)
          /\ Goto("return") /\ UNCHANGED ContextStack
      BY <1>3 DEF ContextSensitive_abort, ReadingFns
    <2> QED  BY <1>1, <2>1, CompleteNext, AbortShaped
  <1> QED  BY <1>2, <1>3

\* parsePrefix is called with the parselet of its token.
LEMMA ParsedToken ==
  ASSUME NEW t, t.op \in Tokens \ Trivia, ParsePrefix(t)
  PROVE  call'.fn = "parsePrefix" /\ call'.fn \in ReadingFns /\ TokenFits(call')
  <1>1. call'.fn = "parsePrefix" /\ call'.P = prefixParselets[t.op] /\ call'.tok = t
    BY DEF ParsePrefix, Jump
  <1>2. call'.fn \in ReadingFns /\ call'.fn \notin ContextSensitiveFns
        /\ call'.fn \notin TagFns
    BY <1>1 DEF ReadingFns, ContextSensitiveFns, TagFns
  <1> QED  BY <1>1, <1>2 DEF TokenFits

\* A token that is an operator is no operand.
LEMMA OperatorIsNoOperand ==
  ASSUME NEW tok \in Tokens \ Trivia, infixParselets[tok].class \notin NeverParsesInfix
  PROVE  tok \notin Trivia \union OperandTokens
  <1>1. infixParselets[tok].class \notin {"InfixAssertFalse", "InfixToplevelNewline",
                                         "InfixImplicitTimes", "InfixDifferentialD"}
    BY DEF NeverParsesInfix
  <1> QED  BY <1>1, OperandTablesAssumption

\* parseInfix called for a token that is an operator fits, but for the
\* classes that never run it.
LEMMA CalledForOperator ==
  ASSUME NEW c, c.fn = "parseInfix", c.P.class \notin NeverParsesInfix,
         c.tok.op \notin Trivia \union OperandTokens
  PROVE  TokenFits(c) /\ c.fn \in WorkingFns \ GroupFns
  <1>1. c.fn \notin ContextSensitiveFns /\ c.fn \notin TagFns
    BY DEF ContextSensitiveFns, TagFns
  <1>2. c.fn \in WorkingFns \ GroupFns
    BY DEF WorkingFns, RunningFns, GroupFns
  <1> QED  BY <1>1, <1>2 DEF TokenFits

\* The functions that are called without a token they could be wrong about.
LEMMA CalledForNoToken ==
  ASSUME NEW c, c.fn \in WorkingFns \ (TagFns \union {"parseInfix"})
  PROVE  TokenFits(c)
  BY PhasesDiffer DEF TokenFits

\* A context is entered by a function that runs in it at once ...
LEMMA EntersWorking ==
  ASSUME Inv, Inv', Fitting, Shaped, call.fn \in ReadingFns,
         Calling("parsePrefix") => call.P.class # "Group",
         Grows(NodeStack, NodeStack'), LeavesOnly(NodeStack, NodeStack'),
         NEW ctxt, ContextStack' = Append(ContextStack, ctxt),
         ctxt.Index = Len(NodeStack),
         ctxt.F \notin {"GroupParselet_parseLoop", "CallParselet_reduceCall"},
         call'.fn \in WorkingFns \ GroupFns, TokenFits(call'),
         NEW parts \in Seq(Label), Form(call'.fn, parts),
         PartsAre(NodeStack', Len(NodeStack), Len(NodeStack'), parts)
  PROVE  Shaped'
  <1>1. Ready(NodeStack', ctxt, call'.fn)
    BY DEF Ready
  <1>2. TopWaits(NodeStack', ctxt, call'.fn)
    BY <1>1, PhasesDiffer DEF TopWaits
  <1>3. TopShaped(NodeStack', ctxt, call')
    BY <1>2 DEF TopShaped, CloserFits, CallWaits
  <1>4. CallShaped(NodeStack', call')
    BY PhasesDiffer DEF CallShaped
  <1> QED  BY <1>3, <1>4, NoCallWaits, PushShaped DEF LeavesOnly

\* ... or left waiting for its operand.
LEMMA EntersReading ==
  ASSUME Inv, Inv', Fitting, Shaped, call.fn \in ReadingFns,
         Calling("parsePrefix") => call.P.class # "Group",
         Grows(NodeStack, NodeStack'), LeavesOnly(NodeStack, NodeStack'),
         NEW ctxt, ContextStack' = Append(ContextStack, ctxt),
         ctxt.Index = Len(NodeStack),
         ctxt.F \notin {"GroupParselet_parseLoop", "CallParselet_reduceCall"},
         call'.fn \in ReadingFns, TokenFits(call'),
         NEW parts \in Seq(Label), Awaits(WaitingFn(NodeStack', ctxt), parts),
         PartsAre(NodeStack', Len(NodeStack), Len(NodeStack'), parts)
  PROVE  Shaped'
  <1>1. Waiting(NodeStack', ctxt, Len(NodeStack'))
    BY DEF Waiting
  <1>2. TopWaits(NodeStack', ctxt, call'.fn)
    BY <1>1, PhasesDiffer DEF TopWaits
  <1>3. TopShaped(NodeStack', ctxt, call')
    BY <1>2, PhasesDiffer DEF TopShaped, CloserFits, CallWaits
  <1>4. CallShaped(NodeStack', call')
    BY PhasesDiffer DEF CallShaped
  <1> QED  BY <1>3, <1>4, NoCallWaits, PushShaped DEF LeavesOnly

\* PrefixOperatorParselet::parsePrefix.
LEMMA PrefixOperatorShape ==
  ASSUME Inv, Inv', Fitting, Shaped, PrefixOperatorParselet_parsePrefix
  PROVE  Shaped'
  <1> DEFINE t    == call.tok
             F    == "PrefixOperatorParselet_reducePrefixOperator"
             ctxt == [NewContext(Len(Append(NodeStack, t)) - 1, call.P.prec)
                        EXCEPT !.F = F, !.P = call.P]
  <1>1. /\ Calling("parsePrefix") /\ call.P.class = "PrefixOperator"
        /\ NodeStack' = WithOperator(t)
        /\ ContextStack' = Append(ContextStack, ctxt)
        /\ ParsePrefix(AfterOperator(t))
    BY DEF PrefixOperatorParselet_parsePrefix, Prefix, TakeOperator
  <1>2. /\ t \in Token /\ t.hi \in 0..Len(input) /\ t.op \notin Trivia
        /\ t.op \notin OperandTokens /\ call.fn \in ReadingFns
    BY <1>1, PrefixCall, PrefixToken, ReadingPrefix DEF OperatorClasses
  <1>3. Len(Append(NodeStack, t)) - 1 = Len(NodeStack)
    BY <1>2, StackTypes, WithToken
  <1>4. ctxt.F = F /\ ctxt.Index = Len(NodeStack)
    BY <1>3 DEF NewContext
  <1>5. TriviaEnd(t.hi) \in 0..Len(input)
    BY <1>2, TriviaEndType
  <1>6. AfterOperator(t).op \in Tokens \ Trivia
    BY <1>2, EndOfTrivia DEF AfterOperator
  <1> HIDE DEF t, ctxt
  <1>7. /\ Took(NodeStack, WithOperator(t), t) /\ WithOperator(t) \in Seq(Node)
        /\ LeavesOnly(NodeStack, WithOperator(t)) /\ Grows(NodeStack, WithOperator(t))
    BY <1>2, TakesOperator
  <1> DEFINE parts == <<LabelOf(t)>>
  <1>8. /\ PartsAre(WithOperator(t), Len(NodeStack), Len(WithOperator(t)), parts)
        /\ parts \in Seq(Label) /\ LabelOf(t) \in Label
    BY <1>7, StackTypes, NewParts
  <1>9. Awaits(F, parts)
    BY <1>2, <1>8, TokenIsLeaf, FormOfOne DEF PrefixedFns
  <1>10. WaitingFn(NodeStack', ctxt) = F
    BY <1>4 DEF WaitingFn
  <1>11. call'.fn \in ReadingFns /\ TokenFits(call')
    BY <1>1, <1>6, ParsedToken
  <1> HIDE DEF parts
  <1> QED  BY <1>1, <1>2, <1>4, <1>7, <1>8, <1>9, <1>10, <1>11, EntersReading

\* A leaf before an operator starts the operator's context.
LEMMA LeftLeafShape ==
  ASSUME Inv, Inv', Fitting, Shaped, Calling("parsePrefix"), call.P.class # "Group",
         NEW N \in Token, N.op \in OperandTokens, NEW prec \in Nat,
         NodeStack' = Append(NodeStack, N),
         ContextStack' = Parser_pushContext(Append(NodeStack, N), prec),
         call'.fn = "parseInfix", TokenFits(call')
  PROVE  Shaped'
  <1> DEFINE ctxt == NewContext(Len(NodeStack), prec)
  <1>1. /\ ContextStack' = Append(ContextStack, ctxt)
        /\ ctxt.Index = Len(NodeStack) /\ ctxt.F = "NULL"
    BY EnteredContextFits
  <1>2. N \in Node /\ N.kind = "Leaf" /\ IsOperand(LabelOf(N)) /\ ~LeafIn(N, Trivia)
    BY TokenIsLeaf, TokenSets
  <1>3. /\ Took(NodeStack, Append(NodeStack, N), N) /\ Append(NodeStack, N) \in Seq(Node)
        /\ NodeStack \in Seq(Node)
    BY <1>2, StackTypes, TookOne
  <1>4. /\ LeavesOnly(NodeStack, NodeStack') /\ Grows(NodeStack, NodeStack')
    BY <1>2, <1>3, TookLeaves DEF Took
  <1> DEFINE parts == <<LabelOf(N)>>
  <1>5. /\ PartsAre(NodeStack', Len(NodeStack), Len(NodeStack'), parts)
        /\ parts \in Seq(Label) /\ LabelOf(N) \in Label
    BY <1>3, NewParts
  <1>6. Form("parseInfix", parts)
    BY <1>2, <1>5, FormOfOne
  <1>7. call'.fn \in WorkingFns \ GroupFns
    BY DEF WorkingFns, RunningFns, GroupFns
  <1> HIDE DEF parts, ctxt
  <1> QED  BY <1>1, <1>4, <1>5, <1>6, <1>7, ReadingPrefix, EntersWorking

\* PrefixUnhandledParselet::parsePrefix, which goes on as an infix operator
\* behind an error.
LEMMA PrefixUnhandledShape ==
  ASSUME Inv, Inv', Fitting, Shaped, PrefixUnhandledParselet_parsePrefix
  PROVE  Shaped'
  <1> DEFINE t     == call.tok
             I     == infixParselets[t.op]
             N     == Empty("ERROR_EXPECTEDOPERAND", t)
             nodes == Append(NodeStack, N)
             prec  == getPrecedence(I, nodes)
  <1>1. /\ Calling("parsePrefix") /\ call.P.class = "PrefixUnhandled"
        /\ NodeStack' = nodes
        /\ IF BindsTighterThan(prec)
           THEN Goto("Parser_tryContinue") /\ UNCHANGED ContextStack
           ELSE /\ ContextStack' = Parser_pushContext(nodes, prec)
                /\ Jump("parseInfix", I, t)
    BY DEF PrefixUnhandledParselet_parsePrefix, Prefix
  <1>2. /\ t \in Token /\ t.op \in Tokens \ Trivia /\ call.fn \in ReadingFns
        /\ I.class \notin {"InfixImplicitTimes", "InfixDifferentialD"}
    BY <1>1, PrefixToken, ReadingPrefix
  <1>3. N \in Token /\ N.op \in OperandTokens
    BY <1>2, ErrorKinds, ErrorOperand
  <1>4. CASE BindsTighterThan(prec)
    <2>1. call'.fn \in CompleteFns
      BY <1>1, <1>4 DEF CompleteFns, Goto, Jump
    <2> HIDE DEF N
    <2> QED  BY <1>1, <1>2, <1>3, <1>4, <2>1, LeafShaped
  <1>5. CASE ~BindsTighterThan(prec)
    <2>1. prec \in Nat
      <3>1. t.op \in LeafKinds
        BY <1>2, TokenIsLeaf DEF Token
      <3>2. I \in Parselet
        BY <3>1, TableTypes
      <3> HIDE DEF I, nodes
      <3> QED  BY <3>2, getPrecedenceType
    <2>2. prec > 0
      <3> HIDE DEF prec
      <3> QED  BY <1>5, <2>1, LooserIsPositive
    <2>3. I.class \notin {"InfixAssertFalse", "InfixToplevelNewline"}
      BY <2>2, PrecedenceType DEF getPrecedence
    <2>4. I.class \notin NeverParsesInfix
      BY <1>2, <2>3 DEF NeverParsesInfix
    <2>5. t.op \notin Trivia \union OperandTokens
      BY <1>2, <2>4, OperatorIsNoOperand
    <2>6. call'.fn = "parseInfix" /\ call'.P = I /\ call'.tok = t
      BY <1>1, <1>5 DEF Jump
    <2> HIDE DEF I, t, N, prec
    <2>7. TokenFits(call')
      BY <2>4, <2>5, <2>6, CalledForOperator
    <2> QED  BY <1>1, <1>3, <1>5, <2>1, <2>6, <2>7, LeftLeafShape
  <1> QED  BY <1>4, <1>5

\* SemiSemiParselet::parsePrefix, behind an implicit 1.
LEMMA SemiSemiPrefixShape ==
  ASSUME Inv, Inv', Fitting, Shaped, SemiSemiParselet_parsePrefix
  PROVE  Shaped'
  <1> DEFINE t == call.tok
             N == Empty("FAKE_IMPLICITONE", t)
             I == New("SemiSemi")
  <1>1. /\ Calling("parsePrefix") /\ call.P.class = "SemiSemi"
        /\ NodeStack' = Append(NodeStack, N)
        /\ ContextStack' = Parser_pushContext(Append(NodeStack, N), PRECEDENCE.SEMISEMI)
        /\ call'.fn = "parseInfix" /\ call'.P = I /\ call'.tok = t
    BY DEF SemiSemiParselet_parsePrefix, Prefix, Jump
  <1>2. /\ t \in Token /\ t.op \notin Trivia /\ t.op \notin OperandTokens
    BY <1>1, PrefixToken DEF OperatorClasses
  <1>3. I.class = "SemiSemi"
    BY NewType DEF InfixClasses
  <1>4. N \in Token /\ N.op \in OperandTokens
    <2>1. "FAKE_IMPLICITONE" \in LeafKinds /\ "FAKE_IMPLICITONE" \in OperandTokens
      BY ErrorKinds, TokenSets
    <2> HIDE DEF t
    <2> QED  BY <1>2, <2>1, EmptyType
  <1> HIDE DEF t, N, I
  <1>5. TokenFits(call')
    BY <1>1, <1>2, <1>3, CalledForOperator DEF NeverParsesInfix
  <1>6. PRECEDENCE.SEMISEMI \in Nat
    BY Precedences
  <1> QED  BY <1>1, <1>4, <1>5, <1>6, LeftLeafShape

\* A token that is no trivia, appended.
LEMMA OneLeafTaken ==
  ASSUME Inv, NEW t \in Token, t.op \notin Trivia
  PROVE  /\ Took(NodeStack, Append(NodeStack, t), t) /\ Append(NodeStack, t) \in Seq(Node)
         /\ LeavesOnly(NodeStack, Append(NodeStack, t))
         /\ Grows(NodeStack, Append(NodeStack, t)) /\ NodeStack \in Seq(Node)
  <1>1. t \in Node /\ t.kind = "Leaf" /\ ~LeafIn(t, Trivia) /\ NodeStack \in Seq(Node)
    BY TokenIsLeaf, StackTypes
  <1>2. /\ Took(NodeStack, Append(NodeStack, t), t) /\ Append(NodeStack, t) \in Seq(Node)
    BY <1>1, TookOne
  <1> QED  BY <1>1, <1>2, TookLeaves DEF Took

\* An operator, or a token, and the operand that follows it.
LEMMA TwoTaken ==
  ASSUME Inv, NEW t \in Token, NEW s \in Token, s.op \in OperandTokens,
         NEW mid \in Seq(Node), Took(NodeStack, mid, t), LeavesOnly(NodeStack, mid)
  PROVE  /\ Grows(NodeStack, Append(mid, s)) /\ LeavesOnly(NodeStack, Append(mid, s))
         /\ PartsAre(Append(mid, s), Len(NodeStack), Len(Append(mid, s)),
                     <<LabelOf(t), LabelOf(s)>>)
         /\ <<LabelOf(t), LabelOf(s)>> \in Seq(Label)
         /\ t.op \in OperandTokens =>
              \A fn \in CompoundFns : Form(fn, <<LabelOf(t), LabelOf(s)>>)
         /\ t.op \notin OperandTokens =>
              \A fn \in PrefixedFns : Form(fn, <<LabelOf(t), LabelOf(s)>>)
  <1> DEFINE more == Append(mid, s)
  <1>1. /\ NodeStack \in Seq(Node) /\ s \in Node /\ s.kind = "Leaf"
        /\ ~LeafIn(s, Trivia) /\ IsOperand(LabelOf(s))
    BY TokenIsLeaf, TokenSets, StackTypes
  <1>2. Took(mid, more, s) /\ more \in Seq(Node)
    BY <1>1, TookOne
  <1> HIDE DEF more
  <1>3. /\ PartsAre(more, Len(NodeStack), Len(more), <<LabelOf(t), LabelOf(s)>>)
        /\ LabelOf(t) \in Label /\ LabelOf(s) \in Label
    BY <1>1, <1>2, NewPair
  <1>4. Grows(NodeStack, mid) /\ Grows(mid, more)
    BY <1>2 DEF Took
  <1>5. LeavesOnly(mid, more)
    BY <1>1, <1>2, TookLeaves
  <1>6. Grows(NodeStack, more) /\ LeavesOnly(NodeStack, more)
    BY <1>1, <1>2, <1>4, <1>5, GrowsFurther, LeavesThenLeaves
  <1>7. /\ IsOperand(LabelOf(t)) <=> t.op \in OperandTokens
        /\ LabelOf(t)[1] = "Leaf"
    BY TokenIsLeaf
  <1> QED  BY <1>1, <1>3, <1>6, <1>7, FormOfTwo DEF more

\* IntegralParselet::parsePrefix.
LEMMA IntegralPrefixShape ==
  ASSUME Inv, Inv', Fitting, Shaped, IntegralParselet_parsePrefix
  PROVE  Shaped'
  <1> DEFINE t    == call.tok
             n    == Len(NodeStack)
             Tok  == AfterOperator(t)
             r    == NewContext(n, PRECEDENCE.CLASS_INTEGRATIONOPERATORS)
             one  == Empty("FAKE_IMPLICITONE", Tok)
             F    == "IntegralParselet_parse1"
             ctxt == [r EXCEPT !.F = F, !.P = call.P]
  <1>1. /\ Calling("parsePrefix") /\ call.P.class = "Integral"
        /\ \/ /\ NodeStack' = Append(WithOperator(t), one)
              /\ ContextStack' = Append(ContextStack, r)
              /\ call'.fn = F
           \/ /\ NodeStack' = WithOperator(t)
              /\ ContextStack' = Append(ContextStack, ctxt)
              /\ ParsePrefix(Tok)
    BY DEF IntegralParselet_parsePrefix, Prefix, Jump
  <1>2. /\ t \in Token /\ t.hi \in 0..Len(input) /\ t.op \notin Trivia
        /\ t.op \notin OperandTokens /\ call.fn \in ReadingFns
    BY <1>1, PrefixCall, PrefixToken, ReadingPrefix DEF OperatorClasses
  <1>3. TriviaEnd(t.hi) \in 0..Len(input)
    BY <1>2, TriviaEndType
  <1>4. Tok \in Token /\ Tok.op \in Tokens \ Trivia
    BY <1>2, EndOfTrivia DEF AfterOperator
  <1>5. one \in Token /\ one.op \in OperandTokens
    <2>1. "FAKE_IMPLICITONE" \in LeafKinds /\ "FAKE_IMPLICITONE" \in OperandTokens
      BY ErrorKinds, TokenSets
    <2> HIDE DEF Tok
    <2> QED  BY <1>4, <2>1, EmptyType
  <1>6. r.F = "NULL" /\ r.Index = n /\ ctxt.F = F /\ ctxt.Index = n
    BY DEF NewContext
  <1>7. F \in PrefixedFns /\ F \in WorkingFns \ GroupFns /\ F \notin TagFns /\ F # "parseInfix"
    BY DEF PrefixedFns, WorkingFns, RunningFns, ParseFns, ContextSensitiveFns, GroupFns,
         TagFns
  <1> HIDE DEF t, Tok, r, one, ctxt
  <1>8. /\ Took(NodeStack, WithOperator(t), t) /\ WithOperator(t) \in Seq(Node)
        /\ LeavesOnly(NodeStack, WithOperator(t)) /\ Grows(NodeStack, WithOperator(t))
    BY <1>2, TakesOperator
  <1>9. CASE /\ NodeStack' = Append(WithOperator(t), one)
             /\ ContextStack' = Append(ContextStack, r)
             /\ call'.fn = F
    <2> DEFINE parts == <<LabelOf(t), LabelOf(one)>>
    <2>1. /\ Grows(NodeStack, NodeStack') /\ LeavesOnly(NodeStack, NodeStack')
          /\ PartsAre(NodeStack', n, Len(NodeStack'), parts)
          /\ parts \in Seq(Label) /\ Form(F, parts)
      BY <1>2, <1>5, <1>7, <1>8, <1>9, TwoTaken
    <2>2. TokenFits(call')
      BY <1>7, <1>9, CalledForNoToken
    <2> HIDE DEF parts, F
    <2> QED  BY <1>1, <1>2, <1>6, <1>7, <1>9, <2>1, <2>2, EntersWorking
  <1>10. CASE /\ NodeStack' = WithOperator(t)
              /\ ContextStack' = Append(ContextStack, ctxt)
              /\ ParsePrefix(Tok)
    <2> DEFINE parts == <<LabelOf(t)>>
    <2>1. /\ PartsAre(NodeStack', n, Len(NodeStack'), parts)
          /\ parts \in Seq(Label) /\ LabelOf(t) \in Label
      BY <1>8, <1>10, StackTypes, NewParts
    <2>2. Awaits(F, parts)
      BY <1>2, <1>7, <2>1, TokenIsLeaf, FormOfOne
    <2>3. WaitingFn(NodeStack', ctxt) = F
      BY <1>6 DEF WaitingFn
    <2>4. call'.fn \in ReadingFns /\ TokenFits(call')
      BY <1>4, <1>10, ParsedToken
    <2> HIDE DEF parts
    <2> QED  BY <1>1, <1>2, <1>6, <1>8, <1>10, <2>1, <2>2, <2>3, <2>4, EntersReading
  <1> QED  BY <1>1, <1>9, <1>10

-----------------------------------------------------------------------------
(* Patterns                                                                *)

\* A token and the one after it that belongs to it.
LEMMA PairShape ==
  ASSUME Inv, Inv', Fitting, Shaped, call.fn \in ReadingFns,
         Calling("parsePrefix") => call.P.class # "Group",
         NEW t \in Token, NEW s \in Token, t.op \in OperandTokens, s.op \in OperandTokens,
         NodeStack' = Append(Append(NodeStack, t), s),
         ContextStack' = Parser_pushContext(Append(NodeStack, t), PRECEDENCE.HIGHEST),
         call'.fn \in CompoundFns
  PROVE  Shaped'
  <1> DEFINE ctxt  == NewContext(Len(NodeStack), PRECEDENCE.HIGHEST)
             parts == <<LabelOf(t), LabelOf(s)>>
             mid   == Append(NodeStack, t)
  <1>1. /\ ContextStack' = Append(ContextStack, ctxt)
        /\ ctxt.Index = Len(NodeStack) /\ ctxt.F = "NULL"
    BY Precedences, EnteredContextFits
  <1>2. /\ Took(NodeStack, mid, t) /\ mid \in Seq(Node) /\ LeavesOnly(NodeStack, mid)
    BY TokenSets, OneLeafTaken
  <1> HIDE DEF mid, ctxt
  <1>3. /\ Grows(NodeStack, NodeStack') /\ LeavesOnly(NodeStack, NodeStack')
        /\ PartsAre(NodeStack', Len(NodeStack), Len(NodeStack'), parts)
        /\ parts \in Seq(Label) /\ Form(call'.fn, parts)
    BY <1>2, TwoTaken DEF mid
  <1>4. call'.fn \in WorkingFns \ GroupFns /\ call'.fn \notin TagFns \union {"parseInfix"}
    BY DEF CompoundFns, WorkingFns, RunningFns, ReduceFns, GroupFns, TagFns, InnerReduce
  <1>5. TokenFits(call')
    BY <1>4, CalledForNoToken
  <1> HIDE DEF parts
  <1> QED  BY <1>1, <1>3, <1>4, <1>5, EntersWorking

\* Two tokens that make one operand, as # and its name do.
LEMMA TakePairShape ==
  ASSUME Inv, Inv', Fitting, Shaped, Calling("parsePrefix"),
         call.P.class \in {"Hash", "HashHash", "Percent"}, NEW s \in Token,
         NEW toks \in SUBSET OperandTokens, NEW fn \in CompoundFns,
         TakePair(call.tok, s, toks, fn)
  PROVE  Shaped'
  <1>1. /\ call.tok \in Token /\ call.tok.op \in OperandTokens /\ call.P.class # "Group"
        /\ call.fn \in ReadingFns
    BY PrefixToken, ReadingPrefix DEF OperandClasses
  <1>2. CASE s.op \in toks
    <2>1. /\ NodeStack' = Append(Append(NodeStack, call.tok), s)
          /\ ContextStack' = Parser_pushContext(Append(NodeStack, call.tok),
                                                PRECEDENCE.HIGHEST)
          /\ call'.fn = fn
      BY <1>2 DEF TakePair, EnterContext, Goto, Jump
    <2> QED  BY <1>1, <1>2, <2>1, PairShape
  <1>3. CASE s.op \notin toks
    <2>1. /\ NodeStack' = Append(NodeStack, call.tok) /\ UNCHANGED ContextStack
          /\ call'.fn \in CompleteFns
      BY <1>3 DEF TakePair, CompleteFns, Goto, Jump
    <2> QED  BY <1>1, <2>1, LeafShaped
  <1> QED  BY <1>2, <1>3

\* A token after which a native call reads the next one.
LEMMA TakeAndCallShape ==
  ASSUME Inv, Inv', Fitting, Shaped, call.fn \in ReadingFns,
         Calling("parsePrefix") => call.P.class # "Group",
         NEW t \in Token, t.op \in OperandTokens, NEW s, s.op \in OperandTokens,
         NEW fn \in ContextSensitiveFns, NEW P, NEW reduceFn, NEW reduceP,
         TakeAndCall(t, s, fn, P, reduceFn, reduceP)
  PROVE  Shaped'
  <1> DEFINE ctxt  == NewContext(Len(NodeStack), PRECEDENCE.HIGHEST)
             parts == <<LabelOf(t)>>
             mid   == Append(NodeStack, t)
  <1>1. /\ ContextStack' = Append(ContextStack, ctxt)
        /\ ctxt.Index = Len(NodeStack) /\ ctxt.F = "NULL"
    BY Precedences, EnteredContextFits DEF TakeAndCall, EnterContext
  <1>2. NodeStack' = mid /\ call'.fn = fn /\ call'.tok = s
    BY DEF TakeAndCall, Jump
  <1>3. /\ Took(NodeStack, mid, t) /\ mid \in Seq(Node) /\ LeavesOnly(NodeStack, mid)
        /\ Grows(NodeStack, mid) /\ NodeStack \in Seq(Node)
    BY TokenSets, OneLeafTaken
  <1> HIDE DEF mid, ctxt
  <1>4. /\ PartsAre(mid, Len(NodeStack), Len(mid), parts)
        /\ parts \in Seq(Label) /\ LabelOf(t) \in Label
    BY <1>3, NewParts
  <1>5. Awaits(InnerReduce, parts)
    BY <1>4, TokenIsLeaf, FormOfOne DEF CompoundFns
  <1>6. WaitingFn(NodeStack', ctxt) = InnerReduce
    BY <1>1 DEF WaitingFn
  <1>7. call'.fn \in ReadingFns
    BY <1>2 DEF ReadingFns
  <1>8. TokenFits(call')
    BY <1>2 DEF TokenFits, ContextSensitiveFns, TagFns
  <1> HIDE DEF parts
  <1> QED  BY <1>1, <1>2, <1>3, <1>4, <1>5, <1>6, <1>7, <1>8, EntersReading

\* What _, its neighbours and the tokens behind #, ## and % are is an
\* operand.
LEMMA PatternOperands ==
  Unders \union {"UNDERDOT", "SYMBOL", "INTEGER", "STRING", "ERROR_EXPECTEDLETTERLIKE"}
    \subseteq OperandTokens
  <1>1. "ERROR_EXPECTEDLETTERLIKE" \in Errors
    BY DEF Errors, TokenizerErrors
  <1> QED  BY <1>1 DEF OperandTokens

\* A name with an underscore behind it, or alone.
LEMMA BlankFromShape ==
  ASSUME Inv, Inv', Fitting, Shaped, call.fn \in ReadingFns,
         Calling("parsePrefix") => call.P.class # "Group",
         call.tok \in Token, call.tok.op \in OperandTokens, call.tok.hi \in 0..Len(input),
         NEW reduceFn \in CompoundFns, NEW otherwise \in CompleteFns,
         BlankFrom(reduceFn, otherwise)
  PROVE  Shaped'
  <1> DEFINE t   == call.tok
             Tok == Tokenizer_currentToken(t.hi)
  <1>1. Tok \in Token
    BY TokenAt
  <1>2. CASE Tok.op = "SYMBOL"
    <2>1. TakeAndCall(t, Tok, "SymbolParselet_parseInfixContextSensitive",
                      New("Symbol"), reduceFn, call.P)
      BY <1>2 DEF BlankFrom
    <2>2. Tok.op \in OperandTokens
      BY <1>2, PatternOperands
    <2>3. "SymbolParselet_parseInfixContextSensitive" \in ContextSensitiveFns
      BY DEF ContextSensitiveFns
    <2> HIDE DEF Tok
    <2> QED  BY <1>1, <2>1, <2>2, <2>3, TakeAndCallShape
  <1>3. CASE Tok.op = "ERROR_EXPECTEDLETTERLIKE"
    <2>1. /\ NodeStack' = Append(Append(NodeStack, t), Tok)
          /\ ContextStack' = Parser_pushContext(Append(NodeStack, t), PRECEDENCE.HIGHEST)
          /\ call'.fn = reduceFn
      BY SMTT(60), <1>3 DEF BlankFrom, EnterContext, Jump
    <2>2. Tok.op \in OperandTokens
      BY <1>3, PatternOperands
    <2> HIDE DEF Tok
    <2> QED  BY <1>1, <2>1, <2>2, PairShape
  <1>4. CASE Tok.op \notin {"SYMBOL", "ERROR_EXPECTEDLETTERLIKE"}
    <2>1. /\ NodeStack' = Append(NodeStack, t) /\ UNCHANGED ContextStack
          /\ call'.fn = otherwise
      BY <1>4 DEF BlankFrom, TakeLeaf, Goto, Jump
    <2> QED  BY <2>1, LeafShaped
  <1> QED  BY <1>2, <1>3, <1>4

\* The operands that are made of one token or two: names, underscores, slots
\* and outs.
LEMMA PatternPrefixShape ==
  ASSUME Inv, Inv', Fitting, Shaped,
         \/ SymbolParselet_parsePrefix \/ UnderParselet_parsePrefix
         \/ UnderParselet_parseInfixContextSensitive
         \/ HashParselet_parsePrefix \/ HashHashParselet_parsePrefix
         \/ PercentParselet_parsePrefix
  PROVE  Shaped'
  <1> DEFINE t   == call.tok
             Tok == Tokenizer_currentToken(t.hi)
  <1>1. ASSUME Calling("parsePrefix"), call.P.class \in OperandClasses
        PROVE  /\ t \in Token /\ t.op \in OperandTokens /\ t.hi \in 0..Len(input)
               /\ call.P.class # "Group" /\ call.fn \in ReadingFns
    BY <1>1, PrefixCall, PrefixToken, ReadingPrefix DEF OperandClasses
  <1>2. /\ {"Parser_parseClimb", "return"} \subseteq CompleteFns
        /\ {"UnderParselet_reduceBlank", InnerReduce, "HashParselet_reduceSlot",
            "HashHashParselet_reduceSlotSequence", "PercentParselet_reduceOut"}
             \subseteq CompoundFns
        /\ {"UnderParselet_parseInfixContextSensitive",
            "UnderDotParselet_parseInfixContextSensitive"} \subseteq ContextSensitiveFns
    BY DEF CompleteFns, CompoundFns, ContextSensitiveFns
  <1>3. CASE SymbolParselet_parsePrefix
    <2>1. Calling("parsePrefix") /\ call.P.class = "Symbol"
      BY <1>3 DEF SymbolParselet_parsePrefix, Prefix
    <2>2. /\ t \in Token /\ t.op \in OperandTokens /\ t.hi \in 0..Len(input)
          /\ call.P.class # "Group" /\ call.fn \in ReadingFns
      BY <1>1, <2>1 DEF OperandClasses
    <2>3. \/ /\ Tok.op \in Unders \union {"UNDERDOT"}
             /\ \E fn \in {"UnderParselet_parseInfixContextSensitive",
                           "UnderDotParselet_parseInfixContextSensitive"},
                   P \in {UnderParseletOf(Tok.op), underDotParselet},
                   reduceFn \in {"SymbolParselet_reducePatternBlank",
                                 "SymbolParselet_reducePatternOptionalDefault"} :
                  TakeAndCall(t, Tok, fn, P, reduceFn, P)
          \/ /\ NodeStack' = Append(NodeStack, t) /\ UNCHANGED ContextStack
             /\ call'.fn = "Parser_parseClimb"
      BY <1>3 DEF SymbolParselet_parsePrefix, TakeLeaf, Goto, Jump
    <2>4. CASE Tok.op \in Unders \union {"UNDERDOT"}
                 /\ ~(/\ NodeStack' = Append(NodeStack, t) /\ UNCHANGED ContextStack
                      /\ call'.fn = "Parser_parseClimb")
      <3>1. PICK fn \in {"UnderParselet_parseInfixContextSensitive",
                         "UnderDotParselet_parseInfixContextSensitive"},
                 P \in {UnderParseletOf(Tok.op), underDotParselet},
                 reduceFn \in {"SymbolParselet_reducePatternBlank",
                               "SymbolParselet_reducePatternOptionalDefault"} :
              TakeAndCall(t, Tok, fn, P, reduceFn, P)
        BY <2>3, <2>4
      <3>2. Tok.op \in OperandTokens
        BY <2>4, PatternOperands
      <3>3. fn \in ContextSensitiveFns
        BY <1>2
      <3> HIDE DEF Tok
      <3> QED  BY <2>2, <3>1, <3>2, <3>3, TakeAndCallShape
    <2>5. CASE /\ NodeStack' = Append(NodeStack, t) /\ UNCHANGED ContextStack
               /\ call'.fn = "Parser_parseClimb"
      BY <1>2, <2>2, <2>5, LeafShaped
    <2> QED  BY <2>3, <2>4, <2>5
  <1>4. CASE UnderParselet_parsePrefix
    <2>1. /\ Calling("parsePrefix") /\ call.P.class = "Under"
          /\ BlankFrom("UnderParselet_reduceBlank", "Parser_parseClimb")
      BY <1>4 DEF UnderParselet_parsePrefix, Prefix
    <2>2. /\ t \in Token /\ t.op \in OperandTokens /\ t.hi \in 0..Len(input)
          /\ call.P.class # "Group" /\ call.fn \in ReadingFns
      BY <1>1, <2>1 DEF OperandClasses
    <2> QED  BY <1>2, <2>1, <2>2, BlankFromShape
  <1>5. CASE UnderParselet_parseInfixContextSensitive
    <2>1. /\ call.fn \in ContextSensitiveFns /\ ~Calling("parsePrefix")
          /\ BlankFrom(InnerReduce, "return")
      BY <1>2, <1>5 DEF UnderParselet_parseInfixContextSensitive, Calling, InnerReduce
    <2>2. t \in Token /\ t.op \in OperandTokens /\ t.hi \in 0..Len(input)
      BY <2>1, ReadingFacts DEF Shaped, CallShaped, TokenFits
    <2>3. call.fn \in ReadingFns
      BY <2>1 DEF ReadingFns
    <2> QED  BY <1>2, <2>1, <2>2, <2>3, BlankFromShape
  <1>6. CASE HashParselet_parsePrefix
    <2> DEFINE s == Tokenizer_currentToken_INSIDE_SLOT(t.hi)
    <2>1. /\ Calling("parsePrefix") /\ call.P.class = "Hash"
          /\ TakePair(t, s, {"INTEGER", "STRING"}, "HashParselet_reduceSlot")
      BY <1>6 DEF HashParselet_parsePrefix, Prefix
    <2>2. t.hi \in 0..Len(input) /\ t.hi \in Nat
      BY <1>1, <2>1 DEF OperandClasses
    <2>3. s \in Token
      BY <2>2, StackTypes, SlotTokenType
    <2>4. {"INTEGER", "STRING"} \in SUBSET OperandTokens
      BY PatternOperands
    <2> HIDE DEF s
    <2> QED  BY <1>2, <2>1, <2>3, <2>4, TakePairShape
  <1>7. CASE HashHashParselet_parsePrefix \/ PercentParselet_parsePrefix
    <2>1. PICK fn \in {"HashHashParselet_reduceSlotSequence", "PercentParselet_reduceOut"} :
            /\ Calling("parsePrefix") /\ call.P.class \in {"HashHash", "Percent"}
            /\ TakePair(t, Tok, {"INTEGER"}, fn)
      BY <1>7 DEF HashHashParselet_parsePrefix, PercentParselet_parsePrefix, Prefix
    <2>2. t.hi \in 0..Len(input)
      BY <1>1, <2>1 DEF OperandClasses
    <2>3. Tok \in Token
      BY <2>2, TokenAt
    <2>4. {"INTEGER"} \in SUBSET OperandTokens
      BY PatternOperands
    <2> HIDE DEF Tok
    <2> QED  BY <1>2, <2>1, <2>3, <2>4, TakePairShape
  <1> QED  BY <1>3, <1>4, <1>5, <1>6, <1>7

\* What is passed before a file name is trivia.
LEMMA FileTriviaIsTrivia ==
  ASSUME Inv, NEW p \in 0..Len(input), NEW s \in Seq(Node)
  PROVE  LET more == s \o FileTriviaTokens(p, FileTriviaEnd(p))
         IN TookTrivia(s, more) /\ more \in Seq(Node)
  <1> DEFINE q      == FileTriviaEnd(p)
             trivia == FileTriviaTokens(p, q)
             more   == s \o trivia
  <1>1. input \in Seq(SourceTokens) /\ Len(input) \in Nat
    BY StackTypes
  <1>2. /\ q \in p..Len(input)
        /\ \A r \in p..(q - 1) : KindAt(r) \in {"WHITESPACE"} \union Newlines
    BY <1>1, SkipKindsFacts DEF FileTriviaEnd
  <1> HIDE DEF q
  <1>3. trivia \in Seq(Token) /\ Len(trivia) = q - p
    BY <1>1, <1>2, FileTriviaType
  <1>4. trivia \in Seq(Node)
    BY <1>3, TokensAreNodes
  <1>5. Grows(s, more) /\ more \in Seq(Node)
    <2> HIDE DEF trivia
    <2> QED  BY <1>4, GrowsByMore
  <1>6. ASSUME NEW k \in (Len(s) + 1)..Len(more) PROVE LeafIn(more[k], Trivia)
    <2> DEFINE i == k - Len(s)
               r == p + i - 1
    <2>1. i \in 1..(q - p) /\ more[k] = trivia[i]
      <3> HIDE DEF trivia
      <3> QED  BY <1>3, <1>4
    <2>2. r \in p..(q - 1) /\ r \in Nat
      BY <1>1, <1>2, <2>1
    <2>3. trivia[i] = Tokenizer_currentToken_stringifyAsFile(r)
      BY <2>1 DEF FileTriviaTokens
    <2>4. RawKind(r) \in SourceTokens \union {"ENDOFFILE"}
      BY <1>1, <2>2, RawKindType
    <2>5. KindAt(r) \in {"WHITESPACE"} \union Newlines
      BY <1>2, <2>2
    <2> HIDE DEF r
    <2>6. RawKind(r) \in {"NEWLINE", "WHITESPACE"}
      BY <2>4, <2>5 DEF KindAt, SourceTokens, Newlines
    <2>7. \/ trivia[i] = Leaf("TOPLEVELNEWLINE", r, r + 1)
          \/ trivia[i] = Leaf("WHITESPACE", r, r + 1)
      BY <2>3, <2>6 DEF Tokenizer_currentToken_stringifyAsFile, FileNameTokens, Unders
    <2> HIDE DEF trivia, i
    <2> QED  BY <2>1, <2>7 DEF Leaf, LeafIn, Trivia, Newlines
  <1> QED  BY <1>5, <1>6 DEF TookTrivia, q

\* What is read for a file name is an operand.
LEMMA FileIsOperand ==
  ASSUME Inv, NEW p \in 0..Len(input)
  PROVE  LET file == Tokenizer_currentToken_stringifyAsFile(FileTriviaEnd(p))
         IN file \in Token /\ file.op \in OperandTokens
  <1> DEFINE q    == FileTriviaEnd(p)
             file == Tokenizer_currentToken_stringifyAsFile(q)
  <1>1. input \in Seq(SourceTokens) /\ Len(input) \in Nat
    BY StackTypes
  <1>2. /\ q \in p..Len(input)
        /\ q = Len(input) \/ KindAt(q) \notin {"WHITESPACE"} \union Newlines
    BY <1>1, SkipKindsFacts DEF FileTriviaEnd
  <1>3. KindAt(Len(input)) = "ENDOFFILE"
    BY <1>1, EndIsNoTrivia
  <1> HIDE DEF q
  <1>4. q \in 0..Len(input) /\ q \in Nat /\ KindAt(q) \notin {"WHITESPACE"} \union Newlines
    BY <1>1, <1>2, <1>3 DEF Newlines
  <1>5. file \in Token
    BY <1>1, <1>4, FileTokenType
  <1>6. RawKind(q) \notin {"NEWLINE", "WHITESPACE"}
    BY <1>4 DEF KindAt, Newlines
  <1>7. file.op \in {"STRING", "ERROR_EXPECTEDFILE"}
    BY <1>6 DEF Tokenizer_currentToken_stringifyAsFile, Leaf
  <1>8. {"STRING", "ERROR_EXPECTEDFILE"} \subseteq OperandTokens
    <2>1. "ERROR_EXPECTEDFILE" \in Errors
      BY DEF Errors, ParserErrors
    <2> QED  BY <2>1 DEF OperandTokens
  <1> HIDE DEF file
  <1> QED  BY <1>5, <1>7, <1>8 DEF file, q

\* An operator and the file name after it.
LEMMA FileTaken ==
  ASSUME Inv, NEW t \in Token, t.hi \in 0..Len(input), t.op \notin Trivia, NEW fn,
         TakeFile(t, fn)
  PROVE  /\ call'.fn = fn
         /\ \E mid \in Seq(Node), file \in Token :
              /\ Took(NodeStack, mid, t) /\ LeavesOnly(NodeStack, mid)
              /\ NodeStack' = Append(mid, file) /\ file.op \in OperandTokens
  <1> DEFINE q      == FileTriviaEnd(t.hi)
             file   == Tokenizer_currentToken_stringifyAsFile(q)
             trivia == FileTriviaTokens(t.hi, q)
             taken  == Append(NodeStack, t)
             mid    == taken \o trivia
  <1>1. NodeStack' = mid \o <<file>> /\ call'.fn = fn
    BY DEF TakeFile, Goto, Jump
  <1>2. /\ Took(NodeStack, taken, t) /\ taken \in Seq(Node) /\ NodeStack \in Seq(Node)
    BY OneLeafTaken
  <1> HIDE DEF taken
  <1>3. TookTrivia(taken, mid) /\ mid \in Seq(Node)
    BY <1>2, FileTriviaIsTrivia
  <1>4. file \in Token /\ file.op \in OperandTokens
    BY FileIsOperand
  <1> HIDE DEF mid, file, trivia, q
  <1>5. Took(NodeStack, mid, t)
    BY <1>2, <1>3, TookThenTrivia
  <1>6. LeavesOnly(NodeStack, mid)
    BY <1>5, TookLeaves, TokenIsLeaf
  <1>7. NodeStack' = Append(mid, file)
    BY <1>1, <1>3, <1>4, TokenIsNode
  <1> QED  BY <1>1, <1>3, <1>4, <1>5, <1>6, <1>7

\* LessLessParselet::parsePrefix and the file name behind it.
LEMMA LessLessPrefixShape ==
  ASSUME Inv, Inv', Fitting, Shaped, LessLessParselet_parsePrefix
  PROVE  Shaped'
  <1> DEFINE t    == call.tok
             ctxt == NewContext(Len(NodeStack), PRECEDENCE.HIGHEST)
             F    == "LessLessParselet_reduceGet"
  <1>1. /\ Calling("parsePrefix") /\ call.P.class = "LessLess" /\ TakeFile(t, F)
        /\ ContextStack' = Append(ContextStack, ctxt)
    BY DEF LessLessParselet_parsePrefix, Prefix
  <1>2. /\ t \in Token /\ t.hi \in 0..Len(input) /\ t.op \notin Trivia
        /\ t.op \notin OperandTokens /\ call.fn \in ReadingFns
    BY <1>1, PrefixCall, PrefixToken, ReadingPrefix DEF OperatorClasses
  <1>3. ctxt.F = "NULL" /\ ctxt.Index = Len(NodeStack)
    BY DEF NewContext
  <1>4. F \in PrefixedFns /\ F \in WorkingFns \ GroupFns /\ F \notin TagFns /\ F # "parseInfix"
    BY DEF PrefixedFns, WorkingFns, RunningFns, ReduceFns, GroupFns, TagFns, InnerReduce
  <1> HIDE DEF t, ctxt
  <1>5. PICK mid \in Seq(Node), file \in Token :
          /\ Took(NodeStack, mid, t) /\ LeavesOnly(NodeStack, mid)
          /\ NodeStack' = Append(mid, file) /\ file.op \in OperandTokens
    BY <1>1, <1>2, FileTaken
  <1>6. call'.fn = F
    BY <1>1, <1>2, FileTaken
  <1> DEFINE parts == <<LabelOf(t), LabelOf(file)>>
  <1>7. /\ Grows(NodeStack, NodeStack') /\ LeavesOnly(NodeStack, NodeStack')
        /\ PartsAre(NodeStack', Len(NodeStack), Len(NodeStack'), parts)
        /\ parts \in Seq(Label) /\ Form(F, parts)
    BY <1>2, <1>4, <1>5, TwoTaken
  <1>8. TokenFits(call')
    BY <1>4, <1>6, CalledForNoToken
  <1> HIDE DEF parts, F
  <1> QED  BY <1>1, <1>2, <1>3, <1>4, <1>6, <1>7, <1>8, EntersWorking

\* GroupParselet::parsePrefix.
LEMMA GroupPrefixShape ==
  ASSUME Inv, Inv', Fitting, Shaped, GroupParselet_parsePrefix
  PROVE  Shaped'
  <1> DEFINE t    == call.tok
             P    == call.P
             loop == "GroupParselet_parseLoop"
             n    == Len(NodeStack)
             ctxt == GroupContext(loop, P)
             part == LabelOf(t)
  <1>1. /\ Calling("parsePrefix") /\ P.class = "Group"
        /\ NodeStack' = Append(NodeStack, t) /\ call'.fn = loop /\ call'.P = P
    BY DEF GroupParselet_parsePrefix, Prefix, TakeLeaf, Jump
  <1>2. /\ t \in Token /\ t.op \in Openers /\ t.op \notin Trivia
        /\ t.op \notin OperandTokens /\ call.fn \in ReadingFns
        /\ P.closer = GroupOpenerToCloser(t.op) /\ NodeStack \in Seq(Node)
    BY <1>1, PrefixCall, PrefixToken, ReadingPrefix DEF OperatorClasses
  <1>3. ContextStack' = Append(ContextStack, ctxt)
    <2>1. Len(Append(NodeStack, t)) - 1 = Len(NodeStack)
      BY <1>2, WithToken
    <2> QED  BY <2>1 DEF GroupParselet_parsePrefix, GroupContext
  <1>4. /\ ctxt.Index = n /\ (ctxt.F = loop \/ ctxt.F = "Parser_identity")
        /\ (ctxt.F = loop => ctxt.P = P)
    <2>1. ctxt.Index = n /\ GroupMark(ctxt) /\ (USE_MUSTTAIL => ctxt.P = P)
      BY GroupContextFields
    <2>2. ~USE_MUSTTAIL => ctxt.F = "Parser_identity"
      BY DEF GroupContext, NewContext
    <2> HIDE DEF ctxt
    <2> QED  BY <2>1, <2>2 DEF GroupMark
  <1>5. loop \in WorkingFns /\ loop \notin TagFns \union {"parseInfix"}
    BY DEF WorkingFns, RunningFns, LoopFns, TagFns
  <1> HIDE DEF ctxt, t
  <1>6. /\ Took(NodeStack, NodeStack', t) /\ NodeStack' \in Seq(Node)
        /\ LeavesOnly(NodeStack, NodeStack') /\ Grows(NodeStack, NodeStack')
    BY <1>1, <1>2, OneLeafTaken
  <1>7. NodeStack'[n + 1] = t
    BY <1>1, <1>2, TokenIsLeaf
  <1>8. /\ PartsAre(NodeStack', n, Len(NodeStack'), <<part>>)
        /\ <<part>> \in Seq(Label) /\ part \in Label
    BY <1>2, <1>6, NewParts
  <1>9. Form(loop, <<part>>)
    BY <1>2, <1>8, TokenIsLeaf, FormOfOne
  <1>10. Ready(NodeStack', ctxt, loop)
    BY <1>4, <1>8, <1>9 DEF Ready
  <1>11. TopWaits(NodeStack', ctxt, call'.fn)
    BY <1>1, <1>5, <1>10, PhasesDiffer DEF TopWaits
  <1>12. CloserFits(NodeStack', ctxt, call')
    BY <1>1, <1>2, <1>4, <1>7 DEF CloserFits
  <1>13. CallWaits(NodeStack', ctxt, call')
    BY <1>4 DEF CallWaits
  <1>14. CallShaped(NodeStack', call')
    BY <1>1, <1>5, PhasesDiffer, CalledForNoToken DEF CallShaped
  <1>15. Opens(NodeStack', ctxt)
    BY <1>2, <1>4, <1>7, TokenIsLeaf DEF Opens
  <1>16. TopShaped(NodeStack', ctxt, call')
    BY <1>11, <1>12, <1>13 DEF TopShaped
  <1> HIDE DEF loop, P
  <1> QED  BY <1>2, <1>3, <1>4, <1>6, <1>14, <1>15, <1>16, PushShaped DEF LeavesOnly

-----------------------------------------------------------------------------
(* From one complete operand to another, and the top level                 *)

\* A step that leaves the stacks and the call alone.
LEMMA UnchangedShape ==
  ASSUME Shaped, UNCHANGED <<NodeStack, ContextStack, call>> PROVE Shaped'
  <1>1. Parser_topContext' = Parser_topContext
    BY DEF Parser_topContext
  <1>2. WellFormed'
    BY DEF Shaped, WellFormed
  <1> QED  BY <1>1, <1>2 DEF Shaped

\* The operand stays, and the context still waits for it.
LEMMA CompleteShape ==
  ASSUME Inv, Inv', Fitting, Shaped, call.fn \in CompleteFns, call'.fn \in CompleteFns,
         UNCHANGED <<NodeStack, ContextStack>>
  PROVE  Shaped'
  <1>1. WellFormed'
    BY DEF Shaped, WellFormed
  <1>2. CallShaped(NodeStack', call')
    <2>1. TokenFits(call')
      BY PhasesDiffer DEF TokenFits
    <2> QED  BY <2>1 DEF Shaped, CallShaped
  <1>3. ASSUME ContextStack # <<>> PROVE TopShaped(NodeStack', Parser_topContext, call')
    <2> DEFINE ctxt == Parser_topContext
    <2>1. TopShaped(NodeStack, ctxt, call)
      BY <1>3 DEF Shaped
    <2> HIDE DEF ctxt
    <2>2. TopWaits(NodeStack', ctxt, call'.fn)
      BY <2>1, PhasesDiffer DEF TopShaped, TopWaits
    <2>3. CloserFits(NodeStack', ctxt, call')
      BY <2>1, PhasesDiffer DEF TopShaped, CloserFits
    <2>4. CallWaits(NodeStack', ctxt, call')
      <3>1. ASSUME ctxt.F = "CallParselet_reduceCall"
            PROVE  /\ ctxt.Prec = PRECEDENCE.HIGHEST
                   /\ Top(NodeStack').kind \in GroupKinds \union {"Abort"}
        BY <2>1, <3>1 DEF TopShaped, CallWaits
      <3> QED  BY <3>1, PhasesDiffer DEF CallWaits
    <2> QED  BY <2>2, <2>3, <2>4 DEF TopShaped, ctxt
  <1>4. Parser_topContext' = Parser_topContext
    BY DEF Parser_topContext
  <1> QED  BY <1>1, <1>2, <1>3, <1>4 DEF Shaped

\* ParserSession::concreteParse starts an expression on an empty stack.
LEMMA concreteParseShape ==
  ASSUME Inv, Inv', Fitting, Shaped, concreteParse PROVE Shaped'
  <1> DEFINE peek == Tokenizer_currentToken(buffer)
  <1>1. peek.op \in Tokens
    <2>1. input \in Seq(SourceTokens) /\ buffer \in Nat
      BY StackTypes
    <2> QED  BY <2>1, CurrentTokenType
  <1>2. ContextStack = <<>> /\ Calling("concreteParse")
        /\ UNCHANGED <<NodeStack, ContextStack>>
    BY HeadType DEF concreteParse
  <1>3. CASE UNCHANGED call
    BY <1>2, <1>3, UnchangedShape
  <1>4. CASE ~UNCHANGED call
    <2>1. call'.fn \in {"parsePrefix", "done"} /\ TokenFits(call')
      <3>1. CASE Goto("done")
        BY <3>1 DEF Goto, Jump, TokenFits, ContextSensitiveFns, TagFns
      <3>2. CASE /\ peek.op \in CloserTokens
                 /\ Jump("parsePrefix", prefixToplevelCloserParselet, peek)
        <4>1. /\ call'.fn = "parsePrefix" /\ call'.P = prefixToplevelCloserParselet
              /\ call'.tok = peek
          BY <3>2 DEF Jump
        <4>2. call'.P.class = "PrefixToplevelCloser"
          BY <4>1 DEF prefixToplevelCloserParselet, New
        <4>3. peek.op \notin Trivia
          BY <3>2, TokenSets
        <4> HIDE DEF peek
        <4>4. call'.fn \notin ContextSensitiveFns \union TagFns
          BY <4>1 DEF ContextSensitiveFns, TagFns
        <4> QED  BY <1>1, <3>2, <4>1, <4>2, <4>3, <4>4 DEF TokenFits
      <3>3. CASE peek.op \notin Trivia /\ ParsePrefix(peek)
        <4> HIDE DEF peek
        <4> QED  BY <1>1, <3>3, ParsedToken
      <3> QED  BY <1>4, <3>1, <3>2, <3>3 DEF concreteParse
    <2>2. call'.fn \notin CompleteFns
      BY <2>1 DEF CompleteFns
    <2>3. CallShaped(NodeStack', call')
      BY <2>1, <2>2 DEF CallShaped
    <2>4. WellFormed' /\ LowerFits(NodeStack', ContextStack')
      BY <1>2 DEF Shaped, WellFormed
    <2> QED  BY <1>2, <2>3, <2>4 DEF Shaped
  <1> QED  BY <1>3, <1>4

\* ParserSession::concreteParse takes a token at top level.
LEMMA concreteParse_pushShape ==
  ASSUME Inv, Inv', Fitting, Shaped, concreteParse_push PROVE Shaped'
  <1>1. UNCHANGED ContextStack /\ frames = <<>> /\ call'.fn = "concreteParse"
        /\ NodeStack' = Pop(NodeStack)
    BY DEF concreteParse_push, Goto, Jump
  <1>2. ContextStack = <<>>
    <2>1. Returning(Len(NodeStack), ContextStack, <<>>)
      BY <1>1, StackTypes DEF concreteParse_push, Calling, Discipline
    <2> QED  BY <2>1, StackTypes, ReturnToTop
  <1>3. NodeStack \in Seq(Node) /\ Len(NodeStack) = 1
    BY <1>2, StackTypes DEF concreteParse_push, Calling, Discipline, Returning, HasOperand
  <1>4. Len(NodeStack') = 0
    BY <1>1, <1>3 DEF Pop
  <1>5. WellFormed'
    BY <1>4 DEF WellFormed
  <1>6. LowerFits(NodeStack', ContextStack')
    BY <1>1, <1>2 DEF LowerFits
  <1>7. CallShaped(NodeStack', call')
    BY <1>1 DEF CallShaped, TokenFits, CompleteFns, ContextSensitiveFns, TagFns
  <1> QED  BY <1>1, <1>2, <1>5, <1>6, <1>7 DEF Shaped

\* Parser_parseClimb when the parse is aborted.
LEMMA Parser_parseClimb_abortShape ==
  ASSUME Inv, Inv', Fitting, Shaped, Parser_parseClimb_abort PROVE Shaped'
  <1>1. call.fn \in CompleteFns /\ call'.fn \in CompleteFns
        /\ UNCHANGED <<NodeStack, ContextStack>>
    BY DEF Parser_parseClimb_abort, Calling, Goto, Jump, CompleteFns
  <1> QED  BY <1>1, CompleteShape

-----------------------------------------------------------------------------
(* Climbing                                                                *)

\* The parselet that parseClimb finds at p, and that it calls.
ClimbAt(p) ==
  LET peek == Tokenizer_currentToken(p)
  IN processImplicitTimes(infixParselets[peek.op], peek)

\* A call keeps its own token, and never an implicit one of a product, when
\* its parselet has no infix meaning but ends the expression.
LEMMA ClimbFinds ==
  ASSUME Inv, Fitting, NEW p \in 0..Len(input),
         Tokenizer_currentToken(p).op \in Tokens \ TriviaButNotToplevelNewline
  PROVE  LET t == ClimbAt(p)
             I == infixParselets[t.op]
         IN /\ t \in Token /\ I \in Parselet
            /\ I.class # "InfixImplicitTimes"
            /\ ~BindsTighterThan(getPrecedence(I, NodeStack)) =>
                 /\ I.class \notin NeverParsesInfix
                 /\ t.op \notin Trivia \union OperandTokens
                 /\ getPrecedence(I, NodeStack) <= PRECEDENCE.HIGHEST
  <1> DEFINE peek == Tokenizer_currentToken(p)
             J    == infixParselets[peek.op]
             t    == processImplicitTimes(J, peek)
             I    == infixParselets[t.op]
             prec == getPrecedence(I, NodeStack)
  <1>1. t \in Token /\ t.op \in LeafKinds
    BY processImplicitTimesType
  <1>2. I \in Parselet /\ I.prec \in Nat
    BY <1>1, TableTypes, ParseletFields
  <1>3. FAKE_IMPLICITTIMES(peek).op = "FAKE_IMPLICITTIMES"
    BY DEF FAKE_IMPLICITTIMES, Empty, Leaf
  <1>4. prec \in Nat
    BY <1>2, getPrecedenceType
  <1>5. ~BindsTighterThan(prec) => prec > 0
    BY <1>4, LooserIsPositive
  <1>6. CASE t = FAKE_IMPLICITTIMES(peek)
    <2>1. t.op = "FAKE_IMPLICITTIMES"
      BY <1>3, <1>6
    <2>2. I.class = "Times" /\ I.prec <= PRECEDENCE.HIGHEST
      BY <2>1, OperandTablesAssumption
    <2>3. "FAKE_IMPLICITTIMES" \notin Trivia \union OperandTokens
      BY DEF Trivia, Newlines, OperandTokens, Unders, Errors, TokenizerErrors, ParserErrors,
             Fakes
    <2> HIDE DEF I, t
    <2>4. prec = I.prec
      BY <2>2 DEF getPrecedence
    <2> QED  BY <1>1, <1>2, <2>1, <2>2, <2>3, <2>4 DEF NeverParsesInfix, I, t, ClimbAt
  <1>7. CASE t # FAKE_IMPLICITTIMES(peek)
    <2>1. /\ t = peek /\ J.class # "InfixImplicitTimes"
          /\ J.class = "InfixDifferentialD" =>
               Parser_topPrecedence = PRECEDENCE.CLASS_INTEGRATIONOPERATORS
      BY <1>7 DEF processImplicitTimes
    <2>2. I = J
      BY <2>1
    <2>3. ASSUME prec > 0
          PROVE  /\ I.class \notin NeverParsesInfix
                 /\ t.op \notin Trivia \union OperandTokens
                 /\ prec <= PRECEDENCE.HIGHEST
      <3> HIDE DEF I, J, t, peek
      <3>1. I.class \notin NeverParsesInfix
        BY <2>1, <2>2, <2>3 DEF NeverParsesInfix, getPrecedence, PRECEDENCE
      <3>2. t.op # "TOPLEVELNEWLINE"
        BY <3>1, OperandTablesAssumption DEF NeverParsesInfix, I
      <3>3. t.op \in Tokens \ Trivia
        BY <2>1, <3>2 DEF TriviaButNotToplevelNewline, peek
      <3>4. t.op \notin Trivia \union OperandTokens
        BY <3>1, <3>3, OperatorIsNoOperand DEF I
      <3>5. I.prec <= PRECEDENCE.HIGHEST
        BY <3>1, <3>3, OperandTablesAssumption DEF NeverParsesInfix, I
      <3>6. prec <= PRECEDENCE.HIGHEST
        BY <1>2, <3>1, <3>5 DEF getPrecedence, PRECEDENCE, NeverParsesInfix
      <3> QED  BY <3>1, <3>4, <3>6
    <2> HIDE DEF prec
    <2> QED  BY <1>1, <1>2, <1>5, <2>1, <2>2, <2>3 DEF ClimbAt, prec
  <1> QED  BY <1>6, <1>7

\* An operand is not trivia.
LEMMA OperandIsNoTrivia ==
  ASSUME NEW N, IsOperand(LabelOf(N)) PROVE ~LeafIn(N, Trivia)
  <1>1. LabelOf(N)[1] = N.kind /\ LabelOf(N)[2] = N.op
    BY DEF LabelOf
  <1> QED  BY <1>1, TokenSets DEF IsOperand, LeafIn

\* The operand that is complete becomes the first part of a context.
LEMMA OperandAlone ==
  ASSUME NEW nodes \in Seq(Node), Len(nodes) \in Nat \ {0}, IsOperand(LabelOf(Top(nodes)))
  PROVE  LET parts == <<LabelOf(Top(nodes))>>
         IN /\ PartsAre(nodes, Len(nodes) - 1, Len(nodes), parts)
            /\ parts \in Seq(Label) /\ LabelOf(Top(nodes)) \in Label
  <1> DEFINE n     == Len(nodes)
             b     == n - 1
             none  == <<>>
             label == LabelOf(Top(nodes))
  <1>1. b \in Nat /\ b + 1 = n /\ n \in Nat /\ n \in 1..n
    OBVIOUS
  <1>2. Top(nodes) = nodes[b + 1] /\ Top(nodes) \in Node
    BY <1>1 DEF Top
  <1>3. label \in Label
    BY <1>2, NodeFields DEF LabelOf, Label
  <1>4. none \in Seq(Label) /\ Append(none, label) = <<label>>
    OBVIOUS
  <1>5. PartsAre(nodes, b, b, none)
    BY <1>1, PartsNone
  <1>6. ~LeafIn(nodes[b + 1], Trivia)
    BY <1>2, OperandIsNoTrivia
  <1>7. LabelOf(nodes[b + 1]) = label
    BY <1>2
  <1> HIDE DEF b, none, label
  <1>8. PartsAre(nodes, b, b + 1, Append(none, label)) /\ Append(none, label) \in Seq(Label)
    <2>1. LabelOf(nodes[b + 1]) \in Label /\ b <= b
      BY <1>1, <1>3, <1>7
    <2>2. /\ PartsAre(nodes, b, b + 1, Append(none, LabelOf(nodes[b + 1])))
          /\ Append(none, LabelOf(nodes[b + 1])) \in Seq(Label)
      BY <1>1, <1>4, <1>5, <1>6, <2>1, PartsOne
    <2> QED  BY <1>7, <2>2
  <1> QED  BY <1>1, <1>3, <1>4, <1>8 DEF b, label

\* Parser_parseClimb, which calls the infix parselet or continues.
LEMMA Parser_parseClimbShape ==
  ASSUME Inv, Inv', Fitting, Shaped, Parser_parseClimb PROVE Shaped'
  <1> DEFINE q    == TriviaButNotToplevelNewlinesEnd(buffer)
             n    == Len(NodeStack)
             t    == ClimbAt(q)
             I    == infixParselets[t.op]
             prec == getPrecedence(I, NodeStack)
             ctxt == NewContext(n - 1, prec)
             more == NodeStack \o TriviaTokens(buffer, q)
  <1>1. /\ Calling("Parser_parseClimb") /\ call.fn \in CompleteFns
        /\ IF BindsTighterThan(prec)
           THEN call'.fn = "Parser_tryContinue" /\ UNCHANGED <<NodeStack, ContextStack>>
           ELSE /\ ContextStack' = Append(ContextStack, ctxt)
                /\ NodeStack' = more
                /\ call'.fn = "parseInfix" /\ call'.P = I /\ call'.tok = t
    BY DEF Parser_parseClimb, ClimbAt, Parser_pushContext, Goto, Jump, Calling, CompleteFns
  <1>2. CASE BindsTighterThan(prec)
    <2>1. call'.fn \in CompleteFns /\ UNCHANGED <<NodeStack, ContextStack>>
      BY <1>1, <1>2 DEF CompleteFns
    <2> QED  BY <1>1, <2>1, CompleteShape
  <1>3. CASE ~BindsTighterThan(prec)
    <2>1. /\ ContextStack' = Append(ContextStack, ctxt) /\ NodeStack' = more
          /\ call'.fn = "parseInfix" /\ call'.P = I /\ call'.tok = t
      BY <1>1, <1>3
    <2>2. buffer \in 0..Len(input) /\ NodeStack \in Seq(Node) /\ n \in Nat
      BY StackTypes
    <2>3. /\ TookTrivia(NodeStack, more) /\ more \in Seq(Node) /\ q \in 0..Len(input)
      BY <2>2, TakesTrivia
    <2>4. /\ t \in Token /\ I \in Parselet /\ I.class \notin NeverParsesInfix
          /\ t.op \notin Trivia \union OperandTokens /\ prec <= PRECEDENCE.HIGHEST
      <3>1. Tokenizer_currentToken(q).op \in Tokens \ TriviaButNotToplevelNewline
        BY <2>2, EndOfTrivia
      <3> HIDE DEF q
      <3> QED  BY <1>3, <2>3, <3>1, ClimbFinds
    <2>5. prec \in Nat
      BY <2>4, getPrecedenceType
    <2>6. ctxt.Index = n - 1 /\ ctxt.F = "NULL"
      BY DEF NewContext
    <2>7. n \in Nat \ {0} /\ IsOperand(LabelOf(Top(NodeStack)))
      <3>1. HasOperand(n, ContextStack)
        BY <1>1, StackTypes DEF Discipline, Calling, Complete
      <3>2. ContextStack # <<>> => Top(ContextStack).Index \in Nat
        BY FittingParts
      <3>3. IsOperand(LabelOf(Top(NodeStack)))
        BY <1>1 DEF Shaped, CallShaped
      <3> QED  BY <2>2, <3>1, <3>2, <3>3, OperandIsThere
    <2>8. ContextStack # <<>> => Parser_topContext.F # "CallParselet_reduceCall"
      <3>1. ASSUME ContextStack # <<>>, Parser_topContext.F = "CallParselet_reduceCall"
            PROVE  FALSE
        <4>1. Parser_topContext.Prec = PRECEDENCE.HIGHEST
          BY <3>1 DEF Shaped, TopShaped, CallWaits
        <4>2. RightBit(Parser_topPrecedence) = 57
          BY <3>1, <4>1 DEF Parser_topPrecedence, RightBit, PRECEDENCE
        <4> HIDE DEF prec
        <4> QED  BY <1>3, <2>4, <2>5, <4>2 DEF BindsTighterThan, PRECEDENCE
      <3> QED  BY <3>1
    <2> DEFINE parts == <<LabelOf(Top(NodeStack))>>
    <2> HIDE DEF q, t, I, prec, ctxt, more
    <2>9. /\ PartsAre(more, n - 1, Len(more), parts)
          /\ parts \in Seq(Label) /\ LabelOf(Top(NodeStack)) \in Label
      <3>1. /\ PartsAre(NodeStack, n - 1, n, parts)
            /\ parts \in Seq(Label) /\ LabelOf(Top(NodeStack)) \in Label
        BY <2>2, <2>7, OperandAlone
      <3>2. n - 1 \in Nat /\ n - 1 <= n
        BY <2>7
      <3> HIDE DEF parts
      <3> QED  BY <2>2, <2>3, <3>1, <3>2, TriviaParts
    <2>10. Form("parseInfix", parts)
      BY <2>7, <2>9, FormOfOne
    <2>11. Ready(more, ctxt, "parseInfix")
      <3> HIDE DEF parts
      <3> QED  BY <2>6, <2>9, <2>10 DEF Ready
    <2>12. TokenFits(call') /\ call'.fn \in WorkingFns \ GroupFns
      BY <2>1, <2>4, CalledForOperator
    <2>13. TopShaped(NodeStack', ctxt, call')
      <3>1. TopWaits(NodeStack', ctxt, call'.fn)
        BY <2>1, <2>11, <2>12, PhasesDiffer DEF TopWaits
      <3> QED  BY <2>6, <2>12, <3>1 DEF TopShaped, CloserFits, CallWaits
    <2>14. CallShaped(NodeStack', call')
      BY <2>12, PhasesDiffer DEF CallShaped
    <2>15. Grows(NodeStack, NodeStack') /\ LeavesOnly(NodeStack, NodeStack')
      BY <2>1, <2>3, TookLeaves DEF TookTrivia
    <2> QED  BY <1>1, <2>1, <2>6, <2>8, <2>13, <2>14, <2>15, PushShaped DEF LeavesOnly
  <1> QED  BY <1>2, <1>3

-----------------------------------------------------------------------------
(* From a complete operand to the function that waits for it               *)

\* A complete operand is above the top context's start.
LEMMA OperandOnTop ==
  ASSUME Inv, Fitting, call.fn \in CompleteFns
  PROVE  HasOperand(Len(NodeStack), ContextStack)
  <1>1. Discipline(Len(NodeStack), ContextStack, frames, call.fn)
    BY StackTypes
  <1> QED  BY <1>1 DEF Discipline, Complete, Returning, CompleteFns

\* The operand is the last part that the waiting function needs.
LEMMA TopCompleted ==
  ASSUME Inv, Fitting, Shaped, call.fn \in CompleteFns, ContextStack # <<>>
  PROVE  \E parts \in Seq(Label) :
           /\ PartsAre(NodeStack, Parser_topContext.Index, Len(NodeStack), parts)
           /\ Form(WaitingFn(NodeStack, Parser_topContext), parts)
  <1> DEFINE ctxt == Parser_topContext
             n    == Len(NodeStack)
             l    == n - 1
             N    == Top(NodeStack)
             fn   == WaitingFn(NodeStack, ctxt)
  <1>1. /\ ctxt \in Context /\ ContextFits(NodeStack, ctxt) /\ ctxt.Index \in Nat
        /\ n \in Nat /\ NodeStack \in Seq(Node) /\ ctxt = ContextStack[Len(ContextStack)]
    BY FittingParts DEF Top
  <1>2. ctxt.Index + 2 <= n
    BY <1>1, OperandOnTop DEF HasOperand
  <1>3. TopShaped(NodeStack, ctxt, call) /\ IsOperand(LabelOf(N))
    BY DEF Shaped, CallShaped
  <1>4. l \in Nat /\ l + 1 = n /\ ctxt.Index <= l /\ N = NodeStack[n] /\ n \in 1..n
    BY <1>1, <1>2 DEF Top
  <1> HIDE DEF ctxt, n, l, N
  <1>5. Waiting(NodeStack, ctxt, l)
    BY <1>3 DEF TopShaped, TopWaits, l, n
  <1>6. PICK parts \in Seq(Label) :
             PartsAre(NodeStack, ctxt.Index, l, parts) /\ Awaits(fn, parts)
    BY <1>5 DEF Waiting
  <1>7. fn # "GroupParselet_reduceGroup"
    <2>1. ctxt.F # "GroupParselet_reduceGroup"
      BY <1>1 DEF ContextFits, GroupFns, GroupMark
    <2> QED  BY <2>1 DEF WaitingFn, InnerReduce
  <1>8. N \in Node
    BY <1>1, <1>4 DEF n
  <1>9. LabelOf(N) \in Label /\ LabelOf(N)[1] = N.kind
    BY <1>8, NodeFields DEF LabelOf, Label
  <1>10. fn = "CallParselet_reduceCall" => LabelOf(N)[1] \in GroupKinds \union {"Abort"}
    <2> HAVE fn = "CallParselet_reduceCall"
    <2>1. ctxt.F = "CallParselet_reduceCall"
      BY DEF WaitingFn, InnerReduce
    <2>2. N.kind \in GroupKinds \union {"Abort"}
      BY <1>3, <2>1 DEF TopShaped, CallWaits, N
    <2> QED  BY <1>9, <2>2
  <1> HIDE DEF fn
  <1>11. /\ Form(fn, Append(parts, LabelOf(N))) /\ Append(parts, LabelOf(N)) \in Seq(Label)
    BY <1>3, <1>6, <1>7, <1>9, <1>10, Completed
  <1>12. PartsAre(NodeStack, ctxt.Index, n, Append(parts, LabelOf(N)))
    <2>1. LabelOf(NodeStack[l + 1]) = LabelOf(N)
      BY <1>4
    <2>2. ~LeafIn(NodeStack[l + 1], Trivia)
      BY <1>3, <1>4, OperandIsNoTrivia
    <2>3. LabelOf(NodeStack[l + 1]) \in Label
      BY <1>9, <2>1
    <2>4. PartsAre(NodeStack, ctxt.Index, l + 1,
                   Append(parts, LabelOf(NodeStack[l + 1])))
      BY <1>1, <1>4, <1>6, <2>2, <2>3, PartsOne
    <2> QED  BY <1>4, <2>1, <2>4
  <1> QED  BY <1>11, <1>12 DEF ctxt, n, fn

\* The function that runs takes what the one that waits, or one like it, takes.
LEMMA FormAlike ==
  ASSUME NEW fn, NEW gn,
         fn = gn \/ (fn \in ChainFns /\ gn \in ChainFns)
                 \/ (fn \in CompoundFns /\ gn \in CompoundFns),
         NEW parts, Form(gn, parts)
  PROVE  Form(fn, parts)
  <1>1. CASE fn = gn
    BY <1>1
  <1>2. CASE fn \in ChainFns /\ gn \in ChainFns
    <2>1. fn \in LinearFns /\ gn \in LinearFns
      BY <1>2 DEF LinearFns
    <2>2. Lengths(fn) = Lengths(gn)
      BY <1>2, LengthOf
    <2> QED  BY <2>1, <2>2, LinearForm
  <1>3. CASE fn \in CompoundFns /\ gn \in CompoundFns
    <2>1. Lengths(fn) = Lengths(gn)
      BY <1>3, LengthOf
    <2>2. Where(fn, Len(parts)) = {1, 2} /\ Where(gn, Len(parts)) = {1, 2}
      BY <1>3, WhereOf
    <2>3. EndsFit(gn, parts) => EndsFit(fn, parts)
      BY <1>3, FnSets DEF EndsFit, GroupFns
    <2>4. fn # "CallParselet_reduceCall"
      BY <1>3, FnSets
    <2> QED  BY <2>1, <2>2, <2>3, <2>4 DEF Form
  <1> QED  BY <1>1, <1>2, <1>3

\* The waiting function, or one like it, takes the nodes of its context.
LEMMA RunShaped ==
  ASSUME Inv, Inv', Fitting, Shaped, call.fn \in CompleteFns, ContextStack # <<>>,
         UNCHANGED <<NodeStack, ContextStack>>,
         call'.fn \in WorkingFns \ (TagFns \union {"parseInfix"}),
         LET fn == WaitingFn(NodeStack, Parser_topContext)
         IN \/ call'.fn = fn
            \/ call'.fn \in ChainFns /\ fn \in ChainFns
            \/ call'.fn \in CompoundFns /\ fn \in CompoundFns,
         CloserFits(NodeStack, Parser_topContext, call')
  PROVE  Shaped'
  <1> DEFINE ctxt == Parser_topContext
  <1>1. Ready(NodeStack, ctxt, call'.fn)
    <2>1. PICK parts \in Seq(Label) :
               /\ PartsAre(NodeStack, ctxt.Index, Len(NodeStack), parts)
               /\ Form(WaitingFn(NodeStack, ctxt), parts)
      BY TopCompleted
    <2>2. Form(call'.fn, parts)
      BY <2>1, FormAlike
    <2> QED  BY <2>1, <2>2 DEF Ready
  <1>2. TopShaped(NodeStack, ctxt, call)
    BY DEF Shaped
  <1>3. TopWaits(NodeStack, ctxt, call'.fn)
    BY <1>1, PhasesDiffer DEF TopWaits
  <1>4. CallWaits(NodeStack, ctxt, call')
    BY <1>2, PhasesDiffer DEF TopShaped, CallWaits
  <1>5. TokenFits(call')
    BY CalledForNoToken
  <1>6. CallShaped(NodeStack', call')
    BY <1>5, PhasesDiffer DEF CallShaped
  <1>7. Top(ContextStack') = ctxt
    BY DEF Parser_topContext
  <1>8. TopShaped(NodeStack', Top(ContextStack'), call')
    BY <1>3, <1>4, <1>7 DEF TopShaped
  <1>9. Level(ContextStack, ContextStack') /\ Grows(NodeStack, NodeStack')
    BY SameLevel, Unchanged
  <1>10. \A k \in (Len(NodeStack) + 1)..Len(NodeStack') :
           NodeStack'[k].kind \in {"Leaf", "Abort"}
    BY StackTypes
  <1> QED  BY <1>6, <1>8, <1>9, <1>10, LevelShaped

\* Parser_tryContinue, which calls the waiting function.
LEMMA Parser_tryContinueShape ==
  ASSUME Inv, Inv', Fitting, Shaped, Parser_tryContinue PROVE Shaped'
  <1> DEFINE ctxt == Parser_topContext
  <1>1. /\ UNCHANGED <<NodeStack, ContextStack>> /\ call.fn \in CompleteFns
        /\ call.fn = "Parser_tryContinue"
    BY DEF Parser_tryContinue, Calling, CompleteFns
  <1>2. CASE ContextStack = <<>> \/ ctxt.F = "Parser_identity"
    <2>1. call'.fn \in CompleteFns
      BY <1>2 DEF Parser_tryContinue, Goto, Jump, CompleteFns
    <2> QED  BY <1>1, <2>1, CompleteShape
  <1>3. CASE ~(ContextStack = <<>> \/ ctxt.F = "Parser_identity")
    <2>1. /\ ContextStack # <<>> /\ ctxt \in Context /\ ctxt = Top(ContextStack)
          /\ ContextFits(NodeStack, ctxt) /\ TopShaped(NodeStack, ctxt, call)
      BY <1>3, FittingParts DEF Shaped
    <2>2. call'.fn = ctxt.F /\ call'.P = ctxt.P
      BY <1>3 DEF Parser_tryContinue, Jump
    <2>3. ctxt.F \notin Unnamed
      <3>1. Complete(Len(NodeStack), ContextStack, frames)
        BY <1>1, StackTypes DEF Discipline
      <3>2. ctxt.F # "NULL"
        BY <2>1, <3>1, StackTypes, CallContinuation
      <3> QED  BY <1>3, <3>2 DEF Unnamed
    <2>4. ctxt.F \in RunningFns \ TakingFns
      BY <2>1, <2>3, ContextFields, ContinuationFns DEF Unnamed
    <2> HIDE DEF ctxt
    <2>5. WaitingFn(NodeStack, ctxt) = ctxt.F
      BY <2>3 DEF WaitingFn, Unnamed
    <2>6. CloserFits(NodeStack, ctxt, call')
      <3>1. ctxt.F \in GroupFns => ctxt.F = "GroupParselet_parseLoop"
        BY <2>1, <2>3 DEF ContextFits, GroupMark, Unnamed
      <3> QED  BY <2>1, <2>2, <3>1 DEF TopShaped, CloserFits
    <2>7. call'.fn \in WorkingFns \ (TagFns \union {"parseInfix"})
      BY <2>2, <2>4 DEF WorkingFns, TakingFns, TagFns
    <2> QED  BY <1>1, <2>1, <2>2, <2>5, <2>6, <2>7, RunShaped DEF ctxt
  <1> QED  BY <1>2, <1>3

\* The expression is complete.
LEMMA ReturnShape ==
  ASSUME Inv, Inv', Fitting, Shaped, Return PROVE Shaped'
  <1> DEFINE ctxt  == Parser_topContext
             frame == Top(frames)
  <1>1. /\ UNCHANGED <<NodeStack, ContextStack>> /\ frames # <<>>
        /\ call.fn = "return" /\ call.fn \in CompleteFns
        /\ call'.fn = frame.fn /\ call'.P = frame.P
    BY DEF Return, Calling, Jump, CompleteFns
  <1>2. ~Busy("return") /\ Returning(Len(NodeStack), ContextStack, frames)
    BY <1>1, FnFacts, StackTypes DEF Discipline, QuietFns
  <1>3. frame \in Frame /\ frames \in Seq(Frame)
    BY <1>1, StackTypes, PopFacts
  <1>4. frame.fn \in LoopFns \union PatternReduces \union {InnerReduce}
    <2>1. Len(frames) \in Nat \ {0}
      BY <1>1, <1>3
    <2>2. CASE OnlyLoops(frames)
      <3>1. IsLoop(frames[Len(frames)])
        BY <2>1, <2>2 DEF OnlyLoops
      <3> QED  BY <3>1 DEF IsLoop, Top
    <2>3. CASE PatternFrames(frames)
      BY <2>3 DEF PatternFrames
    <2> QED  BY <1>2, <2>2, <2>3 DEF Returning
  <1>5. frame.fn \in RunningFns \union {InnerReduce}
    BY <1>4 DEF RunningFns, PatternReduces, ReduceFns, InnerReduce
  <1>6. Busy(frame.fn)
    BY <1>5, FnFacts
  <1>7. /\ ContextStack # <<>> /\ ctxt = Top(ContextStack)
        /\ ContextFits(NodeStack, ctxt) /\ TopShaped(NodeStack, ctxt, call)
    <2>1. ContextStack # <<>>
      BY <1>1, <1>2, <1>3, <1>6, FittingParts, ReturnLoops
    <2> QED  BY <2>1, FittingParts DEF Shaped
  <1>8. /\ ctxt.F = SuspendedF(frame)
        /\ IsLoop(frame) => Fits(NodeStack, frame, ctxt, Len(NodeStack) - 1)
    BY <1>1, <1>2, <1>3, <1>6, <1>7, FittingParts, ReturnLoops
  <1> HIDE DEF ctxt, frame
  <1>9. call'.fn \in WorkingFns \ (TagFns \union {"parseInfix"})
    BY <1>1, <1>4, <1>5 DEF WorkingFns, TagFns, LoopFns, PatternReduces, InnerReduce
  <1>10. CASE frame.fn \in LoopFns
    <2>1. ctxt.F = "Parser_identity" /\ Fits(NodeStack, frame, ctxt, Len(NodeStack) - 1)
      BY <1>8, <1>10 DEF IsLoop, SuspendedF
    <2>2. Opens(NodeStack, ctxt) <=> frame.fn = "GroupParselet_parseLoop"
      BY <1>7, <2>1 DEF Fits, ContextFits
    <2>3. CloserFits(NodeStack, ctxt, call')
      <3>1. frame.fn \in GroupFns => frame.fn = "GroupParselet_parseLoop"
        BY <1>10 DEF GroupFns, LoopFns
      <3>2. frame.fn = "GroupParselet_parseLoop" =>
              GroupOpenerToCloser(NodeStack[ctxt.Index + 1].op) = frame.P.closer
        BY <2>1 DEF Fits
      <3> QED  BY <1>1, <2>1, <3>1, <3>2 DEF CloserFits
    <2>4. \/ call'.fn = WaitingFn(NodeStack, ctxt)
          \/ call'.fn \in ChainFns /\ WaitingFn(NodeStack, ctxt) \in ChainFns
      <3>1. frame.fn # "GroupParselet_parseLoop" => frame.fn \in ChainFns
        BY <1>10 DEF LoopFns, ChainFns
      <3> QED  BY <1>1, <2>1, <2>2, <3>1 DEF WaitingFn, ChainFns
    <2> QED  BY <1>1, <1>7, <1>9, <2>3, <2>4, RunShaped DEF ctxt
  <1>11. CASE frame.fn \in PatternReduces \union {InnerReduce}
    <2>1. frame.fn \notin LoopFns \union GroupFns /\ frame.fn \in CompoundFns
      BY <1>11 DEF PatternReduces, InnerReduce, LoopFns, GroupFns, CompoundFns
    <2>2. ctxt.F = "NULL"
      BY <1>8, <2>1 DEF SuspendedF, IsLoop
    <2>3. WaitingFn(NodeStack, ctxt) \in CompoundFns
      BY <2>2 DEF WaitingFn, CompoundFns
    <2>4. CloserFits(NodeStack, ctxt, call')
      BY <1>1, <2>1, <2>2 DEF CloserFits
    <2> QED  BY <1>1, <1>7, <1>9, <2>1, <2>3, <2>4, RunShaped DEF ctxt
  <1> QED  BY <1>4, <1>10, <1>11

=============================================================================
