--------------------------- MODULE LosslessProofs ---------------------------
(***************************************************************************)
(* Nothing of the source is lost.  The nodes on the stack lie end to end,  *)
(* and the token that a function is called with starts where the tokenizer *)
(* is: the two facts need each other, since a function that takes its      *)
(* token moves the read position behind it.                                *)
(***************************************************************************)
EXTENDS ParserProofs

\* The nodes lie end to end from place a to place b.
Span(nodes, a, b) ==
  IF nodes = <<>> THEN a = b
  ELSE /\ nodes[1].lo = a
       /\ nodes[Len(nodes)].hi = b
       /\ \A i \in 1..(Len(nodes) - 1) : nodes[i].hi = nodes[i + 1].lo

\* The functions that take the token they are called with.
TokenFns == TakingFns \union {"parsePrefix"}

\* That token is the one at the read position, or an implicit one there.
TokenInPlace ==
  call.fn \in TokenFns => call.tok.lo = buffer /\ call.tok.hi \in {buffer, buffer + 1}

\* The expressions reach to some place and the nodes on from there.
Tiled ==
  ~aborted => \E m \in Nat : Span(exprs, 0, m) /\ Span(NodeStack, m, buffer)

AllIsRead == ~aborted /\ Calling("done") => buffer = Len(input)

\* With Inv, the inductive invariant behind Lossless.
InPlace == TokenInPlace /\ Tiled /\ AllIsRead

-----------------------------------------------------------------------------
(* Sequences of nodes that lie end to end                                  *)

LEMMA ConcatElements ==
  ASSUME NEW S, NEW s \in Seq(S), NEW u \in Seq(S)
  PROVE  /\ s \o u \in Seq(S) /\ Len(s \o u) = Len(s) + Len(u)
         /\ Len(s) \in Nat /\ Len(u) \in Nat
         /\ \A i \in 1..Len(s) : (s \o u)[i] = s[i]
         /\ \A i \in 1..Len(u) : (s \o u)[Len(s) + i] = u[i]
  <1> DEFINE w == s \o u
  <1>1. /\ w \in Seq(S) /\ Len(w) = Len(s) + Len(u)
        /\ Len(s) \in Nat /\ Len(u) \in Nat
        /\ \A i \in 1..(Len(s) + Len(u)) :
             w[i] = IF i <= Len(s) THEN s[i] ELSE u[i - Len(s)]
    BY ConcatProperties, LenProperties
  <1> HIDE DEF w
  <1>2. \A i \in 1..Len(s) : w[i] = s[i]
    BY <1>1
  <1>3. ASSUME NEW i \in 1..Len(u) PROVE w[Len(s) + i] = u[i]
    <2>1. Len(s) + i \in 1..(Len(s) + Len(u)) /\ Len(s) + i - Len(s) = i
          /\ ~(Len(s) + i <= Len(s))
      BY <1>1
    <2> QED  BY <1>1, <2>1
  <1> QED  BY <1>1, <1>2, <1>3 DEF w

\* The elements from place k + 1 on.
LEMMA SuffixElements ==
  ASSUME NEW S, NEW s \in Seq(S), NEW k \in Nat, k < Len(s)
  PROVE  /\ SubSeq(s, k + 1, Len(s)) \in Seq(S)
         /\ Len(SubSeq(s, k + 1, Len(s))) = Len(s) - k
         /\ \A i \in 1..(Len(s) - k) : SubSeq(s, k + 1, Len(s))[i] = s[k + i]
  <1>1. Len(s) \in Nat /\ k + 1 \in Int /\ Len(s) \in Int /\ k + 1 <= Len(s)
        /\ Len(s) - (k + 1) + 1 = Len(s) - k
    OBVIOUS
  <1>2. \A i \in (k + 1)..Len(s) : s[i] \in S
    OBVIOUS
  <1>3. /\ SubSeq(s, k + 1, Len(s)) \in Seq(S)
        /\ Len(SubSeq(s, k + 1, Len(s))) = Len(s) - k
        /\ \A i \in 1..(Len(s) - k) : SubSeq(s, k + 1, Len(s))[i] = s[(k + 1) + i - 1]
    BY <1>1, <1>2, SubSeqProperties
  <1>4. \A i \in 1..(Len(s) - k) : (k + 1) + i - 1 = k + i
    OBVIOUS
  <1> QED  BY <1>3, <1>4

LEMMA SpanAppend ==
  ASSUME NEW s \in Seq(Node), NEW N \in Node, NEW a, Span(s, a, N.lo)
  PROVE  Span(Append(s, N), a, N.hi)
  <1> DEFINE u == Append(s, N)
  <1>1. /\ u \in Seq(Node) /\ Len(u) = Len(s) + 1 /\ u # <<>> /\ Len(s) \in Nat
        /\ \A i \in 1..Len(s) : u[i] = s[i]
        /\ u[Len(s) + 1] = N
    BY PushFacts
  <1>2. CASE s = <<>>
    <2>1. Len(s) = 0 /\ a = N.lo
      BY <1>2 DEF Span
    <2> HIDE DEF u
    <2>2. Len(u) = 1 /\ u[1] = N
      BY <1>1, <2>1
    <2>3. Span(u, a, N.hi)
      BY <1>1, <2>1, <2>2 DEF Span
    <2> QED  BY <2>3 DEF u
  <1>3. CASE s # <<>>
    <2>1. /\ s[1].lo = a /\ s[Len(s)].hi = N.lo /\ Len(s) >= 1
          /\ \A i \in 1..(Len(s) - 1) : s[i].hi = s[i + 1].lo
      BY <1>3 DEF Span
    <2> HIDE DEF u
    <2>2. u[1].lo = a /\ u[Len(u)].hi = N.hi
      BY <1>1, <2>1
    <2>3. ASSUME NEW i \in 1..(Len(u) - 1) PROVE u[i].hi = u[i + 1].lo
      <3>1. CASE i = Len(s)
        BY <1>1, <2>1, <3>1
      <3>2. CASE i # Len(s)
        <4>1. i \in 1..(Len(s) - 1) /\ i \in 1..Len(s) /\ i + 1 \in 1..Len(s)
          BY <1>1, <3>2
        <4> QED  BY <1>1, <2>1, <4>1
      <3> QED  BY <3>1, <3>2
    <2>4. Span(u, a, N.hi)
      BY <1>1, <2>2, <2>3 DEF Span
    <2> QED  BY <2>4 DEF u
  <1> QED  BY <1>2, <1>3

LEMMA SpanConcat ==
  ASSUME NEW s \in Seq(Node), NEW u \in Seq(Node), NEW a, NEW b, NEW c,
         Span(s, a, b), Span(u, b, c)
  PROVE  Span(s \o u, a, c)
  <1> DEFINE w == s \o u
             m == Len(s)
             n == Len(u)
  <1>1. /\ w \in Seq(Node) /\ Len(w) = m + n /\ m \in Nat /\ n \in Nat
        /\ \A i \in 1..m : w[i] = s[i]
        /\ \A i \in 1..n : w[m + i] = u[i]
    BY ConcatElements
  <1>2. CASE s = <<>>
    <2>1. w = u /\ a = b
      BY <1>2 DEF Span
    <2> QED  BY <2>1
  <1>3. CASE u = <<>>
    <2>1. w = s /\ b = c
      BY <1>3 DEF Span
    <2> QED  BY <2>1
  <1>4. CASE s # <<>> /\ u # <<>>
    <2>1. m >= 1 /\ n >= 1
      BY <1>4
    <2>2. /\ s[1].lo = a /\ s[m].hi = b
          /\ \A i \in 1..(m - 1) : s[i].hi = s[i + 1].lo
          /\ u[1].lo = b /\ u[n].hi = c
          /\ \A i \in 1..(n - 1) : u[i].hi = u[i + 1].lo
      BY <1>4 DEF Span
    <2> HIDE DEF w, m, n
    <2>3. w[1].lo = a /\ w[Len(w)].hi = c /\ w # <<>>
      BY <1>1, <2>1, <2>2
    <2>4. ASSUME NEW i \in 1..(Len(w) - 1) PROVE w[i].hi = w[i + 1].lo
      <3>1. CASE i < m
        <4>1. i \in 1..(m - 1) /\ i \in 1..m /\ i + 1 \in 1..m
          BY <1>1, <3>1
        <4> QED  BY <1>1, <2>2, <4>1
      <3>2. CASE i = m
        <4>1. m \in 1..m /\ 1 \in 1..n
          BY <1>1, <2>1
        <4> QED  BY <1>1, <2>2, <3>2, <4>1
      <3>3. CASE i > m
        <4> DEFINE j == i - m
        <4>1. j \in 1..(n - 1) /\ j \in 1..n /\ j + 1 \in 1..n
              /\ i = m + j /\ i + 1 = m + (j + 1)
          BY <1>1, <3>3
        <4> HIDE DEF j
        <4> QED  BY ZenonT(60), <1>1, <2>2, <4>1
      <3> QED  BY <1>1, <3>1, <3>2, <3>3
    <2>5. Span(w, a, c)
      BY <2>3, <2>4 DEF Span
    <2> QED  BY <2>5 DEF w
  <1> QED  BY <1>2, <1>3, <1>4

\* The nodes from place k + 1 on become one node.
LEMMA SpanReduce ==
  ASSUME NEW s \in Seq(Node), NEW k \in Nat, k < Len(s), NEW a, NEW b,
         Span(s, a, b), NEW kind, NEW op,
         NewNode(kind, op, SubSeq(s, k + 1, Len(s))) \in Node
  PROVE  Span(Append(SubSeq(s, 1, k), NewNode(kind, op, SubSeq(s, k + 1, Len(s)))), a, b)
  <1> DEFINE below == SubSeq(s, 1, k)
             args  == SubSeq(s, k + 1, Len(s))
             N     == NewNode(kind, op, args)
  <1>1. /\ Len(s) \in Nat /\ s # <<>>
        /\ s[1].lo = a /\ s[Len(s)].hi = b
        /\ \A i \in 1..(Len(s) - 1) : s[i].hi = s[i + 1].lo
    BY DEF Span
  <1>2. /\ below \in Seq(Node) /\ Len(below) = k
        /\ \A i \in 1..k : below[i] = s[i]
    <2>1. k \in 0..Len(s)
      BY <1>1
    <2> QED  BY <2>1, PrefixType
  <1>3. N.lo = s[k + 1].lo /\ N.hi = b
    <2>1. /\ args \in Seq(Node) /\ Len(args) = Len(s) - k
          /\ \A i \in 1..(Len(s) - k) : args[i] = s[k + i]
      BY SuffixElements
    <2>3. 1 \in 1..(Len(s) - k) /\ Len(s) - k \in 1..(Len(s) - k)
          /\ k + (Len(s) - k) = Len(s)
      BY <1>1
    <2> HIDE DEF args
    <2>2. args[1] = s[k + 1] /\ args[Len(args)] = s[Len(s)]
      BY <2>1, <2>3
    <2> QED  BY <1>1, <2>2 DEF NewNode
  <1>4. Span(below, a, N.lo)
    <2>1. CASE k = 0
      BY <1>1, <1>2, <1>3, <2>1 DEF Span
    <2>2. CASE k # 0
      <3>1. k \in 1..k /\ 1 \in 1..k /\ below # <<>>
        BY <1>2, <2>2
      <3>2. k \in 1..(Len(s) - 1)
        BY <1>1, <2>2
      <3>3. below[1].lo = a /\ below[k].hi = s[k + 1].lo
        BY <1>1, <1>2, <3>1, <3>2
      <3>4. ASSUME NEW i \in 1..(k - 1) PROVE below[i].hi = below[i + 1].lo
        <4>1. i \in 1..k /\ i + 1 \in 1..k /\ i \in 1..(Len(s) - 1)
          BY <1>1
        <4> QED  BY <1>1, <1>2, <4>1
      <3> HIDE DEF below, N
      <3> QED  BY <1>2, <1>3, <3>1, <3>3, <3>4 DEF Span
    <2> QED  BY <2>1, <2>2
  <1> HIDE DEF below, N
  <1>5. N \in Node
    BY DEF N, args
  <1>6. Span(Append(below, N), a, N.hi)
    BY <1>2, <1>4, <1>5, SpanAppend
  <1> QED  BY <1>3, <1>6 DEF below, N, args

\* Trivia lie end to end.
LEMMA TriviaSpan ==
  ASSUME input \in Seq(SourceTokens), NEW p \in Nat, NEW q \in Nat, p <= q
  PROVE  TriviaTokens(p, q) \in Seq(Node) /\ Span(TriviaTokens(p, q), p, q)
  <1> DEFINE s == TriviaTokens(p, q)
             n == q - p
  <1>1. s \in Seq(Token) /\ s \in Seq(Node) /\ Len(s) = n /\ n \in Nat
    <2>1. s \in Seq(Token) /\ Len(s) = n
      BY TriviaType
    <2> QED  BY <2>1, TokensAreNodes
  <1>2. ASSUME NEW i \in 1..n PROVE s[i].lo = p + i - 1 /\ s[i].hi = p + i
    <2>1. p + i - 1 \in Nat /\ p + i - 1 + 1 = p + i
      OBVIOUS
    <2>2. s[i] = Tokenizer_currentToken(p + i - 1)
      BY DEF TriviaTokens
    <2> QED  BY <2>1, <2>2, CurrentTokenType
  <1> HIDE DEF s
  <1>3. CASE n = 0
    <2>1. s = <<>> /\ p = q
      BY <1>1, <1>3
    <2> QED  BY <1>1, <2>1 DEF Span, s
  <1>4. CASE n # 0
    <2>1. 1 \in 1..n /\ n \in 1..n /\ s # <<>>
      BY <1>1, <1>4
    <2>2. s[1].lo = p /\ s[n].hi = q
      BY <1>2, <2>1
    <2>3. ASSUME NEW i \in 1..(n - 1) PROVE s[i].hi = s[i + 1].lo
      <3>1. i \in 1..n /\ i + 1 \in 1..n /\ p + i = p + (i + 1) - 1
        BY <1>1
      <3> QED  BY <1>2, <3>1
    <2> HIDE DEF n
    <2>4. Span(s, p, q)
      BY <1>1, <2>1, <2>2, <2>3 DEF Span
    <2> QED  BY <1>1, <2>4 DEF s
  <1> QED  BY <1>1, <1>3, <1>4

\* What is passed before a file name, read again with another policy, is the
\* same run of tokens.
LEMMA FileTriviaSpan ==
  ASSUME input \in Seq(SourceTokens), NEW p \in 0..Len(input)
  PROVE  LET q == FileTriviaEnd(p)
         IN /\ q \in p..Len(input)
            /\ FileTriviaTokens(p, q) \in Seq(Node)
            /\ Span(FileTriviaTokens(p, q), p, q)
  <1> DEFINE q == FileTriviaEnd(p)
             s == FileTriviaTokens(p, q)
             n == q - p
  <1>1. q \in p..Len(input) /\ n \in Nat
        /\ \A r \in p..(q - 1) : KindAt(r) \in {"WHITESPACE"} \union Newlines
    BY SkipKindsFacts DEF FileTriviaEnd
  <1> HIDE DEF q
  <1>2. s \in Seq(Token) /\ s \in Seq(Node) /\ Len(s) = n
    <2>1. s \in Seq(Token) /\ Len(s) = n
      BY <1>1, FileTriviaType
    <2> QED  BY <2>1, TokensAreNodes
  <1>3. ASSUME NEW i \in 1..n PROVE s[i].lo = p + i - 1 /\ s[i].hi = p + i
    <2> DEFINE r == p + i - 1
    <2>1. r \in p..(q - 1) /\ r \in Nat /\ r + 1 = p + i /\ r + 1 \in Nat
      BY <1>1
    <2>2. s[i] = Tokenizer_currentToken_stringifyAsFile(r)
      BY DEF FileTriviaTokens
    <2>3. RawKind(r) \in {"WHITESPACE", "NEWLINE"}
      <3>1. RawKind(r) \notin Newlines
        BY <2>1, RawKindType DEF SourceTokens, Newlines
      <3> QED  BY <1>1, <2>1, <3>1 DEF KindAt
    <2>4. s[i] \in {Leaf("WHITESPACE", r, r + 1), Leaf("TOPLEVELNEWLINE", r, r + 1)}
      BY <2>2, <2>3 DEF Tokenizer_currentToken_stringifyAsFile, FileNameTokens, Unders
    <2> HIDE DEF r
    <2>5. s[i].lo = r /\ s[i].hi = r + 1
      BY <2>4 DEF Leaf
    <2> QED  BY <2>1, <2>5 DEF r
  <1> HIDE DEF s
  <1>4. Span(s, p, q)
    <2>1. CASE n = 0
      BY <1>1, <1>2, <2>1 DEF Span
    <2>2. CASE n # 0
      <3>1. 1 \in 1..n /\ n \in 1..n /\ s # <<>> /\ p + n = q
        BY <1>1, <1>2, <2>2
      <3>2. s[1].lo = p /\ s[n].hi = q
        BY <1>3, <3>1
      <3>3. ASSUME NEW i \in 1..(n - 1) PROVE s[i].hi = s[i + 1].lo
        <4>1. i \in 1..n /\ i + 1 \in 1..n /\ p + i = p + (i + 1) - 1
          BY <1>1
        <4> QED  BY <1>3, <4>1
      <3> HIDE DEF n
      <3> QED  BY <1>2, <3>1, <3>2, <3>3 DEF Span
    <2> QED  BY <2>1, <2>2
  <1> QED  BY <1>1, <1>2, <1>4 DEF q, s

-----------------------------------------------------------------------------
(* The node stack after a step                                             *)

\* nodes is the node stack, and what lies between the read position and b.
Reaches(nodes, b) ==
  /\ nodes \in Seq(Node)
  /\ \A m : Span(NodeStack, m, buffer) => Span(nodes, m, b)

LEMMA ReachesHere == Inv => Reaches(NodeStack, buffer)
  BY StackTypes DEF Reaches

LEMMA ReachesNode ==
  ASSUME NEW N \in Node, NEW nodes, Reaches(nodes, N.lo)
  PROVE  Reaches(Append(nodes, N), N.hi) /\ Reaches(nodes \o <<N>>, N.hi)
  <1>1. nodes \in Seq(Node) /\ Append(nodes, N) \in Seq(Node)
        /\ nodes \o <<N>> = Append(nodes, N)
    BY DEF Reaches
  <1> QED  BY <1>1, SpanAppend DEF Reaches

LEMMA ReachesTrivia ==
  ASSUME Inv, NEW p \in Nat, NEW q \in Nat, p <= q, NEW nodes, Reaches(nodes, p)
  PROVE  Reaches(nodes \o TriviaTokens(p, q), q)
  <1>1. TriviaTokens(p, q) \in Seq(Node) /\ Span(TriviaTokens(p, q), p, q)
    BY StackTypes, TriviaSpan
  <1>2. nodes \o TriviaTokens(p, q) \in Seq(Node)
    BY <1>1, ConcatElements DEF Reaches
  <1> QED  BY <1>1, <1>2, SpanConcat DEF Reaches

LEMMA ReachesFileTrivia ==
  ASSUME Inv, NEW p \in 0..Len(input), NEW nodes, Reaches(nodes, p)
  PROVE  Reaches(nodes \o FileTriviaTokens(p, FileTriviaEnd(p)), FileTriviaEnd(p))
  <1> DEFINE q == FileTriviaEnd(p)
             s == FileTriviaTokens(p, q)
  <1>1. s \in Seq(Node) /\ Span(s, p, q)
    BY StackTypes, FileTriviaSpan
  <1> HIDE DEF q, s
  <1>2. nodes \o s \in Seq(Node)
    BY <1>1, ConcatElements DEF Reaches
  <1>3. Reaches(nodes \o s, q)
    BY <1>1, <1>2, SpanConcat DEF Reaches
  <1> QED  BY <1>3 DEF q, s

-----------------------------------------------------------------------------
(* Steps                                                                   *)

\* The node stack reaches to the new read position.
LEMMA ReachStep ==
  ASSUME InPlace, Reaches(NodeStack', buffer'), UNCHANGED <<exprs, aborted>>,
         call'.fn # "done", TokenInPlace'
  PROVE  InPlace'
  <1>1. Tiled'
    <2> SUFFICES ASSUME ~aborted'
                 PROVE  \E m \in Nat : Span(exprs', 0, m) /\ Span(NodeStack', m, buffer')
      BY DEF Tiled, Span
    <2>1. PICK m \in Nat : Span(exprs, 0, m) /\ Span(NodeStack, m, buffer)
      BY DEF InPlace, Tiled
    <2> QED  BY <2>1 DEF Reaches
  <1> QED  BY <1>1 DEF InPlace, AllIsRead, Calling

\* Nothing is asked of the nodes after an abort.
LEMMA AbortedInPlace ==
  ASSUME aborted, UNCHANGED aborted, TokenInPlace'
  PROVE  InPlace'
  BY DEF InPlace, Tiled, AllIsRead

\* The next function takes no token.
LEMMA NoTokenInPlace ==
  ASSUME NEW fn, fn \notin TokenFns, NEW P, NEW t, Jump(fn, P, t)
  PROVE  TokenInPlace' /\ call'.fn = fn
  BY DEF Jump, TokenInPlace

\* The next function takes the token at the new read position.
LEMMA NextInPlace ==
  ASSUME input \in Seq(SourceTokens), NEW q \in Nat, buffer' = q, NEW fn \in TokenFns,
         NEW P, Jump(fn, P, Tokenizer_currentToken(q))
  PROVE  TokenInPlace' /\ call'.fn = fn
  BY CurrentTokenType DEF Jump, TokenInPlace

LEMMA TokenFnsAre ==
  /\ TokenFns \intersect (LoopFns \union ReduceFns \union
        {"Parser_parseClimb", "Parser_tryContinue", "return", "concreteParse", "done",
         "ColonColonParselet_parseLoop", "TildeParselet_parse1",
         "SlashColonParselet_parse1", "SemiSemiParselet_parse1",
         "SemiSemiParselet_parse2", "IntegralParselet_parse1"}) = {}
  /\ "done" \notin LoopFns \union ReduceFns
  /\ {"parsePrefix", "parseInfix", "EqualParselet_parseInfixTag",
      "ColonEqualParselet_parseInfixTag"} \subseteq TokenFns
  /\ ContextSensitiveFns \subseteq TokenFns
  BY DEF TokenFns, TakingFns, ContextSensitiveFns, LoopFns, ReduceFns

\* The next function takes no token, and is not the end.
LEMMA FreeCall ==
  ASSUME NEW fn \in LoopFns \union ReduceFns \union
           {"Parser_parseClimb", "Parser_tryContinue", "return",
            "ColonColonParselet_parseLoop", "TildeParselet_parse1",
            "SlashColonParselet_parse1", "SemiSemiParselet_parse1",
            "SemiSemiParselet_parse2", "IntegralParselet_parse1"},
         NEW P, NEW t, Jump(fn, P, t)
  PROVE  TokenInPlace' /\ call'.fn # "done"
  <1>1. fn \notin TokenFns /\ fn # "done"
    BY TokenFnsAre
  <1> QED  BY <1>1, NoTokenInPlace

\* The token of the call is taken, with the trivia behind it.
LEMMA ReachesTaken ==
  ASSUME Inv, InPlace, call.fn \in TokenFns, call.tok \in Token,
         call.tok.hi \in 0..Len(input)
  PROVE  /\ Reaches(WithOperator(call.tok), TriviaEnd(call.tok.hi))
         /\ TriviaEnd(call.tok.hi) \in Nat
         /\ TriviaEnd(call.tok.hi) \in 0..Len(input)
         /\ AfterOperator(call.tok).lo = TriviaEnd(call.tok.hi)
         /\ AfterOperator(call.tok) \in Token
  <1> DEFINE t == call.tok
             e == TriviaEnd(t.hi)
  <1>1. t.lo = buffer /\ t \in Node
    BY TokenIsNode DEF InPlace, TokenInPlace
  <1>2. e \in t.hi..Len(input) /\ e \in 0..Len(input) /\ t.hi \in 0..Len(input)
    BY TriviaEndType
  <1>3. AfterOperator(t).lo = e /\ AfterOperator(t) \in Token
    BY OperatorType
  <1> HIDE DEF e
  <1>4. e \in Nat /\ t.hi \in Nat /\ t.hi <= e
    BY <1>2, StackTypes
  <1>5. Reaches(Append(NodeStack, t), t.hi)
    BY <1>1, ReachesHere, ReachesNode
  <1>6. Reaches(Append(NodeStack, t) \o TriviaTokens(t.hi, e), e)
    BY <1>4, <1>5, ReachesTrivia
  <1> QED  BY <1>2, <1>3, <1>4, <1>6 DEF WithOperator, e

\* ... and its operand is parsed.
LEMMA OperandInPlace ==
  ASSUME Inv, InPlace, call.fn \in TokenFns, call.tok \in Token,
         call.tok.hi \in 0..Len(input), TakeOperator(call.tok),
         ParsePrefix(AfterOperator(call.tok)), UNCHANGED <<exprs, aborted>>
  PROVE  InPlace'
  <1> DEFINE e == TriviaEnd(call.tok.hi)
  <1>1. e \in Nat /\ Reaches(WithOperator(call.tok), e)
    BY ReachesTaken
  <1>2. Reaches(NodeStack', buffer') /\ buffer' = e
    BY <1>1 DEF TakeOperator
  <1>3. TokenInPlace' /\ call'.fn = "parsePrefix"
    BY <1>1, <1>2, StackTypes, TokenFnsAre, NextInPlace DEF ParsePrefix, AfterOperator
  <1> QED  BY <1>2, <1>3, ReachStep

\* The token of the call, or one made of it, is the operand.
LEMMA LeafInPlace ==
  ASSUME Inv, InPlace, call.fn \in TokenFns, NEW N \in Node,
         N.lo = call.tok.lo, N.hi \in {call.tok.lo, call.tok.hi},
         buffer' = N.hi, NodeStack' = Append(NodeStack, N),
         UNCHANGED <<exprs, aborted>>, TokenInPlace', call'.fn # "done"
  PROVE  InPlace'
  <1>1. N.lo = buffer
    BY DEF InPlace, TokenInPlace
  <1>2. Reaches(Append(NodeStack, N), N.hi)
    BY <1>1, ReachesHere, ReachesNode
  <1> QED  BY <1>2, ReachStep

LEMMA ReduceInPlace ==
  ASSUME Inv, InPlace, NEW fn \in ReduceFns, NEW kind \in NodeKinds, NEW op \in Ops,
         NEW next \in {"Parser_parseClimb", "Parser_tryContinue", "return"},
         ReduceContext(fn, kind, op, next)
  PROVE  InPlace'
  <1> DEFINE k == Parser_topContext.Index
             N == NewNode(kind, op, SubSeq(NodeStack, k + 1, Len(NodeStack)))
  <1>1. /\ call.fn = fn /\ Goto(next)
        /\ NodeStack' = Append(SubSeq(NodeStack, 1, k), N)
        /\ UNCHANGED <<input, buffer, frames, exprs, aborted>>
    BY DEF ReduceContext, Calling, NodesBelow, ArgsOf
  <1>2. k \in Nat /\ k < Len(NodeStack)
    <2>1. CASE fn = InnerReduce
      <3>1. ReducingInner(Len(NodeStack), ContextStack, frames)
        BY <1>1, <2>1, StackTypes DEF Discipline
      <3>2. ContextStack # <<>> /\ Nested(Len(NodeStack), ContextStack)
        BY <3>1 DEF ReducingInner
      <3> QED  BY <3>2, StackTypes, NestedBelow DEF Parser_topContext
    <2>2. CASE fn # InnerReduce
      BY <1>1, <2>2, RunningFnsFacts, RunningType
    <2> QED  BY <2>1, <2>2
  <1>3. N \in Node
    BY <1>2, ReducedNode DEF ArgsOf
  <1>4. Reaches(Append(SubSeq(NodeStack, 1, k), N), buffer)
    <2>1. SubSeq(NodeStack, 1, k) \in Seq(Node)
      BY <1>2, StackTypes, PrefixType
    <2>2. Append(SubSeq(NodeStack, 1, k), N) \in Seq(Node)
      <3> HIDE DEF N
      <3> QED  BY <1>3, <2>1
    <2>3. ASSUME NEW m, Span(NodeStack, m, buffer)
          PROVE  Span(Append(SubSeq(NodeStack, 1, k), N), m, buffer)
      <3> HIDE DEF k
      <3> QED  BY <1>2, <1>3, <2>3, StackTypes, SpanReduce
    <2> QED  BY <2>2, <2>3 DEF Reaches
  <1> HIDE DEF N, k
  <1>5. Reaches(NodeStack', buffer')
    BY <1>1, <1>4
  <1>6. TokenInPlace' /\ call'.fn # "done"
    BY <1>1, FreeCall DEF Goto
  <1> QED  BY <1>1, <1>5, <1>6, ReachStep

LEMMA ReduceForInPlace ==
  ASSUME Inv, InPlace, NEW fn \in ReduceFns, NEW kind \in NodeKinds,
         NEW op, Reduce(fn, kind, op), op \in {call.P.op, call.P.op2} \union Ops
  PROVE  InPlace'
  <1>1. op \in Ops
    BY StackTypes, CallFields, ParseletFields
  <1>2. ReduceContext(fn, kind, op, "Parser_parseClimb")
    BY DEF Reduce
  <1> QED  BY <1>1, <1>2, ReduceInPlace

\* What was peeked at is given back and the loop's node is made.
LEMMA EndLoopInPlace ==
  ASSUME Inv, InPlace, NEW q \in buffer..Len(input), NEW fn \in ReduceFns,
         EndLoop(q, fn), UNCHANGED <<exprs, aborted>>
  PROVE  InPlace'
  <1>1. buffer' = buffer /\ NodeStack' = NodeStack /\ Jump(fn, call.P, NoToken)
    BY GiveBackType DEF EndLoop
  <1>2. Reaches(NodeStack', buffer')
    BY <1>1, ReachesHere
  <1>3. TokenInPlace' /\ call'.fn # "done"
    BY <1>1, FreeCall
  <1> QED  BY <1>2, <1>3, ReachStep

-----------------------------------------------------------------------------
(* The functions, one after the other                                      *)

\* The token is in place when parsePrefix is called.
LEMMA PrefixPlace ==
  ASSUME Inv, InPlace, Calling("parsePrefix")
  PROVE  /\ call.fn \in TokenFns /\ call.tok \in Token /\ call.tok \in Node
         /\ call.tok.lo = buffer /\ buffer \in Nat /\ call.tok.op \in LeafKinds
  <1>1. call.fn \in TokenFns
    BY TokenFnsAre DEF Calling
  <1> QED  BY <1>1, StackTypes, ExpectingType, TokenIsNode DEF InPlace, TokenInPlace

LEMMA OperandDone ==
  ASSUME Inv, InPlace, Calling("parsePrefix"), NEW N \in Node,
         N.lo = call.tok.lo, N.hi \in {call.tok.lo, call.tok.hi},
         buffer' = N.hi, NodeStack' = Append(NodeStack, N),
         NEW next \in {"Parser_parseClimb", "Parser_tryContinue"}, Goto(next),
         UNCHANGED <<exprs, aborted>>
  PROVE  InPlace'
  <1>1. TokenInPlace' /\ call'.fn # "done"
    BY FreeCall DEF Goto
  <1> QED  BY <1>1, PrefixPlace, LeafInPlace

LEMMA ErrorKinds ==
  {"ERROR_EXPECTEDOPERAND", "ERROR_INFIXIMPLICITNULL", "ERROR_PREFIXIMPLICITNULL",
   "ERROR_UNEXPECTEDCLOSER", "ERROR_UNSUPPORTEDTOKEN", "FAKE_IMPLICITTIMES",
   "FAKE_IMPLICITNULL", "FAKE_IMPLICITONE", "FAKE_IMPLICITALL"} \subseteq LeafKinds
  BY DEF LeafKinds, ParserErrors, Fakes

\* A token without characters at the place of t.
LEMMA EmptyNode ==
  ASSUME NEW op \in LeafKinds, NEW t \in Token
  PROVE  /\ Empty(op, t) \in Token /\ Empty(op, t) \in Node
         /\ Empty(op, t).lo = t.lo /\ Empty(op, t).hi = t.lo
  BY EmptyType, TokenIsNode

LEMMA ReplacedNode ==
  ASSUME NEW op \in LeafKinds, NEW t \in Token
  PROVE  /\ [t EXCEPT !.op = op] \in Node
         /\ [t EXCEPT !.op = op].lo = t.lo /\ [t EXCEPT !.op = op].hi = t.hi
  <1>1. [t EXCEPT !.op = op] \in Node
    BY ReplacedTokenType, TokenIsNode
  <1>2. [t EXCEPT !.op = op].lo = t.lo /\ [t EXCEPT !.op = op].hi = t.hi
    BY DEF Token
  <1> QED  BY <1>1, <1>2

LEMMA UnhandledInPlace ==
  Inv /\ InPlace /\ PrefixUnhandledParselet_parsePrefix => InPlace'
  <1> SUFFICES ASSUME Inv, InPlace, PrefixUnhandledParselet_parsePrefix PROVE InPlace'
    OBVIOUS
  <1> DEFINE t == call.tok
             N == Empty("ERROR_EXPECTEDOPERAND", t)
             I == infixParselets[t.op]
  <1>1. /\ Calling("parsePrefix") /\ NodeStack' = Append(NodeStack, N)
        /\ UNCHANGED <<buffer, exprs, aborted>>
        /\ Goto("Parser_tryContinue") \/ Jump("parseInfix", I, t)
    BY DEF PrefixUnhandledParselet_parsePrefix, Prefix
  <1>2. call.fn \in TokenFns /\ t \in Token /\ t.lo = buffer
    BY <1>1, PrefixPlace
  <1>3. N \in Node /\ N.lo = t.lo /\ N.hi = t.lo
    BY <1>2, ErrorKinds, EmptyNode
  <1> HIDE DEF N
  <1>4. TokenInPlace' /\ call'.fn # "done"
    <2>1. CASE Goto("Parser_tryContinue")
      BY <2>1, FreeCall DEF Goto
    <2>2. CASE Jump("parseInfix", I, t)
      BY <1>1, <1>2, <2>2 DEF Jump, TokenInPlace, InPlace
    <2> QED  BY <1>1, <2>1, <2>2
  <1> QED  BY <1>1, <1>2, <1>3, <1>4, LeafInPlace

LEMMA PrefixInPlace == Inv /\ InPlace /\ PrefixNext => InPlace'
  <1> SUFFICES ASSUME Inv, InPlace, PrefixNext PROVE InPlace'
    OBVIOUS
  <1> DEFINE t == call.tok
  <1>1. ASSUME Calling("parsePrefix")
        PROVE  /\ t \in Node /\ t \in Token /\ t.lo = buffer
    BY <1>1, PrefixPlace
  <1>2. CASE LeafParselet_reduceLeaf \/ PrefixErrorParselet_parsePrefix
    <2>1. /\ Calling("parsePrefix") /\ NodeStack' = Append(NodeStack, t) /\ buffer' = t.hi
          /\ Goto("Parser_parseClimb") \/ Goto("Parser_tryContinue")
          /\ UNCHANGED <<exprs, aborted>>
      BY <1>2 DEF LeafParselet_reduceLeaf, PrefixErrorParselet_parsePrefix, Prefix, TakeLeaf
    <2> QED  BY <1>1, <2>1, OperandDone
  <1>3. CASE parsePrefix_abort
    <2>1. aborted /\ UNCHANGED aborted /\ Goto("Parser_tryContinue")
      BY <1>3 DEF parsePrefix_abort, PushOperandError
    <2> QED  BY <2>1, FreeCall, AbortedInPlace DEF Goto
  <1>4. CASE PrefixCloserParselet_parsePrefix \/ PrefixEndOfFileParselet_parsePrefix
             \/ PrefixCommaParselet_parsePrefix
    <2>1. PICK op \in {"ERROR_EXPECTEDOPERAND", "ERROR_INFIXIMPLICITNULL",
                       "ERROR_PREFIXIMPLICITNULL"} :
            /\ Calling("parsePrefix") /\ NodeStack' = Append(NodeStack, Empty(op, t))
            /\ Goto("Parser_parseClimb") \/ Goto("Parser_tryContinue")
            /\ UNCHANGED <<buffer, exprs, aborted>>
      BY <1>4 DEF PrefixCloserParselet_parsePrefix, PrefixEndOfFileParselet_parsePrefix,
         PrefixCommaParselet_parsePrefix, Prefix, PushOperandError, MissingOperand
    <2>2. Empty(op, t) \in Node /\ Empty(op, t).lo = t.lo /\ Empty(op, t).hi = t.lo
      BY <1>1, <2>1, ErrorKinds, EmptyNode
    <2> QED  BY <1>1, <2>1, <2>2, OperandDone
  <1>5. CASE PrefixToplevelCloserParselet_parsePrefix
             \/ PrefixUnsupportedTokenParselet_parsePrefix
    <2>1. PICK op \in {"ERROR_UNEXPECTEDCLOSER", "ERROR_UNSUPPORTEDTOKEN"} :
            /\ Calling("parsePrefix") /\ NodeStack' = Append(NodeStack, [t EXCEPT !.op = op])
            /\ Goto("Parser_tryContinue") /\ buffer' = t.hi
            /\ UNCHANGED <<exprs, aborted>>
      BY <1>5 DEF PrefixToplevelCloserParselet_parsePrefix,
         PrefixUnsupportedTokenParselet_parsePrefix, Prefix, PushOperandError
    <2> DEFINE N == [t EXCEPT !.op = op]
    <2>2. N \in Node /\ N.lo = t.lo /\ N.hi = t.hi
      BY <1>1, <2>1, ErrorKinds, ReplacedNode
    <2>3. NodeStack' = Append(NodeStack, N)
      BY <2>1
    <2> HIDE DEF N
    <2> QED  BY <1>1, <2>1, <2>2, <2>3, OperandDone
  <1>6. CASE PrefixUnhandledParselet_parsePrefix
    BY <1>6, UnhandledInPlace
  <1>7. CASE PrefixOperatorParselet_parsePrefix
    <2>1. /\ Calling("parsePrefix") /\ TakeOperator(t) /\ ParsePrefix(AfterOperator(t))
          /\ call.P.class = "PrefixOperator" /\ UNCHANGED <<exprs, aborted>>
      BY <1>7 DEF PrefixOperatorParselet_parsePrefix, Prefix
    <2>2. t.hi \in 0..Len(input)
      BY <2>1, PrefixTokenInside
    <2> QED  BY <1>1, <2>1, <2>2, PrefixPlace, OperandInPlace
  <1>8. CASE PrefixOperatorParselet_reducePrefixOperator
    BY <1>8, ReduceForInPlace DEF PrefixOperatorParselet_reducePrefixOperator, ReduceFns,
       NodeKinds
  <1> QED  BY <1>2, <1>3, <1>4, <1>5, <1>6, <1>7, <1>8 DEF PrefixNext

-----------------------------------------------------------------------------
(* Operators                                                               *)

\* The token is in place when parseInfix is called.
LEMMA InfixPlace ==
  ASSUME Inv, InPlace, Calling("parseInfix")
  PROVE  /\ call.fn \in TokenFns /\ call.tok \in Token /\ call.tok \in Node
         /\ call.tok.lo = buffer /\ call.tok.hi \in 0..Len(input)
  <1>1. call.fn \in TokenFns
    BY TokenFnsAre DEF Calling
  <1> QED  BY <1>1, StackTypes, InfixType, TokenIsNode DEF InPlace, TokenInPlace

LEMMA InfixOperandInPlace ==
  ASSUME Inv, InPlace, Calling("parseInfix"), TakeOperator(call.tok),
         ParsePrefix(AfterOperator(call.tok)), UNCHANGED <<exprs, aborted>>
  PROVE  InPlace'
  BY InfixPlace, OperandInPlace

LEMMA UnwindInPlace ==
  ASSUME aborted, UNCHANGED aborted, NEW next \in {"Parser_tryContinue", "return"},
         Goto(next)
  PROVE  InPlace'
  BY FreeCall, AbortedInPlace DEF Goto

\* A loop passes the trivia up to its operator t, takes t, and passes the
\* trivia up to r.
LEMMA ReachesOperator ==
  ASSUME Inv, NEW q \in buffer..Len(input), NEW t \in Token, t.lo = q
  PROVE  /\ Reaches(NodeStack \o TriviaTokens(buffer, q), q)
         /\ Reaches(NodeStack \o TriviaTokens(buffer, q) \o <<t>>, t.hi)
         /\ Reaches(Append(NodeStack \o TriviaTokens(buffer, q), t), t.hi)
  <1>1. buffer \in Nat /\ q \in Nat /\ buffer <= q
    BY StackTypes
  <1>2. Reaches(NodeStack \o TriviaTokens(buffer, q), q)
    BY <1>1, ReachesHere, ReachesTrivia
  <1> QED  BY <1>2, TokenIsNode, ReachesNode

LEMMA ReachesPast ==
  ASSUME Inv, NEW q \in buffer..Len(input), NEW t \in Token, t.lo = q,
         t.hi \in 0..Len(input), NEW r \in t.hi..Len(input)
  PROVE  Reaches(NodeStack \o TriviaTokens(buffer, q) \o <<t>> \o TriviaTokens(t.hi, r), r)
  <1>1. t.hi \in Nat /\ r \in Nat /\ t.hi <= r
    BY StackTypes
  <1> QED  BY <1>1, ReachesOperator, ReachesTrivia

\* The node stack is nodes, and the operand at q is parsed.
LEMMA ParseInPlace ==
  ASSUME Inv, InPlace, NEW q \in 0..Len(input), Reaches(NodeStack', q), buffer' = q,
         ParsePrefix(Tokenizer_currentToken(q)), UNCHANGED <<exprs, aborted>>
  PROVE  InPlace'
  <1>1. TokenInPlace' /\ call'.fn = "parsePrefix"
    BY StackTypes, TokenFnsAre, NextInPlace DEF ParsePrefix
  <1> QED  BY <1>1, ReachStep

\* The node stack is nodes, and a function that takes no token is called.
LEMMA GoOnInPlace ==
  ASSUME InPlace, Reaches(NodeStack', buffer'),
         NEW fn \in LoopFns \union ReduceFns \union
           {"Parser_parseClimb", "Parser_tryContinue", "return",
            "ColonColonParselet_parseLoop", "TildeParselet_parse1",
            "SlashColonParselet_parse1", "SemiSemiParselet_parse1",
            "SemiSemiParselet_parse2", "IntegralParselet_parse1"},
         NEW P, NEW t, Jump(fn, P, t), UNCHANGED <<exprs, aborted>>
  PROVE  InPlace'
  BY FreeCall, ReachStep

LEMMA ContinueInPlace ==
  ASSUME Inv, InPlace, NEW q \in buffer..Len(input), NEW t \in Token, t.lo = q,
         t.hi \in 0..Len(input),
         NodeStack' = NodeStack \o TriviaTokens(buffer, q) \o <<t>>
                        \o TriviaTokens(t.hi, TriviaEnd(t.hi)),
         buffer' = TriviaEnd(t.hi), ParsePrefix(AfterOperator(t)),
         UNCHANGED <<exprs, aborted>>
  PROVE  InPlace'
  <1> DEFINE e == TriviaEnd(t.hi)
  <1>1. e \in t.hi..Len(input) /\ e \in 0..Len(input)
    BY TriviaEndType
  <1>2. ParsePrefix(Tokenizer_currentToken(e)) /\ buffer' = e
    BY DEF AfterOperator
  <1>3. NodeStack' = NodeStack \o TriviaTokens(buffer, q) \o <<t>> \o TriviaTokens(t.hi, e)
    OBVIOUS
  <1> HIDE DEF e
  <1>4. Reaches(NodeStack', e)
    BY <1>1, <1>3, ReachesPast
  <1> QED  BY <1>1, <1>2, <1>4, ParseInPlace

LEMMA ImplicitTimesPlace ==
  ASSUME Inv, NEW p \in 0..Len(input)
  PROVE  TimesAt(p).lo = p /\ TimesAt(p).hi \in {p, p + 1}
  <1> DEFINE t == Tokenizer_currentToken(p)
  <1>1. t \in Token /\ t.lo = p /\ t.hi = p + 1
    BY StackTypes, CurrentTokenType
  <1>2. TimesAt(p) \in {t, FAKE_IMPLICITTIMES(t)}
    BY DEF TimesAt, processImplicitTimes
  <1> HIDE DEF t
  <1>3. FAKE_IMPLICITTIMES(t).lo = p /\ FAKE_IMPLICITTIMES(t).hi = p
    BY <1>1, ErrorKinds, EmptyNode DEF FAKE_IMPLICITTIMES
  <1> QED  BY <1>1, <1>2, <1>3

\* What follows a semicolon at q, when the node stack has become nodes.
LEMMA AfterSemiInPlace ==
  ASSUME Inv, InPlace, NEW q \in 0..Len(input), NEW nodes, Reaches(nodes, q),
         AfterSemi(nodes, Tokenizer_currentToken(q)), UNCHANGED <<exprs, aborted>>
  PROVE  InPlace'
  <1> DEFINE t == Tokenizer_currentToken(q)
             N == Empty("FAKE_IMPLICITNULL", t)
  <1>1. t \in Token /\ t.lo = q /\ buffer' = q
    BY TokenAt DEF AfterSemi
  <1>2. \/ ImplicitOperand("FAKE_IMPLICITNULL", t, nodes, "SemiParselet_parseLoop")
        \/ NodeStack' = nodes /\ ParsePrefix(t)
        \/ NodeStack' = Append(nodes, N) /\ Goto("SemiParselet_reduceCompoundExpression")
    BY DEF AfterSemi
  <1>3. N \in Node /\ N.lo = q /\ N.hi = q
    <2> HIDE DEF t
    <2> QED  BY <1>1, ErrorKinds, EmptyNode
  <1>4. Reaches(Append(nodes, N), q)
    <2> HIDE DEF N
    <2> QED  BY <1>3, ReachesNode
  <1>5. CASE NodeStack' = nodes /\ ParsePrefix(t)
    BY <1>1, <1>5, ParseInPlace
  <1>6. CASE /\ NodeStack' = Append(nodes, N)
             /\ \/ Jump("SemiParselet_parseLoop", NoParselet, NoToken)
                \/ Jump("SemiParselet_reduceCompoundExpression", NoParselet, NoToken)
    BY <1>1, <1>4, <1>6, GoOnInPlace DEF LoopFns, ReduceFns
  <1> QED  BY <1>2, <1>5, <1>6 DEF ImplicitOperand, Goto

LEMMA InfixLoopInPlace == Inv /\ InPlace /\ InfixOperatorParselet_parseLoop => InPlace'
  <1> SUFFICES ASSUME Inv, InPlace, InfixOperatorParselet_parseLoop PROVE InPlace'
    OBVIOUS
  <1> DEFINE q == TriviaEnd(buffer)
             t == Tokenizer_currentToken(q)
  <1>1. /\ Calling("InfixOperatorParselet_parseLoop") /\ UNCHANGED <<exprs, aborted>>
        /\ \/ EndLoop(q, "InfixOperatorParselet_reduceInfixOperator")
           \/ /\ getOp(infixParselets[t.op]) = call.P.op
              /\ ContinueLoop(q, t, "InfixOperatorParselet_parseLoop")
    BY DEF InfixOperatorParselet_parseLoop, Looping
  <1>2. /\ q \in buffer..Len(input) /\ t \in Token /\ t.lo = q
        /\ t.op # "ENDOFFILE" => t.hi \in 0..Len(input)
    BY StackTypes, TriviaEndType, TokenAt
  <1>3. CASE EndLoop(q, "InfixOperatorParselet_reduceInfixOperator")
    <2> HIDE DEF q
    <2> QED  BY <1>1, <1>2, <1>3, EndLoopInPlace DEF ReduceFns
  <1>4. CASE /\ getOp(infixParselets[t.op]) = call.P.op
             /\ ContinueLoop(q, t, "InfixOperatorParselet_parseLoop")
    <2>1. call.P \in Parselet /\ call.P.class = "InfixOperator"
      BY <1>1, StackTypes, CallFields DEF Calling, ClassesFor
    <2>2. t.op # "ENDOFFILE"
      BY <1>4, <2>1, ParseletFields, EndOfFileAssumption DEF getOp, New
    <2> HIDE DEF q, t
    <2> QED  BY <1>1, <1>2, <1>4, <2>2, ContinueInPlace DEF ContinueLoop
  <1> QED  BY <1>1, <1>3, <1>4

LEMMA TimesLoopInPlace == Inv /\ InPlace /\ TimesParselet_parseLoop => InPlace'
  <1> SUFFICES ASSUME Inv, InPlace, TimesParselet_parseLoop PROVE InPlace'
    OBVIOUS
  <1> DEFINE q == TimesLoopEnd
             t == TimesAt(q)
  <1>1. /\ UNCHANGED <<exprs, aborted>>
        /\ \/ EndLoop(q, "TimesParselet_reduceTimes")
           \/ /\ infixParselets[t.op].class = "Times"
              /\ ContinueLoop(q, t, "TimesParselet_parseLoop")
    BY DEF TimesParselet_parseLoop
  <1>2. q \in buffer..Len(input) /\ q \in 0..Len(input)
    BY TimesLoopEndType
  <1>3. CASE EndLoop(q, "TimesParselet_reduceTimes")
    <2> HIDE DEF q
    <2> QED  BY <1>1, <1>2, <1>3, EndLoopInPlace DEF ReduceFns
  <1>4. CASE /\ infixParselets[t.op].class = "Times"
             /\ ContinueLoop(q, t, "TimesParselet_parseLoop")
    <2>1. t \in Token /\ t.hi \in 0..Len(input) /\ t.lo = q
      BY <1>2, <1>4, TimesAtType, ImplicitTimesPlace
    <2> HIDE DEF q, t
    <2> QED  BY <1>1, <1>2, <1>4, <2>1, ContinueInPlace DEF ContinueLoop
  <1> QED  BY <1>1, <1>3, <1>4

\* An operand without characters follows, and the loop goes round again.
LEMMA ImplicitInPlace ==
  ASSUME Inv, InPlace, NEW kind \in LeafKinds, NEW t \in Token, NEW nodes,
         Reaches(nodes, t.lo), buffer' = t.lo, NEW loop \in LoopFns,
         ImplicitOperand(kind, t, nodes, loop), UNCHANGED <<exprs, aborted>>
  PROVE  InPlace'
  <1> DEFINE N == Empty(kind, t)
  <1>1. N \in Node /\ N.lo = t.lo /\ N.hi = t.lo
    BY EmptyNode
  <1>2. NodeStack' = Append(nodes, N) /\ Jump(loop, NoParselet, NoToken)
    BY DEF ImplicitOperand
  <1> HIDE DEF N
  <1>3. Reaches(NodeStack', buffer')
    BY <1>1, <1>2, ReachesNode
  <1> QED  BY <1>2, <1>3, GoOnInPlace

LEMMA CommaInfixInPlace == Inv /\ InPlace /\ CommaParselet_parseInfix => InPlace'
  <1> SUFFICES ASSUME Inv, InPlace, CommaParselet_parseInfix PROVE InPlace'
    OBVIOUS
  <1> DEFINE t == call.tok
             u == AfterOperator(t)
  <1>1. /\ Calling("parseInfix") /\ buffer' = u.lo /\ UNCHANGED <<exprs, aborted>>
        /\ \/ ImplicitOperand("ERROR_INFIXIMPLICITNULL", u, WithOperator(t),
                              "CommaParselet_parseLoop")
           \/ NodeStack' = WithOperator(t) /\ ParsePrefix(u)
    BY DEF CommaParselet_parseInfix, Infix
  <1>2. call.fn \in TokenFns /\ t \in Token /\ t.hi \in 0..Len(input)
    BY <1>1, InfixPlace
  <1>3. u \in Token /\ u.lo = TriviaEnd(t.hi) /\ Reaches(WithOperator(t), u.lo)
    BY <1>2, ReachesTaken
  <1>4. CASE ImplicitOperand("ERROR_INFIXIMPLICITNULL", u, WithOperator(t),
                             "CommaParselet_parseLoop")
    <2> HIDE DEF u
    <2> QED  BY <1>1, <1>3, <1>4, ErrorKinds, ImplicitInPlace DEF LoopFns
  <1>5. CASE NodeStack' = WithOperator(t) /\ ParsePrefix(u)
    BY <1>1, <1>2, <1>3, <1>5, OperandInPlace DEF TakeOperator
  <1> QED  BY <1>1, <1>4, <1>5

LEMMA CommaLoopInPlace == Inv /\ InPlace /\ CommaParselet_parseLoop => InPlace'
  <1> SUFFICES ASSUME Inv, InPlace, CommaParselet_parseLoop PROVE InPlace'
    OBVIOUS
  <1> DEFINE q     == TriviaEnd(buffer)
             t     == Tokenizer_currentToken(q)
             u     == AfterOperator(t)
             nodes == NodeStack \o TriviaTokens(buffer, q) \o <<t>>
                        \o TriviaTokens(t.hi, u.lo)
  <1>1. /\ UNCHANGED <<exprs, aborted>>
        /\ \/ EndLoop(q, "CommaParselet_reduceComma")
           \/ /\ t.op \in Commas
              /\ ImplicitOperand("ERROR_INFIXIMPLICITNULL", u, nodes,
                                 "CommaParselet_parseLoop")
              /\ buffer' = u.lo
           \/ t.op \in Commas /\ ContinueLoop(q, t, "CommaParselet_parseLoop")
    BY DEF CommaParselet_parseLoop, Looping
  <1>2. /\ q \in buffer..Len(input) /\ t \in Token /\ t.lo = q
        /\ t.op # "ENDOFFILE" => t.hi \in 0..Len(input)
    BY StackTypes, TriviaEndType, TokenAt
  <1>3. t.op \in Commas => t.hi \in 0..Len(input)
    BY <1>2 DEF Commas
  <1>4. CASE EndLoop(q, "CommaParselet_reduceComma")
    <2> HIDE DEF q
    <2> QED  BY <1>1, <1>2, <1>4, EndLoopInPlace DEF ReduceFns
  <1>5. CASE /\ t.op \in Commas
             /\ ImplicitOperand("ERROR_INFIXIMPLICITNULL", u, nodes,
                                "CommaParselet_parseLoop")
             /\ buffer' = u.lo
    <2>1. u \in Token /\ u.lo \in t.hi..Len(input)
      <3> HIDE DEF t
      <3> QED  BY <1>2, <1>3, <1>5, OperatorType, TriviaEndType
    <2> HIDE DEF q, t, u
    <2>2. Reaches(nodes, u.lo)
      BY <1>2, <1>3, <1>5, <2>1, ReachesPast
    <2> HIDE DEF nodes
    <2> QED  BY <1>1, <1>5, <2>1, <2>2, ErrorKinds, ImplicitInPlace DEF LoopFns
  <1>6. CASE t.op \in Commas /\ ContinueLoop(q, t, "CommaParselet_parseLoop")
    <2> HIDE DEF q, t
    <2> QED  BY <1>1, <1>2, <1>3, <1>6, ContinueInPlace DEF ContinueLoop
  <1> QED  BY <1>1, <1>4, <1>5, <1>6

LEMMA SemiInfixInPlace == Inv /\ InPlace /\ SemiParselet_parseInfix => InPlace'
  <1> SUFFICES ASSUME Inv, InPlace, SemiParselet_parseInfix PROVE InPlace'
    OBVIOUS
  <1> DEFINE t     == call.tok
             q     == TriviaButNotToplevelNewlinesEnd(t.hi)
             nodes == Append(NodeStack, t) \o TriviaTokens(t.hi, q)
  <1>1. /\ Calling("parseInfix") /\ AfterSemi(nodes, Tokenizer_currentToken(q))
        /\ UNCHANGED <<exprs, aborted>>
    BY DEF SemiParselet_parseInfix, Infix
  <1>2. t \in Node /\ t.lo = buffer /\ t.hi \in 0..Len(input)
    BY <1>1, InfixPlace
  <1>3. q \in t.hi..Len(input) /\ q \in 0..Len(input)
    BY <1>2, TriviaEndType
  <1>4. Reaches(nodes, q)
    <2>1. Reaches(Append(NodeStack, t), t.hi)
      BY <1>2, ReachesHere, ReachesNode
    <2>2. t.hi \in Nat /\ q \in Nat /\ t.hi <= q
      <3> HIDE DEF q
      <3> QED  BY <1>2, <1>3, StackTypes
    <2> QED  BY <2>1, <2>2, ReachesTrivia
  <1> HIDE DEF nodes, q
  <1> QED  BY <1>1, <1>3, <1>4, AfterSemiInPlace

LEMMA SemiLoopInPlace == Inv /\ InPlace /\ SemiParselet_parseLoop => InPlace'
  <1> SUFFICES ASSUME Inv, InPlace, SemiParselet_parseLoop PROVE InPlace'
    OBVIOUS
  <1> DEFINE q     == TriviaEnd(buffer)
             t     == Tokenizer_currentToken(q)
             r     == TriviaButNotToplevelNewlinesEnd(t.hi)
             nodes == NodeStack \o TriviaTokens(buffer, q) \o <<t>>
                        \o TriviaTokens(t.hi, r)
  <1>1. /\ UNCHANGED <<exprs, aborted>>
        /\ \/ EndLoop(q, "SemiParselet_reduceCompoundExpression")
           \/ t.op = "SEMI" /\ AfterSemi(nodes, Tokenizer_currentToken(r))
    BY DEF SemiParselet_parseLoop, Looping
  <1>2. /\ q \in buffer..Len(input) /\ t \in Token /\ t.lo = q
        /\ t.op # "ENDOFFILE" => t.hi \in 0..Len(input)
    BY StackTypes, TriviaEndType, TokenAt
  <1>3. CASE EndLoop(q, "SemiParselet_reduceCompoundExpression")
    <2> HIDE DEF q
    <2> QED  BY <1>1, <1>2, <1>3, EndLoopInPlace DEF ReduceFns
  <1>4. CASE t.op = "SEMI" /\ AfterSemi(nodes, Tokenizer_currentToken(r))
    <2>1. t.hi \in 0..Len(input)
      BY <1>2, <1>4
    <2> HIDE DEF q, t
    <2>2. r \in t.hi..Len(input) /\ r \in 0..Len(input)
      BY <2>1, TriviaEndType
    <2> HIDE DEF r
    <2>3. Reaches(nodes, r)
      BY <1>2, <2>1, <2>2, ReachesPast
    <2> HIDE DEF nodes
    <2> QED  BY <1>1, <1>4, <2>2, <2>3, AfterSemiInPlace
  <1> QED  BY <1>1, <1>3, <1>4

LEMMA OperatorInPlace == Inv /\ InPlace /\ OperatorNext => InPlace'
  <1> SUFFICES ASSUME Inv, InPlace, OperatorNext PROVE InPlace'
    OBVIOUS
  <1>1. CASE parseInfix_abort \/ parseLoop_abort
    BY <1>1, UnwindInPlace DEF parseInfix_abort, parseLoop_abort
  <1>2. CASE BinaryOperatorParselet_parseInfix \/ InfixOperatorParselet_parseInfix
             \/ TimesParselet_parseInfix
    <2>1. /\ Calling("parseInfix") /\ UNCHANGED <<exprs, aborted>>
          /\ \E ctxt : TakeOperand(call.tok, ctxt)
      BY <1>2 DEF BinaryOperatorParselet_parseInfix, InfixOperatorParselet_parseInfix,
         TimesParselet_parseInfix, Infix
    <2> QED  BY <2>1, InfixOperandInPlace DEF TakeOperand
  <1>3. CASE PostfixOperatorParselet_parseInfix
    <2>1. /\ Calling("parseInfix") /\ NodeStack' = Append(NodeStack, call.tok)
          /\ buffer' = call.tok.hi /\ UNCHANGED <<exprs, aborted>>
          /\ Jump("PostfixOperatorParselet_reducePostfixOperator", call.P, NoToken)
      BY <1>3 DEF PostfixOperatorParselet_parseInfix, TakeLeaf
    <2>2. TokenInPlace' /\ call'.fn # "done"
      BY <2>1, FreeCall DEF ReduceFns
    <2> QED  BY <2>1, <2>2, InfixPlace, LeafInPlace
  <1>4. CASE BinaryOperatorParselet_reduceBinaryOperator
             \/ PostfixOperatorParselet_reducePostfixOperator
             \/ InfixOperatorParselet_reduceInfixOperator
    BY <1>4, ReduceForInPlace DEF BinaryOperatorParselet_reduceBinaryOperator,
       PostfixOperatorParselet_reducePostfixOperator,
       InfixOperatorParselet_reduceInfixOperator, ReduceFns, NodeKinds
  <1>5. CASE TimesParselet_reduceTimes \/ SemiParselet_reduceCompoundExpression
    BY <1>5, ReduceForInPlace DEF TimesParselet_reduceTimes,
       SemiParselet_reduceCompoundExpression, ReduceFns, NodeKinds, Ops
  <1>6. CASE CommaParselet_reduceComma
    <2>1. ReduceContext("CommaParselet_reduceComma", "Infix", "Comma", "Parser_tryContinue")
      BY <1>6 DEF CommaParselet_reduceComma
    <2>2. /\ "CommaParselet_reduceComma" \in ReduceFns /\ "Infix" \in NodeKinds
          /\ "Comma" \in Ops
      BY DEF ReduceFns, NodeKinds, Ops
    <2>3. "Parser_tryContinue" \in {"Parser_parseClimb", "Parser_tryContinue", "return"}
      OBVIOUS
    <2> QED  BY <2>1, <2>2, <2>3, ReduceInPlace
  <1> QED  BY <1>1, <1>2, <1>3, <1>4, <1>5, <1>6, InfixLoopInPlace, TimesLoopInPlace,
       CommaInfixInPlace, CommaLoopInPlace, SemiInfixInPlace, SemiLoopInPlace
       DEF OperatorNext

-----------------------------------------------------------------------------
(* Groups                                                                  *)

\* The trivia up to q are passed, and what follows is called with the token
\* at q.
LEMMA HandOnInPlace ==
  ASSUME Inv, InPlace, NEW q \in buffer..Len(input),
         NodeStack' = NodeStack \o TriviaTokens(buffer, q), buffer' = q,
         NEW fn \in TokenFns, fn # "done", NEW P,
         Jump(fn, P, Tokenizer_currentToken(q)), UNCHANGED <<exprs, aborted>>
  PROVE  InPlace'
  <1>1. buffer \in Nat /\ q \in Nat /\ buffer <= q
    BY StackTypes
  <1>2. Reaches(NodeStack', buffer')
    BY <1>1, ReachesHere, ReachesTrivia
  <1>3. TokenInPlace' /\ call'.fn = fn
    BY <1>1, StackTypes, NextInPlace
  <1> QED  BY <1>2, <1>3, ReachStep

LEMMA GroupLoopInPlace == Inv /\ InPlace /\ GroupParselet_parseLoop => InPlace'
  <1> SUFFICES ASSUME Inv, InPlace, GroupParselet_parseLoop PROVE InPlace'
    OBVIOUS
  <1> DEFINE q == TriviaEnd(buffer)
             t == Tokenizer_currentToken(q)
  <1>1. /\ UNCHANGED <<exprs, aborted>>
        /\ \/ /\ NodeStack' = NodeStack \o TriviaTokens(buffer, q) \o <<t>>
              /\ buffer' = t.hi
              /\ Jump("GroupParselet_reduceGroup", call.P, NoToken)
           \/ EndLoop(q, "GroupParselet_reduceMissingCloser")
           \/ EndLoop(q, "GroupParselet_reduceUnterminatedGroup")
           \/ \E P : ParseInGroup(q, P, t)
    BY DEF GroupParselet_parseLoop
  <1>2. q \in buffer..Len(input) /\ t \in Token /\ t.lo = q
    BY StackTypes, TriviaEndType, TokenAt
  <1>3. CASE /\ NodeStack' = NodeStack \o TriviaTokens(buffer, q) \o <<t>>
             /\ buffer' = t.hi
             /\ Jump("GroupParselet_reduceGroup", call.P, NoToken)
    <2> HIDE DEF q, t
    <2>1. Reaches(NodeStack', buffer')
      BY <1>2, <1>3, ReachesOperator
    <2> QED  BY <1>1, <1>3, <2>1, GoOnInPlace DEF ReduceFns
  <1>4. CASE EndLoop(q, "GroupParselet_reduceMissingCloser")
             \/ EndLoop(q, "GroupParselet_reduceUnterminatedGroup")
    <2> HIDE DEF q
    <2> QED  BY <1>1, <1>2, <1>4, EndLoopInPlace DEF ReduceFns
  <1>5. CASE \E P : ParseInGroup(q, P, t)
    <2>1. PICK P : ParseInGroup(q, P, t)
      BY <1>5
    <2>2. /\ NodeStack' = NodeStack \o TriviaTokens(buffer, q) /\ buffer' = q
          /\ Jump("parsePrefix", P, Tokenizer_currentToken(q))
      BY <2>1 DEF ParseInGroup
    <2> HIDE DEF q
    <2> QED  BY <1>1, <1>2, <2>2, TokenFnsAre, HandOnInPlace
  <1> QED  BY <1>1, <1>3, <1>4, <1>5

\* The same token is handed on.
LEMMA SameTokenInPlace ==
  ASSUME Inv, InPlace, call.fn \in TokenFns, UNCHANGED buffer,
         Reaches(NodeStack', buffer), NEW fn \in TokenFns, fn # "done", NEW P,
         Jump(fn, P, call.tok), UNCHANGED <<exprs, aborted>>
  PROVE  InPlace'
  <1>1. TokenInPlace' /\ call'.fn = fn
    BY DEF Jump, TokenInPlace, InPlace
  <1> QED  BY <1>1, ReachStep

LEMMA GroupInPlace == Inv /\ InPlace /\ GroupNext => InPlace'
  <1> SUFFICES ASSUME Inv, InPlace, GroupNext PROVE InPlace'
    OBVIOUS
  <1>1. CASE GroupParselet_parsePrefix
    <2>1. /\ Calling("parsePrefix") /\ NodeStack' = Append(NodeStack, call.tok)
          /\ buffer' = call.tok.hi /\ UNCHANGED <<exprs, aborted>>
          /\ Jump("GroupParselet_parseLoop", call.P, NoToken)
      BY <1>1 DEF GroupParselet_parsePrefix, TakeLeaf, Prefix
    <2>2. TokenInPlace' /\ call'.fn # "done"
      BY <2>1, FreeCall DEF LoopFns
    <2> QED  BY <2>1, <2>2, PrefixPlace, LeafInPlace
  <1>2. CASE GroupParselet_parseLoop_abort
    BY <1>2, UnwindInPlace DEF GroupParselet_parseLoop_abort
  <1>3. CASE GroupParselet_reduce
    <2>1. call.P.op \in Ops
      BY StackTypes, CallFields, ParseletFields
    <2> QED  BY <1>3, <2>1, ReduceInPlace DEF GroupParselet_reduce, ReduceFns, NodeKinds
  <1>4. CASE CallParselet_parseInfix
    <2>1. /\ Calling("parseInfix") /\ UNCHANGED <<buffer, NodeStack, exprs, aborted>>
          /\ \E P : Jump("parsePrefix", P, call.tok)
      BY <1>4 DEF CallParselet_parseInfix, Infix
    <2>2. Reaches(NodeStack', buffer)
      BY <2>1, ReachesHere
    <2> QED  BY <2>1, <2>2, InfixPlace, TokenFnsAre, SameTokenInPlace
  <1>5. CASE CallParselet_reduceCall
    BY <1>5, ReduceForInPlace DEF CallParselet_reduceCall, ReduceFns, NodeKinds, Ops
  <1> QED  BY <1>1, <1>2, <1>3, <1>4, <1>5, GroupLoopInPlace DEF GroupNext

-----------------------------------------------------------------------------
(* Patterns, slots and outputs                                             *)

\* The token of the call is taken, and the one behind it.
LEMMA ReachesPair ==
  ASSUME Inv, InPlace, call.fn \in TokenFns, call.tok \in Token,
         NEW s \in Token, s.lo = call.tok.hi
  PROVE  /\ Reaches(Append(NodeStack, call.tok), call.tok.hi)
         /\ Reaches(Append(Append(NodeStack, call.tok), s), s.hi)
  <1>1. call.tok.lo = buffer /\ call.tok \in Node /\ s \in Node
    BY TokenIsNode DEF InPlace, TokenInPlace
  <1>2. Reaches(Append(NodeStack, call.tok), call.tok.hi)
    BY <1>1, ReachesHere, ReachesNode
  <1>3. Reaches(Append(Append(NodeStack, call.tok), s), s.hi)
    <2> DEFINE nodes == Append(NodeStack, call.tok)
    <2> HIDE DEF nodes
    <2>1. Reaches(nodes, call.tok.hi) => Reaches(Append(nodes, s), s.hi)
      BY <1>1, ReachesNode
    <2> QED  BY <1>2, <2>1 DEF nodes
  <1> QED  BY <1>2, <1>3

LEMMA TakePairInPlace ==
  ASSUME Inv, InPlace, Calling("parsePrefix"), NEW s \in Token, s.lo = call.tok.hi,
         NEW toks, NEW fn \in ReduceFns, TakePair(call.tok, s, toks, fn),
         UNCHANGED <<exprs, aborted>>
  PROVE  InPlace'
  <1> DEFINE t == call.tok
  <1>1. \/ /\ NodeStack' = Append(Append(NodeStack, t), s) /\ buffer' = s.hi /\ Goto(fn)
        \/ /\ NodeStack' = Append(NodeStack, t) /\ buffer' = t.hi
           /\ Goto("Parser_parseClimb")
    BY DEF TakePair
  <1>2. Reaches(NodeStack', buffer')
    BY <1>1, PrefixPlace, ReachesPair
  <1> QED  BY <1>1, <1>2, GoOnInPlace DEF Goto

LEMMA TakeAndCallInPlace ==
  ASSUME Inv, InPlace, call.fn \in TokenFns, call.tok \in Token,
         call.tok.hi \in 0..Len(input), NEW fn \in ContextSensitiveFns, NEW P,
         NEW reduceFn, NEW reduceP,
         TakeAndCall(call.tok, Tokenizer_currentToken(call.tok.hi), fn, P, reduceFn, reduceP),
         UNCHANGED <<exprs, aborted>>
  PROVE  InPlace'
  <1> DEFINE t == call.tok
  <1>1. /\ NodeStack' = Append(NodeStack, t) /\ buffer' = t.hi
        /\ Jump(fn, P, Tokenizer_currentToken(t.hi))
    BY DEF TakeAndCall
  <1>2. Reaches(NodeStack', buffer')
    <2>1. t.lo = buffer /\ t \in Node
      BY TokenIsNode DEF InPlace, TokenInPlace
    <2> QED  BY <1>1, <2>1, ReachesHere, ReachesNode
  <1>3. TokenInPlace' /\ call'.fn = fn /\ fn # "done"
    <2>1. fn \in TokenFns /\ fn # "done" /\ t.hi \in Nat
      BY TokenFnsAre, StackTypes DEF ContextSensitiveFns
    <2> QED  BY <1>1, <2>1, StackTypes, NextInPlace
  <1> QED  BY <1>2, <1>3, ReachStep

\* The token is taken and nothing else is read.
LEMMA TakeLeafInPlace ==
  ASSUME Inv, InPlace, call.fn \in TokenFns, call.tok \in Token,
         NodeStack' = Append(NodeStack, call.tok), buffer' = call.tok.hi,
         NEW fn \in LoopFns \union ReduceFns \union
           {"Parser_parseClimb", "return", "SemiSemiParselet_parse1"},
         NEW P, NEW t, Jump(fn, P, t), UNCHANGED <<exprs, aborted>>
  PROVE  InPlace'
  <1>1. TokenInPlace' /\ call'.fn # "done"
    BY FreeCall
  <1>2. call.tok \in Node
    BY TokenIsNode
  <1> QED  BY <1>1, <1>2, LeafInPlace

LEMMA BlankFromInPlace ==
  ASSUME Inv, InPlace, call.fn \in TokenFns, call.tok \in Token,
         call.tok.hi \in 0..Len(input), NEW reduceFn \in ReduceFns,
         NEW otherwise \in {"Parser_parseClimb", "return"},
         BlankFrom(reduceFn, otherwise), UNCHANGED <<exprs, aborted>>
  PROVE  InPlace'
  <1> DEFINE t == call.tok
             s == Tokenizer_currentToken(t.hi)
  <1>1. \/ TakeAndCall(t, s, "SymbolParselet_parseInfixContextSensitive",
                       New("Symbol"), reduceFn, call.P)
        \/ /\ NodeStack' = Append(Append(NodeStack, t), s) /\ buffer' = s.hi
           /\ Jump(reduceFn, call.P, NoToken)
        \/ /\ NodeStack' = Append(NodeStack, t) /\ buffer' = t.hi
           /\ Jump(otherwise, NoParselet, NoToken)
    BY DEF BlankFrom, TakeLeaf, Goto
  <1>2. CASE TakeAndCall(t, s, "SymbolParselet_parseInfixContextSensitive",
                         New("Symbol"), reduceFn, call.P)
    BY <1>2, TakeAndCallInPlace DEF ContextSensitiveFns
  <1>3. CASE /\ NodeStack' = Append(Append(NodeStack, t), s) /\ buffer' = s.hi
             /\ Jump(reduceFn, call.P, NoToken)
    <2>1. s \in Token /\ s.lo = t.hi
      BY TokenAt
    <2> HIDE DEF s
    <2>2. Reaches(NodeStack', buffer')
      BY <1>3, <2>1, ReachesPair
    <2> QED  BY <1>3, <2>2, GoOnInPlace
  <1>4. CASE /\ NodeStack' = Append(NodeStack, t) /\ buffer' = t.hi
             /\ Jump(otherwise, NoParselet, NoToken)
    BY <1>4, TakeLeafInPlace
  <1> QED  BY <1>1, <1>2, <1>3, <1>4

\* The token is in place when the next part of a pattern is read.
LEMMA ReadingPlace ==
  ASSUME Inv, call.fn \in ContextSensitiveFns
  PROVE  call.fn \in TokenFns /\ call.tok \in Token /\ call.tok.hi \in 0..Len(input)
  BY TokenFnsAre, ReadingType

LEMMA PatternInPlace == Inv /\ InPlace /\ PatternNext => InPlace'
  <1> SUFFICES ASSUME Inv, InPlace, PatternNext PROVE InPlace'
    OBVIOUS
  <1> DEFINE t == call.tok
             s == Tokenizer_currentToken(t.hi)
  <1>1. ASSUME Calling("parsePrefix"), call.P.class # "PrefixEndOfFile"
        PROVE  /\ call.fn \in TokenFns /\ t \in Token /\ t.hi \in 0..Len(input)
               /\ t.hi \in Nat
    BY <1>1, StackTypes, PrefixPlace, PrefixTokenInside
  <1>2. CASE SymbolParselet_parsePrefix
    <2>1. /\ Calling("parsePrefix") /\ call.P.class = "Symbol"
          /\ UNCHANGED <<exprs, aborted>>
          /\ \/ \E P : TakeAndCall(t, s, "UnderParselet_parseInfixContextSensitive", P,
                                   "SymbolParselet_reducePatternBlank", P)
             \/ \E P : TakeAndCall(t, s, "UnderDotParselet_parseInfixContextSensitive", P,
                                   "SymbolParselet_reducePatternOptionalDefault", P)
             \/ /\ NodeStack' = Append(NodeStack, t) /\ buffer' = t.hi
                /\ Jump("Parser_parseClimb", NoParselet, NoToken)
      BY <1>2 DEF SymbolParselet_parsePrefix, Prefix, TakeLeaf, Goto
    <2> QED  BY <1>1, <2>1, TakeAndCallInPlace, TakeLeafInPlace DEF ContextSensitiveFns
  <1>3. CASE SymbolParselet_parseInfixContextSensitive
             \/ UnderDotParselet_parseInfixContextSensitive
    <2>1. /\ call.fn \in ContextSensitiveFns /\ NodeStack' = Append(NodeStack, t)
          /\ buffer' = t.hi /\ Jump("return", NoParselet, NoToken)
          /\ UNCHANGED <<exprs, aborted>>
      BY <1>3 DEF SymbolParselet_parseInfixContextSensitive,
         UnderDotParselet_parseInfixContextSensitive, ContextSensitive, TakeLeaf, Calling,
         Goto, ContextSensitiveFns
    <2> QED  BY <2>1, ReadingPlace, TakeLeafInPlace
  <1>4. CASE ContextSensitive_abort
    BY <1>4, UnwindInPlace DEF ContextSensitive_abort
  <1>5. CASE UnderParselet_parsePrefix
    BY <1>1, <1>5, BlankFromInPlace DEF UnderParselet_parsePrefix, Prefix, ReduceFns
  <1>6. CASE UnderParselet_parseInfixContextSensitive
    <2>1. /\ call.fn \in ContextSensitiveFns /\ UNCHANGED <<exprs, aborted>>
          /\ BlankFrom("UnderParselet_reduceBlankContextSensitive", "return")
      BY <1>6 DEF UnderParselet_parseInfixContextSensitive, Calling, ContextSensitiveFns
    <2> QED  BY <2>1, ReadingPlace, BlankFromInPlace DEF ReduceFns
  <1>7. CASE UnderDotParselet_parsePrefix
    <2>1. /\ Calling("parsePrefix") /\ call.P.class = "UnderDot"
          /\ NodeStack' = Append(NodeStack, t) /\ buffer' = t.hi
          /\ Jump("Parser_parseClimb", NoParselet, NoToken) /\ UNCHANGED <<exprs, aborted>>
      BY <1>7 DEF UnderDotParselet_parsePrefix, Prefix, TakeLeaf, Goto
    <2> QED  BY <1>1, <2>1, TakeLeafInPlace
  <1>8. CASE HashParselet_parsePrefix
    <2> DEFINE u == Tokenizer_currentToken_INSIDE_SLOT(t.hi)
    <2>1. /\ Calling("parsePrefix") /\ call.P.class = "Hash"
          /\ TakePair(t, u, {"INTEGER", "STRING"}, "HashParselet_reduceSlot")
          /\ UNCHANGED <<exprs, aborted>>
      BY <1>8 DEF HashParselet_parsePrefix, Prefix
    <2>2. u \in Token
      BY <1>1, <2>1, StackTypes, SlotTokenType
    <2>3. u.lo = t.hi
      BY DEF Tokenizer_currentToken_INSIDE_SLOT, Leaf
    <2> HIDE DEF u
    <2> QED  BY <2>1, <2>2, <2>3, TakePairInPlace DEF ReduceFns
  <1>9. CASE HashHashParselet_parsePrefix \/ PercentParselet_parsePrefix
    <2>1. /\ Calling("parsePrefix") /\ call.P.class # "PrefixEndOfFile"
          /\ \/ TakePair(t, s, {"INTEGER"}, "HashHashParselet_reduceSlotSequence")
             \/ TakePair(t, s, {"INTEGER"}, "PercentParselet_reduceOut")
          /\ UNCHANGED <<exprs, aborted>>
      BY <1>9 DEF HashHashParselet_parsePrefix, PercentParselet_parsePrefix, Prefix
    <2>2. s \in Token /\ s.lo = t.hi
      BY <1>1, <2>1, TokenAt
    <2> HIDE DEF s
    <2> QED  BY <2>1, <2>2, TakePairInPlace DEF ReduceFns
  <1>10. CASE SymbolParselet_reduce \/ HashParselet_reduceSlot
              \/ HashHashParselet_reduceSlotSequence \/ PercentParselet_reduceOut
    BY ZenonT(60), <1>10, ReduceForInPlace DEF SymbolParselet_reduce, HashParselet_reduceSlot,
       HashHashParselet_reduceSlotSequence, PercentParselet_reduceOut, ReduceFns,
       NodeKinds, Ops
  <1>11. CASE UnderParselet_reduceBlank \/ UnderParselet_reduceBlankContextSensitive
    <2>1. call.P.op \in Ops
      BY StackTypes, CallFields, ParseletFields
    <2> QED  BY <1>11, <2>1, ReduceForInPlace, ReduceInPlace DEF UnderParselet_reduceBlank,
           UnderParselet_reduceBlankContextSensitive, ReduceFns, NodeKinds
  <1> QED  BY <1>2, <1>3, <1>4, <1>5, <1>6, <1>7, <1>8, <1>9, <1>10, <1>11 DEF PatternNext

-----------------------------------------------------------------------------
(* Operators in several parts                                              *)

LEMMA TakeUnsetInPlace ==
  ASSUME Inv, InPlace, call.fn \in TokenFns, call.tok \in Token,
         call.tok.hi \in 0..Len(input), NEW fn \in ReduceFns, TakeUnset(fn),
         UNCHANGED <<exprs, aborted>>
  PROVE  InPlace'
  <1> DEFINE u == AfterOperator(call.tok)
  <1>1. /\ NodeStack' = Append(WithOperator(call.tok), u) /\ buffer' = u.hi
        /\ Jump(fn, NoParselet, NoToken)
    BY DEF TakeUnset, Goto
  <1>2. u \in Node /\ Reaches(WithOperator(call.tok), u.lo)
    BY ReachesTaken, TokenIsNode
  <1> HIDE DEF u
  <1>3. Reaches(NodeStack', buffer')
    BY <1>1, <1>2, ReachesNode
  <1> QED  BY <1>1, <1>3, GoOnInPlace

LEMMA TildeLoopInPlace == Inv /\ InPlace /\ TildeParselet_parse1 => InPlace'
  <1> SUFFICES ASSUME Inv, InPlace, TildeParselet_parse1 PROVE InPlace'
    OBVIOUS
  <1> DEFINE q == TriviaEnd(buffer)
             t == Tokenizer_currentToken(q)
             e == TriviaEnd(t.hi)
  <1>1. /\ UNCHANGED <<exprs, aborted>>
        /\ \/ EndLoop(q, "TildeParselet_reduceError")
           \/ /\ t.op = "TILDE"
              /\ NodeStack' = NodeStack \o TriviaTokens(buffer, q) \o <<t>>
                                \o TriviaTokens(t.hi, e)
              /\ buffer' = e
              /\ ParsePrefix(AfterOperator(t))
    BY DEF TildeParselet_parse1, Looping
  <1>2. /\ q \in buffer..Len(input) /\ t \in Token /\ t.lo = q
        /\ t.op # "ENDOFFILE" => t.hi \in 0..Len(input)
    BY StackTypes, TriviaEndType, TokenAt
  <1>3. CASE EndLoop(q, "TildeParselet_reduceError")
    <2> HIDE DEF q
    <2> QED  BY <1>1, <1>2, <1>3, EndLoopInPlace DEF ReduceFns
  <1>4. CASE /\ t.op = "TILDE"
             /\ NodeStack' = NodeStack \o TriviaTokens(buffer, q) \o <<t>>
                               \o TriviaTokens(t.hi, e)
             /\ buffer' = e
             /\ ParsePrefix(AfterOperator(t))
    <2> HIDE DEF q, t
    <2> QED  BY <1>1, <1>2, <1>4, ContinueInPlace
  <1> QED  BY <1>1, <1>3, <1>4

LEMMA SlashColonLoopInPlace == Inv /\ InPlace /\ SlashColonParselet_parse1 => InPlace'
  <1> SUFFICES ASSUME Inv, InPlace, SlashColonParselet_parse1 PROVE InPlace'
    OBVIOUS
  <1> DEFINE q  == TriviaEnd(buffer)
             t  == Tokenizer_currentToken(q)
             fn == TagFunction(t.op)
  <1>1. /\ UNCHANGED <<exprs, aborted>>
        /\ \/ EndLoop(q, "SlashColonParselet_reduceError")
           \/ /\ NodeStack' = NodeStack \o TriviaTokens(buffer, q) /\ buffer' = q
              /\ Jump(fn, NoParselet, t)
    BY DEF SlashColonParselet_parse1
  <1>2. q \in buffer..Len(input)
    BY StackTypes, TriviaEndType
  <1>3. fn \in TokenFns /\ fn # "done"
    BY TokenFnsAre DEF TagFunction
  <1> HIDE DEF q, fn
  <1>4. CASE EndLoop(q, "SlashColonParselet_reduceError")
    BY <1>1, <1>2, <1>4, EndLoopInPlace DEF ReduceFns
  <1>5. CASE /\ NodeStack' = NodeStack \o TriviaTokens(buffer, q) /\ buffer' = q
             /\ Jump(fn, NoParselet, t)
    BY <1>1, <1>2, <1>3, <1>5, HandOnInPlace
  <1> QED  BY <1>1, <1>4, <1>5

\* What a span takes after its operator.
LEMMA SpanLoopInPlace == Inv /\ InPlace /\ SemiSemiParselet_parse1 => InPlace'
  <1> SUFFICES ASSUME Inv, InPlace, SemiSemiParselet_parse1 PROVE InPlace'
    OBVIOUS
  <1> DEFINE q     == TriviaButNotToplevelNewlinesEnd(buffer)
             t     == Tokenizer_currentToken(q)
             nodes == NodeStack \o TriviaTokens(buffer, q)
             N     == Empty("FAKE_IMPLICITALL", t)
             All   == Append(nodes, N)
             r     == TriviaButNotToplevelNewlinesEnd(t.hi)
             last  == Append(All, t) \o TriviaTokens(t.hi, r)
  <1>1. /\ Calling("SemiSemiParselet_parse1") /\ UNCHANGED <<exprs, aborted>>
        /\ \/ /\ NodeStack' = All /\ buffer' \in {q, t.lo}
              /\ Jump("SemiSemiParselet_reduceBinary", NoParselet, NoToken)
           \/ /\ NodeStack' = nodes /\ buffer' = q
              /\ Jump("parsePrefix", prefixParselets[t.op], t)
           \/ /\ t.op = "SEMISEMI" /\ NodeStack' = last /\ buffer' = r
              /\ ParsePrefix(Tokenizer_currentToken(r))
    BY DEF SemiSemiParselet_parse1, Looping, Token_reset, Goto, ParsePrefix
  <1>2. /\ q \in buffer..Len(input) /\ t \in Token /\ t.lo = q
        /\ t.op # "ENDOFFILE" =>
             t.hi \in 0..Len(input) /\ r \in t.hi..Len(input) /\ r \in 0..Len(input)
    BY <1>1, SpanTokens
  <1>3. Reaches(nodes, q)
    <2> HIDE DEF q
    <2> QED  BY <1>2, ReachesOperator
  <1>4. Reaches(All, q)
    <2>1. N \in Node /\ N.lo = q /\ N.hi = q
      <3> HIDE DEF t
      <3> QED  BY <1>2, ErrorKinds, EmptyNode
    <2> HIDE DEF nodes, N
    <2> QED  BY <1>3, <2>1, ReachesNode
  <1>5. CASE /\ NodeStack' = All /\ buffer' \in {q, t.lo}
             /\ Jump("SemiSemiParselet_reduceBinary", NoParselet, NoToken)
    <2>1. Reaches(NodeStack', buffer')
      BY <1>2, <1>4, <1>5
    <2> QED  BY <1>1, <1>5, <2>1, GoOnInPlace DEF ReduceFns
  <1>6. CASE /\ NodeStack' = nodes /\ buffer' = q
             /\ Jump("parsePrefix", prefixParselets[t.op], t)
    <2> HIDE DEF q
    <2> QED  BY <1>1, <1>2, <1>6, TokenFnsAre, HandOnInPlace
  <1>7. CASE /\ t.op = "SEMISEMI" /\ NodeStack' = last /\ buffer' = r
             /\ ParsePrefix(Tokenizer_currentToken(r))
    <2>1. t.hi \in Nat /\ r \in Nat /\ t.hi <= r /\ r \in 0..Len(input) /\ t \in Node
      <3> HIDE DEF t, r
      <3> QED  BY <1>2, <1>7, StackTypes, TokenIsNode
    <2> HIDE DEF q, t, All, r
    <2>2. Reaches(Append(All, t), t.hi)
      BY <1>2, <1>4, <2>1, ReachesNode
    <2>3. Reaches(last, r)
      BY <2>1, <2>2, ReachesTrivia
    <2> HIDE DEF last
    <2> QED  BY <1>1, <1>7, <2>1, <2>3, ParseInPlace
  <1> QED  BY <1>1, <1>5, <1>6, <1>7

LEMMA SpanEndInPlace == Inv /\ InPlace /\ SemiSemiParselet_parse2 => InPlace'
  <1> SUFFICES ASSUME Inv, InPlace, SemiSemiParselet_parse2 PROVE InPlace'
    OBVIOUS
  <1> DEFINE q == TriviaButNotToplevelNewlinesEnd(buffer)
             t == Tokenizer_currentToken(q)
             r == TriviaButNotToplevelNewlinesEnd(t.hi)
  <1>1. /\ Calling("SemiSemiParselet_parse2") /\ UNCHANGED <<exprs, aborted>>
        /\ \/ /\ buffer' \in {TriviaSeq_reset(q, TriviaTokens(buffer, q)),
                              TriviaSeq_reset(t.lo, TriviaTokens(buffer, q))}
              /\ UNCHANGED NodeStack
              /\ Jump("SemiSemiParselet_reduceBinary", NoParselet, NoToken)
           \/ /\ t.op = "SEMISEMI"
              /\ NodeStack' = NodeStack \o TriviaTokens(buffer, q) \o <<t>>
                                \o TriviaTokens(t.hi, r)
              /\ buffer' = r
              /\ ParsePrefix(Tokenizer_currentToken(r))
    BY DEF SemiSemiParselet_parse2, Looping, Token_reset, Goto, GiveBack
  <1>2. /\ q \in buffer..Len(input) /\ t \in Token /\ t.lo = q
        /\ t.op # "ENDOFFILE" =>
             t.hi \in 0..Len(input) /\ r \in t.hi..Len(input) /\ r \in 0..Len(input)
    BY <1>1, SpanTokens
  <1>3. CASE /\ buffer' \in {TriviaSeq_reset(q, TriviaTokens(buffer, q)),
                             TriviaSeq_reset(t.lo, TriviaTokens(buffer, q))}
             /\ UNCHANGED NodeStack
             /\ Jump("SemiSemiParselet_reduceBinary", NoParselet, NoToken)
    <2> HIDE DEF q, t
    <2>1. buffer' = buffer
      BY <1>2, <1>3, StackTypes, TriviaResetType
    <2>2. Reaches(NodeStack', buffer')
      BY <1>3, <2>1, ReachesHere
    <2> QED  BY <1>1, <1>3, <2>2, GoOnInPlace DEF ReduceFns
  <1>4. CASE /\ t.op = "SEMISEMI"
             /\ NodeStack' = NodeStack \o TriviaTokens(buffer, q) \o <<t>>
                               \o TriviaTokens(t.hi, r)
             /\ buffer' = r
             /\ ParsePrefix(Tokenizer_currentToken(r))
    <2>1. t.hi \in 0..Len(input) /\ r \in t.hi..Len(input) /\ r \in 0..Len(input)
      BY <1>2, <1>4
    <2> HIDE DEF q, t, r
    <2>2. Reaches(NodeStack', r)
      BY <1>2, <1>4, <2>1, ReachesPast
    <2> QED  BY <1>1, <1>4, <2>1, <2>2, ParseInPlace
  <1> QED  BY <1>1, <1>3, <1>4

LEMMA IntegralPrefixInPlace == Inv /\ InPlace /\ IntegralParselet_parsePrefix => InPlace'
  <1> SUFFICES ASSUME Inv, InPlace, IntegralParselet_parsePrefix PROVE InPlace'
    OBVIOUS
  <1> DEFINE t   == call.tok
             u   == AfterOperator(t)
             one == Empty("FAKE_IMPLICITONE", u)
  <1>1. /\ Calling("parsePrefix") /\ call.P.class = "Integral" /\ buffer' = u.lo
        /\ UNCHANGED <<exprs, aborted>>
        /\ \/ /\ NodeStack' = Append(WithOperator(t), one)
              /\ Jump("IntegralParselet_parse1", call.P, u)
           \/ NodeStack' = WithOperator(t) /\ ParsePrefix(u)
    BY DEF IntegralParselet_parsePrefix, Prefix
  <1>2. call.fn \in TokenFns /\ t \in Token /\ t.hi \in 0..Len(input)
    BY <1>1, PrefixPlace, PrefixTokenInside
  <1>3. u \in Token /\ u.lo = TriviaEnd(t.hi) /\ Reaches(WithOperator(t), u.lo)
    BY <1>2, ReachesTaken
  <1>4. CASE /\ NodeStack' = Append(WithOperator(t), one)
             /\ Jump("IntegralParselet_parse1", call.P, u)
    <2> HIDE DEF u
    <2>1. one \in Node /\ one.lo = u.lo /\ one.hi = u.lo
      BY <1>3, ErrorKinds, EmptyNode
    <2> HIDE DEF one
    <2>2. Reaches(NodeStack', buffer')
      BY <1>1, <1>3, <1>4, <2>1, ReachesNode
    <2> QED  BY <1>1, <1>4, <2>2, GoOnInPlace
  <1>5. CASE NodeStack' = WithOperator(t) /\ ParsePrefix(u)
    BY <1>1, <1>2, <1>3, <1>5, OperandInPlace DEF TakeOperator
  <1> QED  BY <1>1, <1>4, <1>5

LEMMA IntegralLoopInPlace == Inv /\ InPlace /\ IntegralParselet_parse1 => InPlace'
  <1> SUFFICES ASSUME Inv, InPlace, IntegralParselet_parse1 PROVE InPlace'
    OBVIOUS
  <1> DEFINE q == TriviaEnd(buffer)
             t == Tokenizer_currentToken(q)
  <1>1. /\ UNCHANGED <<exprs, aborted>>
        /\ \/ EndLoop(q, "IntegralParselet_reduceIntegral")
           \/ /\ NodeStack' = NodeStack \o TriviaTokens(buffer, q) /\ buffer' = q
              /\ Jump("parsePrefix", prefixParselets[t.op], t)
    BY DEF IntegralParselet_parse1, ParsePrefix
  <1>2. q \in buffer..Len(input)
    BY StackTypes, TriviaEndType
  <1> HIDE DEF q
  <1>3. CASE EndLoop(q, "IntegralParselet_reduceIntegral")
    BY <1>1, <1>2, <1>3, EndLoopInPlace DEF ReduceFns
  <1>4. CASE /\ NodeStack' = NodeStack \o TriviaTokens(buffer, q) /\ buffer' = q
             /\ Jump("parsePrefix", prefixParselets[t.op], t)
    BY <1>1, <1>2, <1>4, TokenFnsAre, HandOnInPlace
  <1> QED  BY <1>1, <1>3, <1>4

LEMMA TernaryInPlace == Inv /\ InPlace /\ TernaryNext => InPlace'
  <1> SUFFICES ASSUME Inv, InPlace, TernaryNext PROVE InPlace'
    OBVIOUS
  <1> DEFINE t == call.tok
  <1>1. CASE TildeParselet_parseInfix \/ ColonParselet_parseInfix
             \/ SlashColonParselet_parseInfix \/ ColonEqualParselet_parseInfix
    <2>1. /\ Calling("parseInfix") /\ UNCHANGED <<exprs, aborted>>
          /\ \E ctxt : TakeOperand(t, ctxt)
      BY <1>1 DEF TildeParselet_parseInfix, ColonParselet_parseInfix,
         SlashColonParselet_parseInfix, ColonEqualParselet_parseInfix, Infix
    <2> QED  BY <2>1, InfixOperandInPlace DEF TakeOperand
  <1>2. CASE EqualParselet_parseInfix
    <2>1. /\ Calling("parseInfix") /\ UNCHANGED <<exprs, aborted>>
          /\ \/ TakeUnset("EqualParselet_reduceUnset")
             \/ \E ctxt : TakeOperand(t, ctxt)
      BY <1>2 DEF EqualParselet_parseInfix, Infix
    <2> QED  BY <2>1, InfixPlace, TakeUnsetInPlace, InfixOperandInPlace
             DEF TakeOperand, ReduceFns
  <1>3. CASE EqualParselet_parseInfixTag \/ ColonEqualParselet_parseInfixTag
    <2>1. /\ call.fn \in {"EqualParselet_parseInfixTag", "ColonEqualParselet_parseInfixTag"}
          /\ UNCHANGED <<exprs, aborted>>
          /\ \/ TakeUnset("EqualParselet_reduceTagUnset")
             \/ \E ctxt : TakeOperand(t, ctxt)
      BY <1>3 DEF EqualParselet_parseInfixTag, ColonEqualParselet_parseInfixTag, Looping,
         Calling
    <2>2. call.fn \in TokenFns /\ t \in Token /\ t.hi \in 0..Len(input)
      BY <2>1, TagType, TokenFnsAre
    <2> QED  BY <2>1, <2>2, TakeUnsetInPlace, OperandInPlace DEF TakeOperand, ReduceFns
  <1>4. CASE TagAndSpan_abort
    BY <1>4, UnwindInPlace DEF TagAndSpan_abort
  <1>5. CASE SemiSemiParselet_parsePrefix
    <2> DEFINE one == Empty("FAKE_IMPLICITONE", t)
    <2>1. /\ Calling("parsePrefix") /\ UNCHANGED <<buffer, exprs, aborted>>
          /\ NodeStack' = Append(NodeStack, one)
          /\ Jump("parseInfix", New("SemiSemi"), t)
      BY <1>5 DEF SemiSemiParselet_parsePrefix, Prefix
    <2>2. one \in Node /\ one.lo = buffer /\ one.hi = buffer
      BY <2>1, PrefixPlace, ErrorKinds, EmptyNode
    <2> HIDE DEF one
    <2>3. Reaches(NodeStack', buffer)
      BY <2>1, <2>2, ReachesHere, ReachesNode
    <2> QED  BY <2>1, <2>3, PrefixPlace, TokenFnsAre, SameTokenInPlace
  <1>6. CASE SemiSemiParselet_parseInfix
    <2>1. /\ Calling("parseInfix") /\ UNCHANGED <<exprs, aborted>>
          /\ NodeStack' = Append(NodeStack, t) /\ buffer' = t.hi
          /\ Jump("SemiSemiParselet_parse1", NoParselet, NoToken)
      BY <1>6 DEF SemiSemiParselet_parseInfix, Infix, TakeLeaf, Goto
    <2> QED  BY <2>1, InfixPlace, TakeLeafInPlace
  <1>7. CASE TildeParselet_reduce
    <2>1. \/ ReduceContext("TildeParselet_reduceTilde", "Ternary", "TernaryTilde",
                           "Parser_parseClimb")
          \/ ReduceContext("TildeParselet_reduceError", "SyntaxError",
                           "ExpectedTilde", "Parser_tryContinue")
      BY <1>7 DEF TildeParselet_reduce
    <2>2. /\ {"TildeParselet_reduceTilde", "TildeParselet_reduceError"} \subseteq ReduceFns
          /\ {"Ternary", "SyntaxError"} \subseteq NodeKinds
          /\ {"TernaryTilde", "ExpectedTilde"} \subseteq Ops
      BY DEF ReduceFns, NodeKinds, Ops
    <2> QED  BY <2>1, <2>2, ReduceInPlace
  <1>8. CASE ColonParselet_reduce \/ SlashColonParselet_reduceError
             \/ EqualParselet_reduce \/ ColonEqualParselet_reduce
    BY ZenonT(60), <1>8, ReduceForInPlace DEF ColonParselet_reduce, SlashColonParselet_reduceError,
       EqualParselet_reduce, ColonEqualParselet_reduce, ReduceFns, NodeKinds, Ops
  <1>9. CASE SemiSemiParselet_reduce \/ IntegralParselet_reduce
    BY <1>9, ReduceForInPlace DEF SemiSemiParselet_reduce, IntegralParselet_reduce,
       ReduceFns, NodeKinds, Ops
  <1> QED  BY <1>1, <1>2, <1>3, <1>4, <1>5, <1>6, <1>7, <1>8, <1>9, TildeLoopInPlace,
       SlashColonLoopInPlace, SpanLoopInPlace, SpanEndInPlace, IntegralPrefixInPlace,
       IntegralLoopInPlace DEF TernaryNext

-----------------------------------------------------------------------------
(* Tags and file names                                                     *)

LEMMA TakeTagInPlace ==
  ASSUME Inv, InPlace, NEW nodes, NEW t \in Token, t.hi \in 0..Len(input),
         Reaches(nodes, t.lo), TakeTag(nodes, t), UNCHANGED <<exprs, aborted>>
  PROVE  InPlace'
  <1> DEFINE tag == Tokenizer_currentToken_stringifyAsTag(t.hi)
  <1>1. /\ NodeStack' = nodes \o <<t, tag>> /\ buffer' = tag.hi
        /\ Jump("ColonColonParselet_parseLoop", NoParselet, NoToken)
    BY DEF TakeTag, Goto
  <1>2. tag \in Node /\ t \in Node
    BY StackTypes, TagTokenType, TokenIsNode
  <1>3. tag.lo = t.hi
    BY DEF Tokenizer_currentToken_stringifyAsTag, Leaf
  <1> HIDE DEF tag
  <1>4. nodes \o <<t, tag>> = Append(Append(nodes, t), tag)
    BY <1>2 DEF Reaches
  <1>5. Reaches(Append(nodes, t), t.hi)
    BY <1>2, ReachesNode
  <1>6. Reaches(Append(Append(nodes, t), tag), tag.hi)
    <2> DEFINE s == Append(nodes, t)
    <2> HIDE DEF s
    <2>1. Reaches(s, t.hi) => Reaches(Append(s, tag), tag.hi)
      BY <1>2, <1>3, ReachesNode
    <2> QED  BY <1>5, <2>1 DEF s
  <1>7. Reaches(NodeStack', buffer')
    BY <1>1, <1>4, <1>6
  <1> QED  BY <1>1, <1>7, GoOnInPlace

LEMMA TakeFileInPlace ==
  ASSUME Inv, InPlace, call.fn \in TokenFns, call.tok \in Token,
         call.tok.hi \in 0..Len(input), NEW fn \in ReduceFns, TakeFile(call.tok, fn),
         UNCHANGED <<exprs, aborted>>
  PROVE  InPlace'
  <1> DEFINE t    == call.tok
             q    == FileTriviaEnd(t.hi)
             file == Tokenizer_currentToken_stringifyAsFile(q)
             s    == Append(NodeStack, t) \o FileTriviaTokens(t.hi, q)
  <1>1. /\ NodeStack' = s \o <<file>> /\ buffer' = file.hi
        /\ Jump(fn, NoParselet, NoToken)
    BY DEF TakeFile, Goto
  <1>2. t \in Node /\ t.lo = buffer
    BY TokenIsNode DEF InPlace, TokenInPlace
  <1>3. Reaches(s, q)
    <2>1. Reaches(Append(NodeStack, t), t.hi)
      BY <1>2, ReachesHere, ReachesNode
    <2> QED  BY <2>1, ReachesFileTrivia
  <1>4. file \in Node
    <2>1. q \in 0..Len(input)
      BY TriviaEndType
    <2> HIDE DEF q
    <2> QED  BY <2>1, StackTypes, FileTokenType, TokenIsNode
  <1>5. file.lo = q
    BY DEF Tokenizer_currentToken_stringifyAsFile, Leaf
  <1> HIDE DEF s, file, q
  <1>6. Reaches(NodeStack', buffer')
    BY <1>1, <1>3, <1>4, <1>5, ReachesNode
  <1> QED  BY <1>1, <1>6, GoOnInPlace

LEMMA StringifyInPlace == Inv /\ InPlace /\ StringifyNext => InPlace'
  <1> SUFFICES ASSUME Inv, InPlace, StringifyNext PROVE InPlace'
    OBVIOUS
  <1> DEFINE t == call.tok
  <1>1. CASE ColonColonParselet_parseInfix
    <2>1. Calling("parseInfix") /\ TakeTag(NodeStack, t) /\ UNCHANGED <<exprs, aborted>>
      BY <1>1 DEF ColonColonParselet_parseInfix, Infix
    <2> QED  BY <2>1, InfixPlace, ReachesHere, TakeTagInPlace
  <1>2. CASE ColonColonParselet_parseLoop
    <2> DEFINE q == TriviaEnd(buffer)
               u == Tokenizer_currentToken(q)
    <2>1. /\ UNCHANGED <<exprs, aborted>>
          /\ \/ EndLoop(q, "ColonColonParselet_reduceMessageName")
             \/ u.op = "COLONCOLON" /\ TakeTag(NodeStack \o TriviaTokens(buffer, q), u)
      BY <1>2 DEF ColonColonParselet_parseLoop
    <2>2. /\ q \in buffer..Len(input) /\ u \in Token /\ u.lo = q
          /\ u.op # "ENDOFFILE" => u.hi \in 0..Len(input)
      BY StackTypes, TriviaEndType, TokenAt
    <2>3. CASE EndLoop(q, "ColonColonParselet_reduceMessageName")
      <3> HIDE DEF q
      <3> QED  BY <2>1, <2>2, <2>3, EndLoopInPlace DEF ReduceFns
    <2>4. CASE u.op = "COLONCOLON" /\ TakeTag(NodeStack \o TriviaTokens(buffer, q), u)
      <3> HIDE DEF q, u
      <3>1. Reaches(NodeStack \o TriviaTokens(buffer, q), u.lo)
        BY <2>2, ReachesOperator
      <3> QED  BY <2>1, <2>2, <2>4, <3>1, TakeTagInPlace
    <2> QED  BY <2>1, <2>3, <2>4
  <1>3. CASE GreaterGreaterParselet_parseInfix \/ GreaterGreaterGreaterParselet_parseInfix
    <2>1. /\ Calling("parseInfix") /\ UNCHANGED <<exprs, aborted>>
          /\ \/ TakeFile(t, "GreaterGreaterParselet_reducePut")
             \/ TakeFile(t, "GreaterGreaterGreaterParselet_reducePutAppend")
      BY <1>3 DEF GreaterGreaterParselet_parseInfix,
         GreaterGreaterGreaterParselet_parseInfix, Infix
    <2> QED  BY <2>1, InfixPlace, TakeFileInPlace DEF ReduceFns
  <1>4. CASE LessLessParselet_parsePrefix
    <2>1. /\ Calling("parsePrefix") /\ call.P.class = "LessLess"
          /\ UNCHANGED <<exprs, aborted>> /\ TakeFile(t, "LessLessParselet_reduceGet")
      BY <1>4 DEF LessLessParselet_parsePrefix, Prefix
    <2> QED  BY <2>1, PrefixPlace, PrefixTokenInside, TakeFileInPlace DEF ReduceFns
  <1>5. CASE ColonColonParselet_reduceMessageName \/ GreaterGreaterParselet_reducePut
             \/ GreaterGreaterGreaterParselet_reducePutAppend
             \/ LessLessParselet_reduceGet
    BY ZenonT(60), <1>5, ReduceForInPlace DEF ColonColonParselet_reduceMessageName,
       GreaterGreaterParselet_reducePut, GreaterGreaterGreaterParselet_reducePutAppend,
       LessLessParselet_reduceGet, ReduceFns, NodeKinds, Ops
  <1> QED  BY <1>1, <1>2, <1>3, <1>4, <1>5 DEF StringifyNext

-----------------------------------------------------------------------------
(* The loop of concreteParse and Parser.cpp                                *)

\* Where the tokenizer reads the end of the file, all of the source is read.
LEMMA EndOfFilePlace ==
  ASSUME Inv, KindAt(buffer) = "ENDOFFILE"
  PROVE  buffer = Len(input)
  <1>1. input \in Seq(SourceTokens) /\ buffer \in 0..Len(input) /\ buffer \in Nat
    BY StackTypes
  <1>2. RawKind(buffer) = "ENDOFFILE"
    BY <1>1, RawKindType DEF KindAt, SourceTokens
  <1>3. "ENDOFFILE" \notin SourceTokens
    BY DEF SourceTokens, Tokens, Trivia, Newlines, CloserTokens
  <1>4. ASSUME buffer < Len(input) PROVE FALSE
    <2>1. buffer + 1 \in 1..Len(input)
      BY <1>1, <1>4
    <2>2. input[buffer + 1] \in SourceTokens
      BY <1>1, <2>1
    <2> QED  BY <1>2, <1>3, <1>4, <2>2 DEF RawKind
  <1> QED  BY <1>1, <1>4

LEMMA concreteParseInPlace == Inv /\ InPlace /\ concreteParse => InPlace'
  <1> SUFFICES ASSUME Inv, InPlace, concreteParse PROVE InPlace'
    OBVIOUS
  <1> DEFINE peek == Tokenizer_currentToken(buffer)
  <1>1. /\ Calling("concreteParse") /\ UNCHANGED <<NodeStack, aborted>>
    BY DEF concreteParse
  <1>2. /\ peek \in Token /\ peek \in Node /\ peek.op = KindAt(buffer)
        /\ peek.lo = buffer /\ buffer \in Nat
    BY StackTypes, TokenAt, TokenIsNode, CurrentTokenType DEF Tokenizer_currentToken, Leaf
  <1>3. CASE /\ aborted \/ peek.op = "ENDOFFILE"
             /\ Goto("done") /\ UNCHANGED <<buffer, exprs>>
    <2>1. TokenInPlace' /\ call'.fn = "done"
      BY <1>3, TokenFnsAre, NoTokenInPlace DEF Goto
    <2>2. Tiled'
      BY <1>1, <1>3 DEF InPlace, Tiled, Span
    <2>3. ~aborted => buffer = Len(input)
      BY <1>2, <1>3, EndOfFilePlace
    <2>4. UNCHANGED input
      BY DEF concreteParse
    <2> QED  BY <1>1, <1>3, <2>1, <2>2, <2>3, <2>4 DEF InPlace, AllIsRead
  <1>4. CASE ~aborted /\ exprs' = Append(exprs, peek) /\ buffer' = peek.hi /\ UNCHANGED call
    <2>1. TokenInPlace' /\ ~Calling("done")'
      BY <1>1, <1>4, TokenFnsAre DEF TokenInPlace, Calling
    <2>2. NodeStack = <<>>
      BY <1>1, HeadType, StackTypes
    <2>3. PICK m \in Nat : Span(exprs, 0, m) /\ Span(NodeStack, m, buffer)
      BY <1>4 DEF InPlace, Tiled
    <2>4. m = peek.lo
      BY <1>2, <2>2, <2>3 DEF Span
    <2>5. exprs \in Seq(Node) /\ peek.hi \in Nat
      BY <1>2 DEF Inv, TypeOK, Node
    <2> HIDE DEF peek
    <2>6. Span(exprs', 0, peek.hi)
      BY <1>2, <1>4, <2>3, <2>4, <2>5, SpanAppend
    <2>7. Span(NodeStack', peek.hi, buffer')
      BY <1>1, <1>4, <2>2 DEF Span
    <2> QED  BY <2>1, <2>5, <2>6, <2>7 DEF InPlace, Tiled, AllIsRead
  <1>5. CASE UNCHANGED <<buffer, exprs>>
             /\ \E P \in {prefixToplevelCloserParselet, prefixParselets[peek.op]} :
                  Jump("parsePrefix", P, peek)
    <2>1. PICK P : Jump("parsePrefix", P, peek)
      BY <1>5
    <2>2. TokenInPlace' /\ call'.fn = "parsePrefix"
      BY <1>2, <1>5, <2>1, StackTypes, TokenFnsAre, NextInPlace
    <2>3. Reaches(NodeStack', buffer')
      BY <1>1, <1>5, ReachesHere
    <2> QED  BY <1>1, <1>5, <2>2, <2>3, ReachStep
  <1> QED  BY <1>3, <1>4, <1>5 DEF concreteParse, ParsePrefix

\* The node that is left on the stack becomes the next expression.
LEMMA concreteParse_pushInPlace == Inv /\ InPlace /\ concreteParse_push => InPlace'
  <1> SUFFICES ASSUME Inv, InPlace, concreteParse_push PROVE InPlace'
    OBVIOUS
  <1>1. /\ Calling("return") /\ frames = <<>> /\ exprs' = Append(exprs, Top(NodeStack))
        /\ NodeStack' = Pop(NodeStack) /\ Goto("concreteParse")
        /\ UNCHANGED <<buffer, aborted>>
    BY DEF concreteParse_push
  <1>2. Returning(Len(NodeStack), ContextStack, <<>>)
    BY <1>1, StackTypes DEF Discipline, Calling
  <1>3. ContextStack = <<>> /\ Len(NodeStack) = 1
    BY <1>2, StackTypes, ReturnToTop
  <1>4. /\ Top(NodeStack) \in Node /\ Top(NodeStack) = NodeStack[1]
        /\ Pop(NodeStack) \in Seq(Node) /\ Len(Pop(NodeStack)) = 0
    <2>1. NodeStack # <<>>
      BY <1>3
    <2>2. /\ Pop(NodeStack) \in Seq(Node) /\ Len(Pop(NodeStack)) = Len(NodeStack) - 1
          /\ Top(NodeStack) = NodeStack[Len(NodeStack)] /\ Top(NodeStack) \in Node
      BY <2>1, StackTypes, PopFacts
    <2> QED  BY <1>3, <2>2
  <1>5. TokenInPlace' /\ call'.fn = "concreteParse"
    BY <1>1, TokenFnsAre, NoTokenInPlace DEF Goto
  <1>6. Tiled'
    <2> SUFFICES ASSUME ~aborted
                 PROVE  \E m \in Nat : Span(exprs', 0, m) /\ Span(NodeStack', m, buffer')
      BY <1>1 DEF Tiled, Span
    <2> DEFINE N == Top(NodeStack)
    <2>1. PICK m \in Nat : Span(exprs, 0, m) /\ Span(NodeStack, m, buffer)
      BY DEF InPlace, Tiled
    <2>2. N.lo = m /\ N.hi = buffer /\ N.hi \in Nat
      <3>1. NodeStack # <<>>
        BY <1>3
      <3>2. NodeStack[1].lo = m /\ NodeStack[1].hi = buffer
        BY <1>3, <2>1, <3>1 DEF Span
      <3>3. N = NodeStack[1] /\ N \in Node
        BY <1>4
      <3>4. N.hi \in Nat
        BY <3>3 DEF Node
      <3> QED  BY <3>2, <3>3, <3>4
    <2>3. exprs \in Seq(Node)
      BY DEF Inv, TypeOK
    <2> HIDE DEF N
    <2>4. Span(exprs', 0, N.hi)
      BY <1>1, <1>4, <2>1, <2>2, <2>3, SpanAppend DEF N
    <2>5. NodeStack' = <<>>
      BY <1>1, <1>4
    <2>6. Span(NodeStack', N.hi, buffer')
      BY <1>1, <2>2, <2>5 DEF Span
    <2> QED  BY <2>2, <2>4, <2>6
  <1> QED  BY <1>5, <1>6 DEF InPlace, AllIsRead, Calling

\* An operator that is left to the context is given back.
LEMMA Parser_parseClimbInPlace == Inv /\ InPlace /\ Parser_parseClimb => InPlace'
  <1> SUFFICES ASSUME Inv, InPlace, Parser_parseClimb PROVE InPlace'
    OBVIOUS
  <1> DEFINE q     == TriviaButNotToplevelNewlinesEnd(buffer)
             peek  == Tokenizer_currentToken(q)
             token == TimesAt(q)
             I     == infixParselets[token.op]
  <1>1. /\ UNCHANGED <<exprs, aborted>>
        /\ \/ /\ buffer' = TriviaSeq_reset(q, TriviaTokens(buffer, q))
              /\ Goto("Parser_tryContinue") /\ UNCHANGED NodeStack
           \/ /\ NodeStack' = NodeStack \o TriviaTokens(buffer, q) /\ buffer' = q
              /\ Jump("parseInfix", I, token)
    BY DEF Parser_parseClimb, TimesAt
  <1>2. q \in buffer..Len(input) /\ q \in 0..Len(input) /\ q \in Nat /\ buffer \in Nat
        /\ buffer <= q
    BY StackTypes, TriviaEndType
  <1>3. CASE /\ buffer' = TriviaSeq_reset(q, TriviaTokens(buffer, q))
             /\ Goto("Parser_tryContinue") /\ UNCHANGED NodeStack
    <2> HIDE DEF q
    <2>1. buffer' = buffer
      BY <1>2, <1>3, StackTypes, TriviaResetType
    <2>2. Reaches(NodeStack', buffer')
      BY <1>3, <2>1, ReachesHere
    <2> QED  BY <1>1, <1>3, <2>2, GoOnInPlace DEF Goto
  <1>4. CASE /\ NodeStack' = NodeStack \o TriviaTokens(buffer, q) /\ buffer' = q
             /\ Jump("parseInfix", I, token)
    <2>1. token.lo = q /\ token.hi \in {q, q + 1}
      BY <1>2, ImplicitTimesPlace
    <2> HIDE DEF q, token, I
    <2>2. TokenInPlace' /\ call'.fn # "done"
      BY <1>4, <2>1 DEF Jump, TokenInPlace
    <2>3. Reaches(NodeStack', buffer')
      BY <1>2, <1>4, ReachesHere, ReachesTrivia
    <2> QED  BY <1>1, <2>2, <2>3, ReachStep
  <1> QED  BY <1>1, <1>3, <1>4

\* Neither a continuation nor what a native call returns to takes a token.
LEMMA Parser_tryContinueInPlace == Inv /\ InPlace /\ Parser_tryContinue => InPlace'
  <1> SUFFICES ASSUME Inv, InPlace, Parser_tryContinue PROVE InPlace'
    OBVIOUS
  <1>1. UNCHANGED <<buffer, NodeStack, exprs, aborted>>
    BY DEF Parser_tryContinue
  <1>2. TokenInPlace' /\ call'.fn # "done"
    <2>1. CASE Goto("return")
      BY <2>1, FreeCall DEF Goto
    <2>2. CASE /\ ContextStack # <<>> /\ Parser_topContext.F # "Parser_identity"
               /\ Jump(Parser_topContext.F, Parser_topContext.P, NoToken)
      <3>1. Parser_topContext.F \in ContextFns
        BY <2>2, TopType, BuildContextFields
      <3>2. Parser_topContext.F \notin TokenFns /\ Parser_topContext.F # "done"
        BY <3>1, TokenFnsAre DEF ContextFns, TokenFns, TakingFns, ContextSensitiveFns
      <3> QED  BY <2>2, <3>2, NoTokenInPlace
    <2> QED  BY <2>1, <2>2 DEF Parser_tryContinue
  <1>3. Reaches(NodeStack', buffer')
    BY <1>1, ReachesHere
  <1> QED  BY <1>1, <1>2, <1>3, ReachStep

LEMMA ReturnInPlace == Inv /\ InPlace /\ Return => InPlace'
  <1> SUFFICES ASSUME Inv, InPlace, Return PROVE InPlace'
    OBVIOUS
  <1> DEFINE frame == Top(frames)
  <1>1. /\ Calling("return") /\ frames # <<>> /\ Jump(frame.fn, frame.P, NoToken)
        /\ UNCHANGED <<buffer, NodeStack, exprs, aborted>>
    BY DEF Return
  <1>2. Returning(Len(NodeStack), ContextStack, frames)
    BY <1>1, StackTypes DEF Discipline, Calling
  <1>3. Len(frames) \in Nat \ {0} /\ frame = frames[Len(frames)]
    BY <1>1, StackTypes, PopFacts
  <1>4. frame.fn \in LoopFns \union PatternReduces \union {InnerReduce}
    BY <1>2, <1>3 DEF Returning, OnlyLoops, IsLoop, PatternFrames
  <1>5. frame.fn \notin TokenFns /\ frame.fn # "done"
    BY <1>4, TokenFnsAre DEF PatternReduces, InnerReduce, ReduceFns
  <1> HIDE DEF frame
  <1>6. TokenInPlace' /\ call'.fn # "done"
    BY <1>1, <1>5, NoTokenInPlace
  <1>7. Reaches(NodeStack', buffer')
    BY <1>1, ReachesHere
  <1> QED  BY <1>1, <1>6, <1>7, ReachStep

-----------------------------------------------------------------------------
(* Every step                                                              *)

LEMMA StepInPlace == Inv /\ InPlace /\ Step => InPlace'
  <1>1. ASSUME Parser_parseClimb_abort, Inv, InPlace PROVE InPlace'
    <2>1. aborted /\ UNCHANGED aborted /\ Goto("Parser_tryContinue")
      BY <1>1 DEF Parser_parseClimb_abort
    <2> QED  BY <2>1, UnwindInPlace
  <1> QED  BY <1>1, concreteParseInPlace, concreteParse_pushInPlace,
       Parser_parseClimbInPlace, Parser_tryContinueInPlace, ReturnInPlace, PrefixInPlace,
       OperatorInPlace, GroupInPlace, PatternInPlace, TernaryInPlace, StringifyInPlace
       DEF Step

LEMMA StillInPlace == InPlace /\ UNCHANGED vars => InPlace'
  BY DEF vars, InPlace, TokenInPlace, Tiled, AllIsRead, Span, Calling

LEMMA AbortInPlace == Inv /\ InPlace /\ Abort => InPlace'
  BY DEF Abort, InPlace, TokenInPlace, Tiled, AllIsRead, Calling

LEMMA InitInPlace == Init => InPlace
  <1> SUFFICES ASSUME Init PROVE InPlace
    OBVIOUS
  <1>1. TokenInPlace /\ AllIsRead
    BY TokenFnsAre DEF Init, TokenInPlace, AllIsRead, Calling
  <1>2. Span(exprs, 0, 0) /\ Span(NodeStack, 0, buffer)
    BY DEF Init, Span
  <1> QED  BY <1>1, <1>2 DEF InPlace, Tiled

LEMMA PlaceInvariance == Spec => [](Inv /\ InPlace)
  <1>1. Init => Inv /\ InPlace
    BY InitInv, InitInPlace
  <1>2. Inv /\ InPlace /\ [Next]_vars => (Inv /\ InPlace)'
    BY NextInv, StepInPlace, StillInPlace, AbortInPlace DEF Next, Terminated
  <1> QED  BY <1>1, <1>2, PTL DEF Spec

\* A function is called with the token that the tokenizer is at, so that what
\* it takes is what is read next (Parselet.cpp:16).
THEOREM TokensAreCurrent == Spec => []TokenInPlace
  <1>1. Inv /\ InPlace => TokenInPlace
    BY DEF InPlace
  <1> QED  BY <1>1, PlaceInvariance, PTL

\* No token of the source is lost, duplicated or moved, whatever was peeked at
\* and given back (Parser.cpp:30).
THEOREM NothingIsLost == Spec => []Lossless
  <1>1. Inv /\ InPlace => Lossless
    <2> SUFFICES ASSUME Inv, InPlace, ~aborted
                 PROVE  /\ Tile(exprs \o NodeStack, buffer)
                        /\ Calling("done") => buffer = Len(input)
      BY DEF Lossless
    <2> DEFINE nodes == exprs \o NodeStack
    <2>1. PICK m \in Nat : Span(exprs, 0, m) /\ Span(NodeStack, m, buffer)
      BY DEF InPlace, Tiled
    <2>2. exprs \in Seq(Node) /\ NodeStack \in Seq(Node)
      BY DEF Inv, TypeOK
    <2>3. Span(nodes, 0, buffer)
      BY <2>1, <2>2, SpanConcat
    <2> HIDE DEF nodes
    <2>4. Tile(nodes, buffer)
      BY <2>3 DEF Span, Tile, Top
    <2> QED  BY <2>4 DEF InPlace, AllIsRead, nodes
  <1> QED  BY <1>1, PlaceInvariance, PTL

-----------------------------------------------------------------------------
(* After an abort                                                          *)

\* Stacks only lose their top, and at most one character is read.
Unwinding ==
  /\ ContextStack' \in {ContextStack, Pop(ContextStack)}
  /\ GroupStack' \in {GroupStack, Pop(GroupStack)}
  /\ frames' \in {frames, Pop(frames)}
  /\ buffer' \in {buffer, buffer + 1}
  /\ Calling("concreteParse") => call'.fn = "done"

LEMMA PopShortens ==
  ASSUME NEW S, NEW s \in Seq(S)
  PROVE  Len(Pop(s)) <= Len(s)
  <1>1. CASE s = <<>>
    <2>1. Len(Pop(s)) = 0 /\ Len(s) = 0
      BY <1>1 DEF Pop
    <2> QED  BY <2>1
  <1>2. CASE s # <<>>
    <2>1. Len(Pop(s)) = Len(s) - 1 /\ Len(s) \in Nat
      BY <1>2, PopFacts
    <2> QED  BY <2>1
  <1> QED  BY <1>1, <1>2

LEMMA ReduceUnwinds ==
  ASSUME NEW fn \in ReduceFns, NEW kind, NEW op, NEW next,
         ReduceContext(fn, kind, op, next),
         GroupStack' \in {GroupStack, Pop(GroupStack)}
  PROVE  Unwinding
  <1>1. fn # "concreteParse"
    BY DEF ReduceFns
  <1> QED  BY <1>1 DEF ReduceContext, Unwinding, Calling

LEMMA ReduceForUnwinds ==
  ASSUME NEW fn \in ReduceFns, NEW kind, NEW op, Reduce(fn, kind, op)
  PROVE  Unwinding
  <1>1. ReduceContext(fn, kind, op, "Parser_parseClimb") /\ UNCHANGED GroupStack
    BY DEF Reduce
  <1> QED  BY <1>1, ReduceUnwinds

\* The token of the call is all that is taken.
LEMMA TakeUnwinds ==
  ASSUME InPlace, call.fn \in TokenFns, TakeLeaf(call.tok),
         UNCHANGED <<ContextStack, GroupStack, frames>>
  PROVE  Unwinding
  <1>1. call.fn # "concreteParse"
    BY TokenFnsAre
  <1>2. call.tok.hi \in {buffer, buffer + 1}
    BY DEF InPlace, TokenInPlace
  <1> QED  BY <1>1, <1>2 DEF TakeLeaf, Unwinding, Calling

LEMMA PrefixUnwinds == InPlace /\ aborted /\ PrefixNext => Unwinding
  <1> SUFFICES ASSUME InPlace, aborted, PrefixNext PROVE Unwinding
    OBVIOUS
  <1>1. CASE LeafParselet_reduceLeaf \/ PrefixErrorParselet_parsePrefix
    <2>1. /\ Calling("parsePrefix") /\ TakeLeaf(call.tok)
          /\ UNCHANGED <<ContextStack, GroupStack, frames>>
      BY <1>1 DEF LeafParselet_reduceLeaf, PrefixErrorParselet_parsePrefix, Prefix
    <2> QED  BY <2>1, TokenFnsAre, TakeUnwinds DEF Calling
  <1>2. CASE parsePrefix_abort
    BY <1>2 DEF parsePrefix_abort, Unwinding, Calling
  <1>3. CASE PrefixOperatorParselet_reducePrefixOperator
    BY <1>3, ReduceForUnwinds DEF PrefixOperatorParselet_reducePrefixOperator, ReduceFns
  <1> QED  BY <1>1, <1>2, <1>3 DEF PrefixNext, PrefixCloserParselet_parsePrefix,
       PrefixEndOfFileParselet_parsePrefix, PrefixToplevelCloserParselet_parsePrefix,
       PrefixUnsupportedTokenParselet_parsePrefix, PrefixCommaParselet_parsePrefix,
       PrefixUnhandledParselet_parsePrefix, PrefixOperatorParselet_parsePrefix

LEMMA OperatorUnwinds == InPlace /\ aborted /\ OperatorNext => Unwinding
  <1> SUFFICES ASSUME InPlace, aborted, OperatorNext PROVE Unwinding
    OBVIOUS
  <1>1. CASE parseInfix_abort
    BY <1>1 DEF parseInfix_abort, Unwinding, Calling
  <1>2. CASE parseLoop_abort
    <2>1. call.fn # "concreteParse"
      BY <1>2 DEF parseLoop_abort, AbortableLoops, LoopFns
    <2> QED  BY <1>2, <2>1 DEF parseLoop_abort, Unwinding, Calling
  <1>3. CASE PostfixOperatorParselet_parseInfix
    <2>1. /\ Calling("parseInfix") /\ TakeLeaf(call.tok)
          /\ UNCHANGED <<ContextStack, GroupStack, frames>>
      BY <1>3 DEF PostfixOperatorParselet_parseInfix
    <2> QED  BY <2>1, TokenFnsAre, TakeUnwinds DEF Calling
  <1>4. CASE BinaryOperatorParselet_reduceBinaryOperator
             \/ PostfixOperatorParselet_reducePostfixOperator
             \/ InfixOperatorParselet_reduceInfixOperator
    BY <1>4, ReduceForUnwinds DEF BinaryOperatorParselet_reduceBinaryOperator,
       PostfixOperatorParselet_reducePostfixOperator,
       InfixOperatorParselet_reduceInfixOperator, ReduceFns
  <1>5. CASE TimesParselet_reduceTimes \/ SemiParselet_reduceCompoundExpression
    BY <1>5, ReduceForUnwinds DEF TimesParselet_reduceTimes,
       SemiParselet_reduceCompoundExpression, ReduceFns
  <1>6. CASE CommaParselet_reduceComma
    BY <1>6, ReduceUnwinds DEF CommaParselet_reduceComma, ReduceFns
  <1> QED  BY <1>1, <1>2, <1>3, <1>4, <1>5, <1>6 DEF OperatorNext, Infix, Looping,
       BinaryOperatorParselet_parseInfix, InfixOperatorParselet_parseInfix,
       InfixOperatorParselet_parseLoop, TimesParselet_parseInfix,
       TimesParselet_parseLoop, CommaParselet_parseInfix, CommaParselet_parseLoop,
       SemiParselet_parseInfix, SemiParselet_parseLoop

LEMMA GroupUnwinds == aborted /\ GroupNext => Unwinding
  <1> SUFFICES ASSUME aborted, GroupNext PROVE Unwinding
    OBVIOUS
  <1>1. CASE GroupParselet_parseLoop_abort
    BY <1>1 DEF GroupParselet_parseLoop_abort, Unwinding, Calling
  <1>2. CASE GroupParselet_reduce
    BY <1>2, ReduceUnwinds DEF GroupParselet_reduce, ReduceFns
  <1>3. CASE CallParselet_reduceCall
    BY <1>3, ReduceForUnwinds DEF CallParselet_reduceCall, ReduceFns
  <1> QED  BY <1>1, <1>2, <1>3 DEF GroupNext, Infix, Looping, GroupParselet_parsePrefix,
       GroupParselet_parseLoop, CallParselet_parseInfix

LEMMA PatternUnwinds == aborted /\ PatternNext => Unwinding
  <1> SUFFICES ASSUME aborted, PatternNext PROVE Unwinding
    OBVIOUS
  <1>1. CASE ContextSensitive_abort
    <2>1. call.fn # "concreteParse"
      BY <1>1 DEF ContextSensitive_abort, ContextSensitiveFns
    <2> QED  BY <1>1, <2>1 DEF ContextSensitive_abort, Unwinding, Calling
  <1>2. CASE SymbolParselet_reduce \/ UnderParselet_reduceBlank
    BY <1>2, ReduceForUnwinds DEF SymbolParselet_reduce, UnderParselet_reduceBlank,
       ReduceFns
  <1>3. CASE UnderParselet_reduceBlankContextSensitive
    BY <1>3, ReduceUnwinds DEF UnderParselet_reduceBlankContextSensitive, ReduceFns
  <1>4. CASE HashParselet_reduceSlot \/ HashHashParselet_reduceSlotSequence
             \/ PercentParselet_reduceOut
    BY <1>4, ReduceForUnwinds DEF HashParselet_reduceSlot,
       HashHashParselet_reduceSlotSequence, PercentParselet_reduceOut, ReduceFns
  <1> QED  BY <1>1, <1>2, <1>3, <1>4 DEF PatternNext, ContextSensitive,
       SymbolParselet_parsePrefix, SymbolParselet_parseInfixContextSensitive,
       UnderDotParselet_parseInfixContextSensitive, UnderParselet_parsePrefix,
       UnderParselet_parseInfixContextSensitive, UnderDotParselet_parsePrefix,
       HashParselet_parsePrefix, HashHashParselet_parsePrefix, PercentParselet_parsePrefix

LEMMA TernaryUnwinds == aborted /\ TernaryNext => Unwinding
  <1> SUFFICES ASSUME aborted, TernaryNext PROVE Unwinding
    OBVIOUS
  <1>1. CASE TagAndSpan_abort
    BY <1>1 DEF TagAndSpan_abort, Unwinding, Calling
  <1>2. CASE TildeParselet_reduce
    BY <1>2, ReduceUnwinds DEF TildeParselet_reduce, ReduceFns
  <1>3. CASE ColonParselet_reduce \/ SlashColonParselet_reduceError
    BY <1>3, ReduceForUnwinds DEF ColonParselet_reduce, SlashColonParselet_reduceError,
       ReduceFns
  <1>4. CASE EqualParselet_reduce \/ ColonEqualParselet_reduce
    BY <1>4, ReduceForUnwinds DEF EqualParselet_reduce, ColonEqualParselet_reduce,
       ReduceFns
  <1>5. CASE SemiSemiParselet_reduce \/ IntegralParselet_reduce
    BY <1>5, ReduceForUnwinds DEF SemiSemiParselet_reduce, IntegralParselet_reduce,
       ReduceFns
  <1> QED  BY <1>1, <1>2, <1>3, <1>4, <1>5 DEF TernaryNext, Infix, Looping,
       TildeParselet_parseInfix, TildeParselet_parse1, ColonParselet_parseInfix,
       SlashColonParselet_parseInfix, SlashColonParselet_parse1, EqualParselet_parseInfix,
       EqualParselet_parseInfixTag, ColonEqualParselet_parseInfix,
       ColonEqualParselet_parseInfixTag, SemiSemiParselet_parsePrefix,
       SemiSemiParselet_parseInfix, SemiSemiParselet_parse1, SemiSemiParselet_parse2,
       IntegralParselet_parsePrefix, IntegralParselet_parse1

LEMMA StringifyUnwinds == aborted /\ StringifyNext => Unwinding
  <1> SUFFICES ASSUME aborted, StringifyNext PROVE Unwinding
    OBVIOUS
  <1>1. CASE ColonColonParselet_reduceMessageName \/ GreaterGreaterParselet_reducePut
             \/ GreaterGreaterGreaterParselet_reducePutAppend
             \/ LessLessParselet_reduceGet
    BY <1>1, ReduceForUnwinds DEF ColonColonParselet_reduceMessageName,
       GreaterGreaterParselet_reducePut, GreaterGreaterGreaterParselet_reducePutAppend,
       LessLessParselet_reduceGet, ReduceFns
  <1> QED  BY <1>1 DEF StringifyNext, Infix, Looping, ColonColonParselet_parseInfix,
       ColonColonParselet_parseLoop, GreaterGreaterParselet_parseInfix,
       GreaterGreaterGreaterParselet_parseInfix, LessLessParselet_parsePrefix

LEMMA NextUnwinds == InPlace /\ aborted /\ Next => Unwinding \/ UNCHANGED vars
  <1> SUFFICES ASSUME InPlace, aborted, Next PROVE Unwinding \/ UNCHANGED vars
    OBVIOUS
  <1>1. CASE concreteParse
    BY <1>1 DEF concreteParse, Unwinding, Goto, Jump
  <1>2. CASE concreteParse_push \/ Parser_parseClimb_abort
    BY <1>2 DEF concreteParse_push, Parser_parseClimb_abort, Unwinding, Calling
  <1>3. CASE Parser_tryContinue \/ Return
    BY <1>3 DEF Parser_tryContinue, Return, Unwinding, Calling
  <1> QED  BY <1>1, <1>2, <1>3, PrefixUnwinds, OperatorUnwinds, GroupUnwinds, PatternUnwinds,
       TernaryUnwinds, StringifyUnwinds DEF Next, Step, Parser_parseClimb, Abort,
       Terminated

\* After an abort the parser only unwinds: it enters no context, opens no group,
\* calls no operand natively and parses no further expression
\* (Parselet.cpp:66).
THEOREM AbortsUnwind == Spec => AbortOnlyUnwinds
  <1>1. Inv /\ InPlace /\ [Next]_vars =>
          [aborted => /\ Len(ContextStack') <= Len(ContextStack)
                      /\ Len(GroupStack') <= Len(GroupStack)
                      /\ Len(frames') <= Len(frames)
                      /\ buffer' <= buffer + 1
                      /\ Calling("concreteParse") => call'.fn = "done"]_vars
    <2> SUFFICES ASSUME Inv, InPlace, Next, aborted, ~UNCHANGED vars
                 PROVE  /\ Len(ContextStack') <= Len(ContextStack)
                        /\ Len(GroupStack') <= Len(GroupStack)
                        /\ Len(frames') <= Len(frames)
                        /\ buffer' <= buffer + 1
                        /\ Calling("concreteParse") => call'.fn = "done"
      OBVIOUS
    <2>1. Unwinding
      BY NextUnwinds
    <2>2. /\ ContextStack \in Seq(Context) /\ GroupStack \in Seq(AnyCloser)
          /\ frames \in Seq(Frame) /\ buffer \in Nat
      BY StackTypes DEF Inv, TypeOK
    <2>3. Len(ContextStack') <= Len(ContextStack)
      BY <2>1, <2>2, PopShortens DEF Unwinding
    <2>4. Len(GroupStack') <= Len(GroupStack)
      BY <2>1, <2>2, PopShortens DEF Unwinding
    <2>5. Len(frames') <= Len(frames)
      BY <2>1, <2>2, PopShortens DEF Unwinding
    <2> QED  BY <2>1, <2>2, <2>3, <2>4, <2>5 DEF Unwinding
  <1> QED  BY <1>1, PlaceInvariance, PTL DEF Spec, AbortOnlyUnwinds

=============================================================================
