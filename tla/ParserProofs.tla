---------------------------- MODULE ParserProofs ----------------------------
(***************************************************************************)
(* The steps of all parselets preserve the invariant of StackDiscipline,   *)
(* and what follows.  The theorems hold for every set of sources and every *)
(* table of parselets that ParseletRegistration allows, in both builds,    *)
(* with and without aborts.                                                *)
(*                                                                         *)
(* First, how pushing and popping nodes, contexts and frames leads from    *)
(* one case of the discipline to another: these lemmas know nothing of the *)
(* parselets.  Then what the helpers of module Parser return, and the ways *)
(* in which a function changes the stacks and calls the next one: each     *)
(* lemma named ...Step takes one of these ways from the invariant to the   *)
(* invariant.  Then the parselets, and the theorems.                       *)
(***************************************************************************)
EXTENDS StackDiscipline, SequenceTheorems, WellFoundedInduction, TLAPS

\* The indices of contexts are numbers.
LEMMA ContextIndex ==
  ASSUME NEW C \in Seq(Context), NEW i \in 1..Len(C)
  PROVE  C[i] \in Context /\ C[i].Index \in Nat
  BY DEF Context

\* What a stack has after Pop and Append.
LEMMA PopFacts ==
  ASSUME NEW S, NEW s \in Seq(S), s # <<>>
  PROVE  /\ Pop(s) \in Seq(S)
         /\ Len(Pop(s)) = Len(s) - 1
         /\ \A i \in 1..(Len(s) - 1) : Pop(s)[i] = s[i]
         /\ Len(s) \in Nat \ {0}
         /\ Top(s) = s[Len(s)] /\ Top(s) \in S
  <1>1. Len(s) \in Nat \ {0}
    OBVIOUS
  <1>2. \A i \in 1..(Len(s) - 1) : s[i] \in S
    OBVIOUS
  <1>3. /\ Pop(s) \in Seq(S)
        /\ Len(Pop(s)) = IF 1 <= Len(s) - 1 THEN (Len(s) - 1) - 1 + 1 ELSE 0
        /\ \A i \in 1..((Len(s) - 1) - 1 + 1) : Pop(s)[i] = s[1 + i - 1]
    BY <1>1, <1>2, SubSeqProperties DEF Pop
  <1>4. Len(Pop(s)) = Len(s) - 1
    <2>1. \A k \in Nat \ {0} : (IF 1 <= k - 1 THEN (k - 1) - 1 + 1 ELSE 0) = k - 1
      OBVIOUS
    <2> QED  BY <1>1, <1>3, <2>1
  <1>5. ASSUME NEW i \in 1..(Len(s) - 1) PROVE Pop(s)[i] = s[i]
    <2>1. 1 + i - 1 = i /\ i \in 1..((Len(s) - 1) - 1 + 1)
      BY <1>1
    <2> QED  BY <1>3, <2>1
  <1>6. Top(s) = s[Len(s)] /\ Top(s) \in S
    BY <1>1 DEF Top
  <1> QED  BY <1>1, <1>3, <1>4, <1>5, <1>6

LEMMA PushFacts ==
  ASSUME NEW S, NEW s \in Seq(S), NEW e \in S
  PROVE  /\ Append(s, e) \in Seq(S)
         /\ Len(Append(s, e)) = Len(s) + 1
         /\ \A i \in 1..Len(s) : Append(s, e)[i] = s[i]
         /\ Append(s, e)[Len(s) + 1] = e
         /\ Append(s, e) # <<>>
         /\ Len(s) \in Nat
  OBVIOUS

LEMMA PopPush ==
  ASSUME NEW S, NEW s \in Seq(S), NEW e \in S
  PROVE  Pop(Append(s, e)) = s /\ Top(Append(s, e)) = e
  <1> DEFINE t == Append(s, e)
  <1>1. /\ t \in Seq(S) /\ Len(t) = Len(s) + 1 /\ t # <<>> /\ Len(s) \in Nat
        /\ \A i \in 1..Len(s) : t[i] = s[i]
        /\ t[Len(s) + 1] = e
    BY PushFacts
  <1>2. /\ Pop(t) \in Seq(S) /\ Len(Pop(t)) = Len(t) - 1
        /\ \A i \in 1..(Len(t) - 1) : Pop(t)[i] = t[i]
    BY <1>1, PopFacts
  <1>3. Len(t) - 1 = Len(s)
    BY <1>1
  <1>4. Pop(t) = s
    BY <1>1, <1>2, <1>3, SeqEqual
  <1> QED  BY <1>1, <1>4 DEF Top

\* Parsing an operand adds one node.
LEMMA Operand ==
  ASSUME NEW n \in Nat, NEW C \in Seq(Context), NEW frs \in Seq(Frame),
         Expecting(n, C, frs)
  PROVE  Complete(n + 1, C, frs)
  <1>1. Nested(n + 1, C)
    BY ContextIndex DEF Expecting, Nested
  <1>2. HasOperand(n + 1, C)
    BY ContextIndex DEF Expecting, Nested, HasOperand
  <1> QED  BY <1>1, <1>2 DEF Expecting, Complete

\* A context that starts at a new node is above the others.
LEMMA NestDeeper ==
  ASSUME NEW n \in Nat, NEW C \in Seq(Context), NEW ctxt \in Context,
         NEW m \in Nat, Nested(n, C), C = <<>> => ctxt.Index = 0,
         \A i \in 1..Len(C) : C[i].Index < ctxt.Index, ctxt.Index < m, n <= m
  PROVE  Nested(m, Append(C, ctxt))
  <1> DEFINE D == Append(C, ctxt)
  <1>1. /\ Len(D) = Len(C) + 1 /\ D[Len(C) + 1] = ctxt
        /\ \A i \in 1..Len(C) : D[i] = C[i]
    BY PushFacts
  <1>2. ASSUME NEW i \in 1..Len(D) PROVE D[i].Index < m
    BY <1>1, <1>2, ContextIndex DEF Nested
  <1>3. ASSUME NEW i \in 1..Len(D), NEW j \in 1..Len(D), i < j
        PROVE  D[i].Index < D[j].Index
    BY <1>1, <1>3 DEF Nested
  <1>4. D[1].Index = 0
    BY <1>1 DEF Nested
  <1> QED  BY <1>2, <1>3, <1>4 DEF Nested

LEMMA NestAtNode ==
  ASSUME NEW n \in Nat, NEW C \in Seq(Context), NEW ctxt \in Context,
         NEW m \in Nat, Nested(n, C), C # <<>>, ctxt.Index = n, n + 1 <= m
  PROVE  Nested(m, Append(C, ctxt))
  <1>1. \A i \in 1..Len(C) : C[i].Index < ctxt.Index
    BY DEF Nested
  <1>2. ctxt.Index < m /\ n <= m
    OBVIOUS
  <1> QED  BY <1>1, <1>2, NestDeeper

LEMMA EnterAtOperand ==
  ASSUME NEW n \in Nat, NEW C \in Seq(Context), NEW frs \in Seq(Frame),
         NEW ctxt \in Context, NEW m \in Nat,
         Complete(n, C, frs), ctxt.Index = n - 1, n <= m
  PROVE  Running(m, Append(C, ctxt), frs)
  <1> DEFINE D == Append(C, ctxt)
  <1>1. /\ Len(D) = Len(C) + 1 /\ D # <<>>
        /\ \A i \in 1..Len(C) : D[i] = C[i]
    BY PushFacts
  <1>2. Nested(m, D)
    <2>1. C = <<>> => ctxt.Index = 0
      BY DEF Complete, HasOperand
    <2>2. \A i \in 1..Len(C) : C[i].Index < ctxt.Index
      BY ContextIndex DEF Complete, HasOperand, Nested
    <2>3. ctxt.Index < m
      OBVIOUS
    <2> QED  BY <2>1, <2>2, <2>3, NestDeeper DEF Complete
  <1>3. PICK g \in [1..Len(frs) -> 1..Len(C)] : Owner(g, C, frs) /\ AllOwned(g, C, Len(C))
    BY DEF Complete, Operating
  <1>4. g \in [1..Len(frs) -> 1..Len(D)] /\ Owner(g, D, frs)
    BY <1>1, <1>3 DEF Owner
  <1>5. \A j \in 1..Len(frs) : g[j] < Len(D)
    BY SMTT(30), <1>1, <1>3
  <1>6. AllOwned(g, D, Len(D) - 1)
    BY <1>1, <1>3 DEF AllOwned
  <1> QED  BY <1>1, <1>2, <1>4, <1>5, <1>6 DEF Running, Complete, Operating

\* A parselet that expects an operand enters a context that starts there.
LEMMA EnterForOperand ==
  ASSUME NEW n \in Nat, NEW C \in Seq(Context), NEW frs \in Seq(Frame),
         NEW ctxt \in Context, NEW m \in Nat,
         Expecting(n, C, frs), ctxt.Index = n, n + 1 <= m
  PROVE  Running(m, Append(C, ctxt), frs)
  <1>1. Complete(n + 1, C, frs)
    BY Operand
  <1> QED  BY <1>1, EnterAtOperand

\* Only indices matter, and more nodes do no harm.
LEMMA NestAlike ==
  ASSUME NEW n \in Nat, NEW C \in Seq(Context), NEW D, NEW m \in Nat,
         Nested(n, C), C # <<>>, n <= m, Len(D) = Len(C),
         \A i \in 1..Len(C) : D[i].Index = C[i].Index
  PROVE  Nested(m, D)
  <1>1. \A i \in 1..Len(D) : D[i].Index < m
    BY ContextIndex DEF Nested
  <1>2. \A i, j \in 1..Len(D) : i < j => D[i].Index < D[j].Index
    BY DEF Nested
  <1>3. D[1].Index = 0
    BY DEF Nested
  <1> QED  BY <1>1, <1>2, <1>3 DEF Nested

\* The top context is given its continuation, and is to parse an operand.
LEMMA Continue ==
  ASSUME NEW n \in Nat, NEW C \in Seq(Context), NEW frs \in Seq(Frame),
         NEW ctxt \in Context, NEW m \in Nat,
         Running(n, C, frs), ctxt.Index = Top(C).Index, n <= m,
         ctxt.F \notin {"NULL", "Parser_identity"}
  PROVE  Expecting(m, [C EXCEPT ![Len(C)] = ctxt], frs)
  <1> DEFINE D == [C EXCEPT ![Len(C)] = ctxt]
  <1>1. /\ Len(D) = Len(C) /\ D # <<>> /\ Len(C) \in Nat \ {0}
        /\ \A i \in 1..(Len(C) - 1) : D[i] = C[i]
        /\ D[Len(C)] = ctxt
    BY DEF Running
  <1>2. \A i \in 1..Len(C) : D[i].Index = C[i].Index
    BY <1>1 DEF Top
  <1>3. Nested(m, D)
    BY <1>1, <1>2, NestAlike DEF Running
  <1>4. PICK g \in [1..Len(frs) -> 1..Len(C)] :
               /\ Owner(g, C, frs)
               /\ \A j \in 1..Len(frs) : g[j] < Len(C)
               /\ AllOwned(g, C, Len(C) - 1)
    BY DEF Running
  <1>5. Owner(g, D, frs)
    BY <1>1, <1>4 DEF Owner
  <1>6. AllOwned(g, D, Len(D))
    BY <1>1, <1>4 DEF AllOwned
  <1>7. Operating(D, frs)
    BY <1>1, <1>4, <1>5, <1>6 DEF Operating, Running
  <1> QED  BY <1>1, <1>3, <1>7 DEF Expecting

\* The top of a stack replaced by itself.
LEMMA SameTop ==
  ASSUME NEW S, NEW s \in Seq(S), s # <<>>
  PROVE  [s EXCEPT ![Len(s)] = Top(s)] = s
  <1> DEFINE u == [s EXCEPT ![Len(s)] = Top(s)]
  <1>1. u \in Seq(S) /\ Len(u) = Len(s)
    BY DEF Top
  <1>2. \A i \in 1..Len(s) : u[i] = s[i]
    BY DEF Top
  <1> HIDE DEF u
  <1>3. u = s
    BY <1>1, <1>2, SeqEqual
  <1> QED  BY <1>3 DEF u

\* Both at once: enter a context whose continuation is known.
LEMMA EnterAndContinue ==
  ASSUME NEW n \in Nat, NEW C \in Seq(Context), NEW frs \in Seq(Frame),
         NEW ctxt \in Context, NEW m \in Nat,
         Expecting(n, C, frs), ctxt.Index = n, n + 1 <= m,
         ctxt.F \notin {"NULL", "Parser_identity"}
  PROVE  Expecting(m, Append(C, ctxt), frs)
  <1> DEFINE D == Append(C, ctxt)
  <1>1. Running(m, D, frs)
    BY EnterForOperand
  <1>2. /\ D \in Seq(Context) /\ D # <<>> /\ Len(D) = Len(C) + 1
        /\ D[Len(D)] = ctxt /\ Top(D) = ctxt
    BY PushFacts, PopPush
  <1> HIDE DEF D
  <1>3. [D EXCEPT ![Len(D)] = ctxt] = D
    BY <1>2, SameTop
  <1>4. ctxt.Index = Top(D).Index /\ m <= m
    BY <1>2
  <1>5. Expecting(m, [D EXCEPT ![Len(D)] = ctxt], frs)
    BY <1>1, <1>2, <1>4, Continue
  <1> QED  BY <1>3, <1>5 DEF D

\* A loop calls its operand natively and waits for the return.
LEMMA ContinueNatively ==
  ASSUME NEW n \in Nat, NEW C \in Seq(Context), NEW frs \in Seq(Frame),
         NEW ctxt \in Context, NEW frame \in Frame, NEW m \in Nat,
         Running(n, C, frs), ctxt.Index = Top(C).Index, n <= m,
         ctxt.F = "Parser_identity", IsLoop(frame)
  PROVE  Expecting(m, [C EXCEPT ![Len(C)] = ctxt], Append(frs, frame))
  <1> DEFINE D == [C EXCEPT ![Len(C)] = ctxt]
             frs2 == Append(frs, frame)
             k == Len(frs) + 1
  <1>1. /\ Len(D) = Len(C) /\ D # <<>> /\ Len(C) \in Nat \ {0}
        /\ \A i \in 1..(Len(C) - 1) : D[i] = C[i]
        /\ D[Len(C)] = ctxt
    BY DEF Running
  <1>2. \A i \in 1..Len(C) : D[i].Index = C[i].Index
    BY <1>1 DEF Top
  <1>3. Nested(m, D)
    BY <1>1, <1>2, NestAlike DEF Running
  <1>4. PICK g \in [1..Len(frs) -> 1..Len(C)] :
               /\ Owner(g, C, frs)
               /\ \A j \in 1..Len(frs) : g[j] < Len(C)
               /\ AllOwned(g, C, Len(C) - 1)
    BY DEF Running
  <1>5. /\ frs2 \in Seq(Frame) /\ Len(frs2) = k /\ k \in Nat \ {0}
        /\ frs2[k] = frame /\ \A i \in 1..Len(frs) : frs2[i] = frs[i]
    BY PushFacts
  <1> DEFINE h == [j \in 1..k |-> IF j = k THEN Len(C) ELSE g[j]]
  <1>6. h \in [1..k -> 1..Len(D)]
    BY <1>1, <1>4, <1>5
  <1>7. Owner(h, D, frs2)
    <2>1. ASSUME NEW i \in 1..k, NEW j \in 1..k, i < j  PROVE h[i] < h[j]
      BY <1>1, <1>4, <1>5, <2>1 DEF Owner
    <2>2. ASSUME NEW i \in 1..k PROVE D[h[i]].F = SuspendedF(frs2[i])
      <3>1. CASE i = k
        BY <1>1, <1>5, <3>1 DEF SuspendedF
      <3>2. CASE i # k
        BY <1>1, <1>4, <1>5, <3>2 DEF Owner
      <3> QED  BY <3>1, <3>2
    <2> QED  BY <1>5, <1>6, <2>1, <2>2 DEF Owner
  <1>8. AllOwned(h, D, Len(D))
    <2>1. ASSUME NEW i \in 1..Len(D), D[i].F \in {"NULL", "Parser_identity"}
          PROVE  \E j \in DOMAIN h : h[j] = i
      <3>1. CASE i = Len(C)
        BY <1>5, <3>1
      <3>2. CASE i # Len(C)
        <4>1. i \in 1..(Len(C) - 1) /\ D[i] = C[i]
          BY <1>1, <3>2
        <4>2. PICK j \in DOMAIN g : g[j] = i
          BY <1>4, <2>1, <4>1 DEF AllOwned
        <4>3. j \in DOMAIN h /\ h[j] = i
          BY <1>4, <1>5, <4>2
        <4> QED  BY <4>3
      <3> QED  BY <3>1, <3>2
    <2> QED  BY <2>1 DEF AllOwned
  <1>9. OnlyLoops(frs2)
    BY <1>5 DEF OnlyLoops, Running
  <1>10. Operating(D, frs2)
    BY <1>5, <1>6, <1>7, <1>8, <1>9 DEF Operating
  <1> QED  BY <1>1, <1>3, <1>10 DEF Expecting

\* A function takes nodes, and may change the top context, but parses nothing.
LEMMA Stay ==
  ASSUME NEW n \in Nat, NEW C \in Seq(Context), NEW frs \in Seq(Frame),
         NEW ctxt \in Context, NEW m \in Nat,
         Running(n, C, frs), ctxt.Index = Top(C).Index, n <= m
  PROVE  Running(m, [C EXCEPT ![Len(C)] = ctxt], frs)
  <1> DEFINE D == [C EXCEPT ![Len(C)] = ctxt]
  <1>1. /\ Len(D) = Len(C) /\ D # <<>> /\ Len(C) \in Nat \ {0}
        /\ \A i \in 1..(Len(C) - 1) : D[i] = C[i]
        /\ D[Len(C)] = ctxt
    BY DEF Running
  <1>2. \A i \in 1..Len(C) : D[i].Index = C[i].Index
    BY <1>1 DEF Top
  <1>3. Nested(m, D)
    BY <1>1, <1>2, NestAlike DEF Running
  <1>4. PICK g \in [1..Len(frs) -> 1..Len(C)] :
               /\ Owner(g, C, frs)
               /\ \A j \in 1..Len(frs) : g[j] < Len(C)
               /\ AllOwned(g, C, Len(C) - 1)
    BY DEF Running
  <1>5. Owner(g, D, frs)
    BY <1>1, <1>4 DEF Owner
  <1>6. AllOwned(g, D, Len(D) - 1)
    BY <1>1, <1>4 DEF AllOwned
  <1> QED  BY <1>1, <1>3, <1>4, <1>5, <1>6 DEF Running

\* The same with the top context as it is.
LEMMA StayWithContext ==
  ASSUME NEW n \in Nat, NEW C \in Seq(Context), NEW frs \in Seq(Frame),
         NEW m \in Nat, Running(n, C, frs), n <= m
  PROVE  Running(m, C, frs)
  BY ContextIndex DEF Running, Nested

\* The contexts below the top are nested below its first node.
LEMMA NestedBelow ==
  ASSUME NEW n \in Nat, NEW C \in Seq(Context), Nested(n, C), C # <<>>
  PROVE  /\ Top(C).Index \in Nat /\ Top(C).Index < n
         /\ Nested(Top(C).Index + 1, Pop(C))
         /\ HasOperand(Top(C).Index + 1, Pop(C))
  <1>1. /\ Len(C) \in Nat \ {0} /\ Len(Pop(C)) = Len(C) - 1
        /\ Top(C) = C[Len(C)]
        /\ \A i \in 1..(Len(C) - 1) : Pop(C)[i] = C[i]
    BY PopFacts
  <1>2. Top(C).Index \in Nat /\ Top(C).Index < n
    BY <1>1, ContextIndex DEF Nested
  <1>3. ASSUME NEW i \in 1..(Len(C) - 1)
        PROVE  Pop(C)[i].Index \in Nat /\ Pop(C)[i].Index < Top(C).Index
    BY <1>1, ContextIndex DEF Nested
  <1>4. Pop(C) # <<>> => Len(C) # 1
    BY <1>1, PopFacts
  <1>5. Nested(Top(C).Index + 1, Pop(C))
    BY <1>1, <1>2, <1>3, <1>4, ContextIndex DEF Nested
  <1>6. HasOperand(Top(C).Index + 1, Pop(C))
    <2>1. CASE Pop(C) = <<>>
      <3>1. Len(C) = 1
        BY <1>1, <2>1
      <3> QED  BY <1>1, <2>1, <3>1 DEF HasOperand, Nested
    <2>2. CASE Pop(C) # <<>>
      <3>1. Len(C) - 1 \in 1..(Len(C) - 1)
        BY <1>1, <1>4, <2>2
      <3> QED  BY <1>1, <1>2, <1>3, <2>2, <3>1 DEF HasOperand
    <2> QED  BY <2>1, <2>2
  <1> QED  BY <1>2, <1>5, <1>6

\* The top context is reduced to one node, an operand of the context below.
LEMMA ReduceTop ==
  ASSUME NEW n \in Nat, NEW C \in Seq(Context), NEW frs \in Seq(Frame),
         Running(n, C, frs)
  PROVE  Complete(Top(C).Index + 1, Pop(C), frs)
  <1>1. /\ Len(C) \in Nat \ {0} /\ Len(Pop(C)) = Len(C) - 1
        /\ \A i \in 1..(Len(C) - 1) : Pop(C)[i] = C[i]
    BY PopFacts DEF Running
  <1>2. PICK g \in [1..Len(frs) -> 1..Len(C)] :
               /\ Owner(g, C, frs)
               /\ \A j \in 1..Len(frs) : g[j] < Len(C)
               /\ AllOwned(g, C, Len(C) - 1)
    BY DEF Running
  <1>3. g \in [1..Len(frs) -> 1..Len(Pop(C))]
    BY <1>1, <1>2
  <1>4. Owner(g, Pop(C), frs)
    BY <1>1, <1>2, <1>3 DEF Owner
  <1>5. AllOwned(g, Pop(C), Len(Pop(C)))
    BY <1>1, <1>2 DEF AllOwned
  <1> QED  BY <1>3, <1>4, <1>5, NestedBelow DEF Running, Complete, Operating

\* The continuation of the top context is called.
LEMMA CallContinuation ==
  ASSUME NEW n \in Nat, NEW C \in Seq(Context), NEW frs \in Seq(Frame),
         Complete(n, C, frs), C # <<>>
  PROVE  /\ Top(C).F # "NULL"
         /\ Top(C).F # "Parser_identity" => Running(n, C, frs)
  <1>1. PICK g \in [1..Len(frs) -> 1..Len(C)] :
               Owner(g, C, frs) /\ AllOwned(g, C, Len(C))
    BY DEF Complete, Operating
  <1>2. Len(C) \in Nat \ {0} /\ Top(C) = C[Len(C)]
    BY PopFacts
  <1>3. ASSUME NEW j \in 1..Len(frs), g[j] = Len(C)
        PROVE  Top(C).F = "Parser_identity"
    BY <1>1, <1>2, <1>3 DEF Owner, SuspendedF, Complete, Operating, OnlyLoops
  <1>4. Top(C).F # "NULL"
    BY <1>1, <1>2, <1>3 DEF AllOwned
  <1>5. ASSUME Top(C).F # "Parser_identity" PROVE Running(n, C, frs)
    <2>1. \A j \in 1..Len(frs) : g[j] < Len(C)
      BY <1>1, <1>2, <1>3, <1>5
    <2>2. AllOwned(g, C, Len(C) - 1)
      BY <1>1, <1>2 DEF AllOwned
    <2> QED  BY <1>1, <2>1, <2>2 DEF Running, Complete, Operating
  <1> QED  BY <1>4, <1>5

-----------------------------------------------------------------------------
(* Native calls and returns                                                *)

\* An increasing map into 1..n that reaches n does so at its last place.
LEMMA LastReachesTop ==
  ASSUME NEW k \in Nat, NEW n \in Nat, NEW g \in [1..k -> 1..n], NEW j \in 1..k,
         \A i, l \in 1..k : i < l => g[i] < g[l], g[j] = n
  PROVE  k \in 1..k /\ g[k] = n
  <1>1. k \in 1..k
    OBVIOUS
  <1>2. ASSUME j # k PROVE FALSE
    <2>1. j < k /\ g[j] < g[k] /\ g[k] \in 1..n
      BY <1>1, <1>2
    <2> QED  BY <2>1
  <1> QED  BY <1>1, <1>2

\* Parser_identity, or no context at all: back to the caller.
LEMMA ReturnToCaller ==
  ASSUME NEW n \in Nat, NEW C \in Seq(Context), NEW frs \in Seq(Frame),
         Complete(n, C, frs), C # <<>> => Top(C).F = "Parser_identity"
  PROVE  Returning(n, C, frs)
  <1>1. PICK g \in [1..Len(frs) -> 1..Len(C)] :
               Owner(g, C, frs) /\ AllOwned(g, C, Len(C))
    BY DEF Complete, Operating
  <1>2. Len(frs) \in Nat /\ Len(C) \in Nat /\ (frs # <<>> => Len(frs) \in 1..Len(frs))
    OBVIOUS
  <1>3. ASSUME C # <<>> PROVE frs # <<>> /\ g[Len(frs)] = Len(C)
    <2>1. Len(C) \in 1..Len(C) /\ C[Len(C)].F = "Parser_identity"
      BY <1>3 DEF Top
    <2>2. PICK j \in 1..Len(frs) : g[j] = Len(C)
      BY <1>1, <2>1 DEF AllOwned
    <2>3. \A i, l \in 1..Len(frs) : i < l => g[i] < g[l]
      BY <1>1 DEF Owner
    <2>4. g[Len(frs)] = Len(C)
      BY SMTT(30), <1>2, <2>2, <2>3, LastReachesTop
    <2>5. frs # <<>>
      BY <1>2, <2>2
    <2> QED  BY <2>4, <2>5
  <1>4. ASSUME frs # <<>> PROVE C # <<>>
    BY <1>1, <1>2, <1>4
  <1>5. ASSUME Len(frs) >= 2 PROVE Top(frs).fn # InnerReduce
    <2>1. IsLoop(Top(frs))
      BY <1>2, <1>5 DEF Complete, Operating, OnlyLoops, Top
    <2> QED  BY <2>1 DEF IsLoop, LoopFns, InnerReduce
  <1>6. TopOwned(g, C, frs)
    BY <1>3, <1>4, <1>5 DEF TopOwned
  <1> QED  BY <1>1, <1>6 DEF Complete, Operating, Returning

\* A return to nothing is one to the top level, with one operand.
LEMMA ReturnToTop ==
  ASSUME NEW n \in Nat, NEW C \in Seq(Context), Returning(n, C, <<>>)
  PROVE  C = <<>> /\ n = 1
  BY DEF Returning, TopOwned, HasOperand

\* Frames without the top one, under the ownership of the others.
LEMMA PopOwner ==
  ASSUME NEW C \in Seq(Context), NEW frs \in Seq(Frame), frs # <<>>,
         NEW g \in [1..Len(frs) -> 1..Len(C)], Owner(g, C, frs),
         AllOwned(g, C, Len(C)), g[Len(frs)] = Len(C), C # <<>>
  PROVE  \E h \in [1..Len(Pop(frs)) -> 1..Len(C)] :
           /\ Owner(h, C, Pop(frs))
           /\ \A j \in 1..Len(Pop(frs)) : h[j] = g[j] /\ h[j] < Len(C)
           /\ AllOwned(h, C, Len(C) - 1)
  <1> DEFINE k == Len(frs) - 1
             h == [j \in 1..k |-> g[j]]
  <1>1. /\ Len(frs) \in Nat \ {0} /\ Len(Pop(frs)) = k
        /\ \A i \in 1..k : Pop(frs)[i] = frs[i]
    BY PopFacts
  <1> k \in Nat
    BY <1>1
  <1> Len(C) \in Nat \ {0}
    OBVIOUS
  <1>2. h \in [1..k -> 1..Len(C)]
    BY <1>1
  <1>3. \A j \in 1..k : h[j] = g[j] /\ h[j] < Len(C)
    BY <1>1 DEF Owner
  <1>4. Owner(h, C, Pop(frs))
    BY <1>1, <1>2, <1>3 DEF Owner
  <1>5. ASSUME NEW i \in 1..(Len(C) - 1), C[i].F \in {"NULL", "Parser_identity"}
        PROVE  \E j \in DOMAIN h : h[j] = i
    <2>1. PICK j \in 1..Len(frs) : g[j] = i
      BY <1>1, <1>5 DEF AllOwned
    <2>2. j # Len(frs)
      BY <1>1, <2>1
    <2>3. j \in DOMAIN h /\ h[j] = i
      BY <1>1, <2>1, <2>2
    <2> QED  BY <2>3
  <1>6. AllOwned(h, C, Len(C) - 1)
    BY <1>5 DEF AllOwned
  <1> QED  BY <1>1, <1>2, <1>3, <1>4, <1>6

\* Loops have no frames of Symbol and Under above or below them but those on
\* top.
LEMMA FramesBelow ==
  ASSUME NEW frs \in Seq(Frame), frs # <<>>, OnlyLoops(frs) \/ PatternFrames(frs)
  PROVE  /\ Top(frs).fn # InnerReduce => OnlyLoops(Pop(frs))
         /\ Top(frs).fn = InnerReduce =>
              PatternFrames(Pop(frs)) /\ Pop(frs) # <<>>
                /\ Top(Pop(frs)).fn # InnerReduce
  <1>1. /\ Len(frs) \in Nat \ {0} /\ Len(Pop(frs)) = Len(frs) - 1
        /\ Top(frs) = frs[Len(frs)]
        /\ \A i \in 1..(Len(frs) - 1) : Pop(frs)[i] = frs[i]
    BY PopFacts
  <1>2. CASE OnlyLoops(frs)
    <2>1. IsLoop(Top(frs))
      BY <1>1, <1>2 DEF OnlyLoops
    <2>2. OnlyLoops(Pop(frs))
      BY <1>1, <1>2 DEF OnlyLoops
    <2> QED  BY <2>1, <2>2 DEF IsLoop, LoopFns, InnerReduce
  <1>3. CASE /\ Len(frs) >= 1 /\ OnlyLoops(Pop(frs))
             /\ Top(frs).fn \in PatternReduces
    BY <1>3 DEF PatternReduces, InnerReduce
  <1>4. CASE /\ Len(frs) >= 2 /\ OnlyLoops(Pop(Pop(frs)))
             /\ Top(Pop(frs)).fn \in PatternReduces /\ Top(frs).fn = InnerReduce
    BY <1>1, <1>4 DEF PatternFrames, PatternReduces, InnerReduce
  <1> QED  BY <1>2, <1>3, <1>4 DEF PatternFrames

\* A native return, to whichever function called.
LEMMA ReturnToFrame ==
  ASSUME NEW n \in Nat, NEW C \in Seq(Context), NEW frs \in Seq(Frame),
         Returning(n, C, frs), frs # <<>>
  PROVE  /\ Top(frs).fn # InnerReduce => Running(n, C, Pop(frs))
         /\ Top(frs).fn = InnerReduce => ReducingInner(n, C, Pop(frs))
  <1>1. PICK g \in [1..Len(frs) -> 1..Len(C)] :
               Owner(g, C, frs) /\ AllOwned(g, C, Len(C)) /\ TopOwned(g, C, frs)
    BY DEF Returning
  <1>2. /\ Len(frs) \in Nat \ {0} /\ Len(C) \in Nat
        /\ Len(frs) \in 1..Len(frs)
        /\ Len(Pop(frs)) = Len(frs) - 1
    BY PopFacts
  <1>3. C # <<>> /\ g[Len(frs)] = Len(C)
    BY <1>1, <1>2 DEF TopOwned
  <1>4. PICK h \in [1..Len(Pop(frs)) -> 1..Len(C)] :
               /\ Owner(h, C, Pop(frs))
               /\ \A j \in 1..Len(Pop(frs)) : h[j] = g[j] /\ h[j] < Len(C)
               /\ AllOwned(h, C, Len(C) - 1)
    BY <1>1, <1>3, PopOwner
  <1>5. ASSUME Top(frs).fn # InnerReduce PROVE Running(n, C, Pop(frs))
    BY <1>3, <1>4, <1>5, FramesBelow DEF Running, Returning
  <1>6. ASSUME Top(frs).fn = InnerReduce PROVE ReducingInner(n, C, Pop(frs))
    <2>1. PatternFrames(Pop(frs)) /\ Pop(frs) # <<>> /\ Top(Pop(frs)).fn # InnerReduce
      BY <1>6, FramesBelow DEF Returning
    <2>2. Len(frs) >= 2 /\ Len(Pop(frs)) \in 1..Len(Pop(frs))
      BY <1>2, <2>1, PopFacts
    <2>3. h[Len(Pop(frs))] = Len(C) - 1
      BY <1>1, <1>2, <1>4, <1>6, <2>2 DEF TopOwned
    <2> QED  BY <1>3, <1>4, <2>1, <2>3 DEF ReducingInner, Returning
  <1> QED  BY <1>5, <1>6

\* Ownership when a frame and its context are pushed together.
LEMMA PushOwner ==
  ASSUME NEW C \in Seq(Context), NEW frs \in Seq(Frame), NEW ctxt \in Context,
         NEW frame \in Frame, ctxt.F = SuspendedF(frame),
         NEW g \in [1..Len(frs) -> 1..Len(C)], Owner(g, C, frs),
         AllOwned(g, C, Len(C))
  PROVE  \E h \in [1..(Len(frs) + 1) -> 1..(Len(C) + 1)] :
           /\ Owner(h, Append(C, ctxt), Append(frs, frame))
           /\ AllOwned(h, Append(C, ctxt), Len(C) + 1)
           /\ h[Len(frs) + 1] = Len(C) + 1
           /\ \A i \in 1..Len(frs) : h[i] = g[i]
  <1> DEFINE D == Append(C, ctxt)
             frs2 == Append(frs, frame)
             k == Len(frs) + 1
             n == Len(C) + 1
             h == [j \in 1..k |-> IF j = k THEN n ELSE g[j]]
  <1>1. /\ Len(D) = n /\ D[n] = ctxt /\ \A i \in 1..Len(C) : D[i] = C[i]
        /\ Len(C) \in Nat
    BY PushFacts
  <1>2. /\ Len(frs2) = k /\ frs2[k] = frame /\ \A i \in 1..Len(frs) : frs2[i] = frs[i]
        /\ Len(frs) \in Nat
    BY PushFacts
  <1>3. h \in [1..k -> 1..n]
    BY <1>1, <1>2
  <1>4. h[k] = n /\ \A i \in 1..Len(frs) : h[i] = g[i]
    BY <1>2
  <1>5. ASSUME NEW i \in 1..k, NEW j \in 1..k, i < j  PROVE h[i] < h[j]
    <2>1. i \in 1..Len(frs) /\ h[i] = g[i] /\ g[i] \in 1..Len(C)
      BY <1>2, <1>4, <1>5
    <2>2. CASE j = k
      BY <1>1, <1>4, <2>1, <2>2
    <2>3. CASE j # k
      <3>1. j \in 1..Len(frs) /\ h[j] = g[j]
        BY <1>2, <1>4, <2>3
      <3> QED  BY <1>5, <2>1, <3>1 DEF Owner
    <2> QED  BY <2>2, <2>3
  <1>6. ASSUME NEW i \in 1..k PROVE D[h[i]].F = SuspendedF(frs2[i])
    <2>1. CASE i = k
      BY <1>1, <1>2, <1>4, <2>1
    <2>2. CASE i # k
      <3>1. i \in 1..Len(frs) /\ h[i] = g[i] /\ frs2[i] = frs[i]
        BY <1>2, <1>4, <2>2
      <3>2. g[i] \in 1..Len(C) /\ C[g[i]].F = SuspendedF(frs[i])
        BY <3>1 DEF Owner
      <3> QED  BY <1>1, <3>1, <3>2
    <2> QED  BY <2>1, <2>2
  <1>7. Owner(h, D, frs2)
    BY <1>1, <1>2, <1>3, <1>5, <1>6 DEF Owner
  <1>8. ASSUME NEW i \in 1..n, D[i].F \in {"NULL", "Parser_identity"}
        PROVE  \E j \in DOMAIN h : h[j] = i
    <2>1. CASE i = n
      BY <1>2, <1>4, <2>1
    <2>2. CASE i # n
      <3>1. i \in 1..Len(C) /\ D[i] = C[i]
        BY <1>1, <2>2
      <3>2. PICK j \in DOMAIN g : g[j] = i
        BY <1>8, <3>1 DEF AllOwned
      <3>3. j \in DOMAIN h /\ h[j] = i
        BY <1>2, <1>4, <3>2
      <3> QED  BY <3>3
    <2> QED  BY <2>1, <2>2
  <1>9. AllOwned(h, D, n)
    BY <1>8 DEF AllOwned
  <1> QED  BY <1>3, <1>4, <1>7, <1>9

\* Where a pattern begins, Symbol or Under calls a function natively ...
LEMMA BeginPattern ==
  ASSUME NEW n \in Nat, NEW C \in Seq(Context), NEW frs \in Seq(Frame),
         NEW ctxt \in Context, NEW frame \in Frame, Expecting(n, C, frs),
         ctxt.Index = n, ctxt.F = "NULL", frame.fn \in PatternReduces
  PROVE  /\ ReadingPattern(n + 1, Append(C, ctxt), Append(frs, frame))
         /\ Top(Append(frs, frame)).fn # InnerReduce
  <1> DEFINE D == Append(C, ctxt)
             frs2 == Append(frs, frame)
  <1>1. /\ Len(D) = Len(C) + 1 /\ D # <<>> /\ Len(C) \in Nat
    BY PushFacts
  <1>2. /\ Len(frs2) = Len(frs) + 1 /\ Len(frs) \in Nat /\ frs2 \in Seq(Frame)
        /\ Top(frs2) = frame /\ frs2 # <<>>
        /\ \A i \in 1..Len(frs) : frs2[i] = frs[i]
    BY PushFacts DEF Top
  <1>3. Nested(n + 1, D)
    BY ContextIndex, NestDeeper DEF Expecting, Nested
  <1>4. SuspendedF(frame) = "NULL"
    BY DEF SuspendedF, IsLoop, LoopFns, PatternReduces
  <1>5. frame.fn # InnerReduce
    BY DEF InnerReduce, PatternReduces
  <1>6. PICK g \in [1..Len(frs) -> 1..Len(C)] :
               Owner(g, C, frs) /\ AllOwned(g, C, Len(C))
    BY DEF Expecting, Operating
  <1>7. PICK h \in [1..(Len(frs) + 1) -> 1..(Len(C) + 1)] :
               /\ Owner(h, D, frs2)
               /\ AllOwned(h, D, Len(C) + 1)
               /\ h[Len(frs) + 1] = Len(C) + 1
    BY <1>4, <1>6, PushOwner
  <1>8. TopOwned(h, D, frs2)
    BY <1>1, <1>2, <1>5, <1>7 DEF TopOwned
  <1>9. PatternFrames(frs2)
    <2>1. OnlyLoops(Pop(frs2))
      BY PopPush DEF Expecting, Operating
    <2> QED  BY <1>2, <2>1 DEF PatternFrames
  <1> QED  BY <1>1, <1>2, <1>3, <1>5, <1>7, <1>8, <1>9 DEF ReadingPattern

\* ... and the blank after a symbol calls another.
LEMMA ContinuePattern ==
  ASSUME NEW n \in Nat, NEW C \in Seq(Context), NEW frs \in Seq(Frame),
         NEW ctxt \in Context, NEW frame \in Frame, ReadingPattern(n, C, frs),
         Top(frs).fn # InnerReduce, ctxt.Index = n, ctxt.F = "NULL",
         frame.fn = InnerReduce
  PROVE  ReadingPattern(n + 1, Append(C, ctxt), Append(frs, frame))
  <1> DEFINE D == Append(C, ctxt)
             frs2 == Append(frs, frame)
  <1>1. /\ Len(D) = Len(C) + 1 /\ D # <<>> /\ Len(C) \in Nat
    BY PushFacts
  <1>2. /\ Len(frs2) = Len(frs) + 1 /\ Len(frs) \in Nat /\ frs2 \in Seq(Frame)
        /\ Top(frs2) = frame /\ frs2 # <<>>
        /\ \A i \in 1..Len(frs) : frs2[i] = frs[i]
    BY PushFacts DEF Top
  <1>3. Nested(n + 1, D)
    BY NestAtNode DEF ReadingPattern
  <1>4. SuspendedF(frame) = "NULL"
    BY DEF SuspendedF, IsLoop, LoopFns, InnerReduce
  <1>5. PICK g \in [1..Len(frs) -> 1..Len(C)] :
               Owner(g, C, frs) /\ AllOwned(g, C, Len(C)) /\ TopOwned(g, C, frs)
    BY DEF ReadingPattern
  <1>6. PICK h \in [1..(Len(frs) + 1) -> 1..(Len(C) + 1)] :
               /\ Owner(h, D, frs2)
               /\ AllOwned(h, D, Len(C) + 1)
               /\ h[Len(frs) + 1] = Len(C) + 1
               /\ \A i \in 1..Len(frs) : h[i] = g[i]
    <2>1. Owner(g, C, frs) /\ AllOwned(g, C, Len(C)) /\ ctxt.F = SuspendedF(frame)
      BY <1>4, <1>5
    <2> HIDE DEF D, frs2
    <2> QED  BY <2>1, PushOwner DEF D, frs2
  <1>7. frs # <<>> /\ Len(frs) >= 1 /\ OnlyLoops(Pop(frs)) /\ Top(frs).fn \in PatternReduces
    BY <1>2 DEF ReadingPattern, PatternFrames
  <1>8. TopOwned(h, D, frs2)
    BY <1>1, <1>2, <1>5, <1>6, <1>7 DEF TopOwned
  <1>9. Pop(frs2) = frs
    BY PopPush
  <1>10. PatternFrames(frs2)
    BY <1>2, <1>7, <1>9 DEF PatternFrames
  <1> QED  BY <1>1, <1>2, <1>3, <1>6, <1>8, <1>10 DEF ReadingPattern

\* A part of a pattern that is read without a call is reduced at once.
LEMMA EnterInner ==
  ASSUME NEW n \in Nat, NEW C \in Seq(Context), NEW frs \in Seq(Frame),
         NEW ctxt \in Context, NEW m \in Nat, ReadingPattern(n, C, frs),
         Top(frs).fn # InnerReduce, ctxt.Index = n, n + 1 <= m
  PROVE  ReducingInner(m, Append(C, ctxt), frs)
  <1> DEFINE D == Append(C, ctxt)
  <1>1. /\ Len(D) = Len(C) + 1 /\ D # <<>> /\ Len(C) \in Nat
        /\ \A i \in 1..Len(C) : D[i] = C[i]
    BY PushFacts
  <1>2. Nested(m, D)
    BY NestAtNode DEF ReadingPattern
  <1>3. PICK g \in [1..Len(frs) -> 1..Len(C)] :
               Owner(g, C, frs) /\ AllOwned(g, C, Len(C)) /\ TopOwned(g, C, frs)
    BY DEF ReadingPattern
  <1>4. g \in [1..Len(frs) -> 1..Len(D)]
    BY <1>1
  <1>5. Owner(g, D, frs)
    BY <1>1, <1>3, <1>4 DEF Owner
  <1>6. AllOwned(g, D, Len(D) - 1)
    BY <1>1, <1>3 DEF AllOwned
  <1>7. g[Len(frs)] = Len(D) - 1
    BY <1>1, <1>3 DEF TopOwned, ReadingPattern
  <1> QED  BY <1>1, <1>2, <1>4, <1>5, <1>6, <1>7 DEF ReducingInner, ReadingPattern

\* The next part of a pattern has been read.
LEMMA EndPattern ==
  ASSUME NEW n \in Nat, NEW C \in Seq(Context), NEW frs \in Seq(Frame),
         ReadingPattern(n, C, frs)
  PROVE  Returning(n + 1, C, frs)
  <1>1. Nested(n + 1, C)
    BY ContextIndex DEF ReadingPattern, Nested
  <1>2. HasOperand(n + 1, C)
    <2>1. Len(C) \in 1..Len(C)
      BY DEF ReadingPattern
    <2> QED  BY <2>1, ContextIndex DEF ReadingPattern, Nested, HasOperand
  <1> QED  BY <1>1, <1>2 DEF Returning, ReadingPattern

\* A reduced part of a pattern is returned to the symbol before it.
LEMMA ReduceInner ==
  ASSUME NEW n \in Nat, NEW C \in Seq(Context), NEW frs \in Seq(Frame),
         ReducingInner(n, C, frs)
  PROVE  Returning(Top(C).Index + 1, Pop(C), frs)
  <1>1. /\ Len(C) \in Nat \ {0} /\ Len(Pop(C)) = Len(C) - 1
        /\ \A i \in 1..(Len(C) - 1) : Pop(C)[i] = C[i]
    BY PopFacts DEF ReducingInner
  <1>2. PICK g \in [1..Len(frs) -> 1..Len(C)] :
               /\ Owner(g, C, frs)
               /\ AllOwned(g, C, Len(C) - 1)
               /\ g[Len(frs)] = Len(C) - 1
    BY DEF ReducingInner
  <1>3. frs # <<>> /\ Len(frs) \in Nat \ {0}
    BY DEF ReducingInner, PatternFrames
  <1>4. ASSUME NEW j \in 1..Len(frs) PROVE g[j] <= Len(C) - 1
    <2>1. Len(frs) \in 1..Len(frs) /\ (j = Len(frs) \/ j < Len(frs))
      BY <1>3
    <2>2. g[j] \in 1..Len(C) /\ (j < Len(frs) => g[j] < g[Len(frs)])
      BY <1>2, <2>1 DEF Owner
    <2> QED  BY <1>1, <1>2, <2>1, <2>2
  <1>5. g \in [1..Len(frs) -> 1..Len(Pop(C))]
    BY <1>1, <1>2, <1>4
  <1>6. Owner(g, Pop(C), frs)
    BY <1>1, <1>2, <1>5 DEF Owner
  <1>7. AllOwned(g, Pop(C), Len(Pop(C)))
    BY <1>1, <1>2 DEF AllOwned
  <1>8. TopOwned(g, Pop(C), frs)
    BY <1>1, <1>2, <1>3 DEF TopOwned, ReducingInner
  <1> QED  BY <1>5, <1>6, <1>7, <1>8, NestedBelow DEF ReducingInner, Returning

-----------------------------------------------------------------------------
(* The parser                                                             *)

\* Every position has a token, and ENDOFFILE is the one behind the source.
LEMMA RawKindType ==
  ASSUME input \in Seq(SourceTokens), NEW p \in Nat
  PROVE  /\ RawKind(p) \in SourceTokens \union {"ENDOFFILE"}
         /\ RawKind(p) # "ENDOFFILE" => p < Len(input)
  <1>1. p < Len(input) => p + 1 \in 1..Len(input)
    OBVIOUS
  <1> QED  BY <1>1 DEF RawKind

LEMMA KindAtType ==
  ASSUME input \in Seq(SourceTokens), NEW p \in Nat
  PROVE  KindAt(p) \in Tokens /\ (KindAt(p) # "ENDOFFILE" => p < Len(input))
  <1>1. {"TOPLEVELNEWLINE", "INTERNALNEWLINE", "ENDOFFILE"} \subseteq Tokens
    BY DEF Tokens, Trivia, Newlines
  <1>2. SourceTokens \subseteq Tokens \union {"NEWLINE"}
    BY DEF SourceTokens
  <1> QED  BY <1>1, <1>2, RawKindType DEF KindAt

LEMMA LeafKindsFacts ==
  /\ Tokens \subseteq LeafKinds /\ ParserErrors \subseteq LeafKinds
  /\ Fakes \subseteq LeafKinds /\ "ENDOFFILE" \in LeafKinds
  BY DEF LeafKinds, Tokens

LEMMA LeafType ==
  ASSUME NEW op \in LeafKinds, NEW lo \in Nat, NEW hi \in Nat
  PROVE  /\ Leaf(op, lo, hi) \in Token
         /\ Leaf(op, lo, hi).op = op /\ Leaf(op, lo, hi).lo = lo
         /\ Leaf(op, lo, hi).hi = hi
  BY DEF Leaf, Token

LEMMA CurrentTokenType ==
  ASSUME input \in Seq(SourceTokens), NEW p \in Nat
  PROVE  /\ Tokenizer_currentToken(p) \in Token
         /\ Tokenizer_currentToken(p).op \in Tokens
         /\ Tokenizer_currentToken(p).lo = p
         /\ Tokenizer_currentToken(p).hi = p + 1
         /\ Inside(Tokenizer_currentToken(p))
  <1> DEFINE t == Tokenizer_currentToken(p)
  <1>1. KindAt(p) \in LeafKinds /\ p \in Nat /\ p + 1 \in Nat
    BY KindAtType, LeafKindsFacts
  <1>2. t \in Token /\ t.op = KindAt(p) /\ t.lo = p /\ t.hi = p + 1
    BY <1>1, LeafType DEF Tokenizer_currentToken
  <1>3. t.op # "ENDOFFILE" => p + 1 <= Len(input)
    BY <1>2, KindAtType
  <1> QED  BY <1>2, <1>3, KindAtType DEF Inside

LEMMA SlotTokenType ==
  ASSUME input \in Seq(SourceTokens), NEW p \in Nat
  PROVE  /\ Tokenizer_currentToken_INSIDE_SLOT(p) \in Token
         /\ Inside(Tokenizer_currentToken_INSIDE_SLOT(p))
  <1> DEFINE k == IF KindAt(p) = "SYMBOL" THEN "STRING" ELSE KindAt(p)
  <1>1. k \in LeafKinds /\ p \in Nat /\ p + 1 \in Nat
    BY KindAtType, LeafKindsFacts DEF Tokens, PossibleBeginning
  <1>2. k # "ENDOFFILE" => p + 1 <= Len(input)
    BY KindAtType
  <1> QED  BY <1>1, <1>2, LeafType DEF Tokenizer_currentToken_INSIDE_SLOT, Inside

LEMMA TagTokenType ==
  ASSUME input \in Seq(SourceTokens), NEW p \in 0..Len(input)
  PROVE  /\ Tokenizer_currentToken_stringifyAsTag(p) \in Token
         /\ Tokenizer_currentToken_stringifyAsTag(p).hi \in p..Len(input)
  <1>1. {"STRING", "ERROR_EXPECTEDTAG"} \subseteq LeafKinds
    BY DEF LeafKinds, Tokens, PossibleBeginning, ParserErrors
  <1>2. CASE RawKind(p) \in {"SYMBOL", "STRING"}
    <2>1. p + 1 \in Nat /\ p + 1 <= Len(input)
      BY <1>2, RawKindType
    <2> QED  BY <1>1, <1>2, <2>1, LeafType DEF Tokenizer_currentToken_stringifyAsTag
  <1>3. CASE RawKind(p) \notin {"SYMBOL", "STRING"}
    BY <1>1, <1>3, LeafType DEF Tokenizer_currentToken_stringifyAsTag
  <1> QED  BY <1>2, <1>3

\* A run of tokens ends at the first of another kind or behind the source.
LEMMA SkipKindsFacts ==
  ASSUME input \in Seq(SourceTokens), NEW p \in 0..Len(input), NEW toks
  PROVE  LET q == SkipKinds(p, toks)
         IN /\ q \in p..Len(input)
            /\ q = Len(input) \/ KindAt(q) \notin toks
            /\ \A r \in p..(q - 1) : KindAt(r) \in toks
  <1> DEFINE T == {q \in p..Len(input) : q = Len(input) \/ KindAt(q) \notin toks}
             R == OpToRel(<, Nat)
  <1>1. T \subseteq Nat /\ Len(input) \in T
    OBVIOUS
  <1>2. PICK q \in T : \A r \in T : ~(<<r, q>> \in R)
    <2> HIDE DEF T
    <2> QED  BY <1>1, WFMin, NatLessThanWellFounded
  <1>3. \A r \in T : ~(r < q)
    BY <1>1, <1>2 DEF OpToRel
  <1>4. \A r \in p..(q - 1) : KindAt(r) \in toks
    BY <1>1, <1>3
  <1>5. \E s \in p..Len(input) :
          /\ s = Len(input) \/ KindAt(s) \notin toks
          /\ \A r \in p..(s - 1) : KindAt(r) \in toks
    BY <1>4
  <1> QED  BY <1>5 DEF SkipKinds

LEMMA SkipKindsType ==
  ASSUME input \in Seq(SourceTokens), NEW p \in 0..Len(input), NEW toks
  PROVE  SkipKinds(p, toks) \in p..Len(input)
  BY SkipKindsFacts

LEMMA FileTokenType ==
  ASSUME input \in Seq(SourceTokens), NEW p \in 0..Len(input)
  PROVE  /\ Tokenizer_currentToken_stringifyAsFile(p) \in Token
         /\ Tokenizer_currentToken_stringifyAsFile(p).hi \in p..Len(input)
  <1> DEFINE t == Tokenizer_currentToken_stringifyAsFile(p)
  <1>1. {"STRING", "WHITESPACE", "TOPLEVELNEWLINE", "ERROR_EXPECTEDFILE"} \subseteq LeafKinds
    BY DEF LeafKinds, Tokens, PossibleBeginning, ParserErrors, Trivia, Newlines
  <1>2. CASE RawKind(p) \in {"NEWLINE", "WHITESPACE", "STRING"}
    <2>1. p + 1 \in Nat /\ p + 1 <= Len(input)
      BY <1>2, RawKindType
    <2>2. CASE RawKind(p) = "NEWLINE"
      <3>1. t = Leaf("TOPLEVELNEWLINE", p, p + 1)
        BY <2>2 DEF Tokenizer_currentToken_stringifyAsFile, FileNameTokens, Unders
      <3> QED  BY <1>1, <2>1, <3>1, LeafType
    <2>3. CASE RawKind(p) \in {"WHITESPACE", "STRING"}
      <3>1. t = Leaf(RawKind(p), p, p + 1)
        BY <2>3 DEF Tokenizer_currentToken_stringifyAsFile, FileNameTokens, Unders
      <3> QED  BY <1>1, <2>1, <2>3, <3>1, LeafType
    <2> QED  BY <1>2, <2>2, <2>3
  <1>3. CASE RawKind(p) \notin {"NEWLINE", "WHITESPACE", "STRING"}
             /\ RawKind(p) \in FileNameTokens
    <2>1. t = Leaf("STRING", p, SkipKinds(p, FileNameTokens))
      BY <1>3 DEF Tokenizer_currentToken_stringifyAsFile
    <2>2. SkipKinds(p, FileNameTokens) \in p..Len(input)
      BY SkipKindsType
    <2> QED  BY <1>1, <2>1, <2>2, LeafType
  <1>4. CASE RawKind(p) \notin {"NEWLINE", "WHITESPACE", "STRING"}
             /\ RawKind(p) \notin FileNameTokens
    <2>1. t = Leaf("ERROR_EXPECTEDFILE", p, p)
      BY <1>4 DEF Tokenizer_currentToken_stringifyAsFile
    <2> QED  BY <1>1, <2>1, LeafType
  <1> QED  BY <1>2, <1>3, <1>4

LEMMA TriviaType ==
  ASSUME input \in Seq(SourceTokens), NEW p \in Nat, NEW q \in Nat, p <= q
  PROVE  TriviaTokens(p, q) \in Seq(Token) /\ Len(TriviaTokens(p, q)) = q - p
  <1> DEFINE n == q - p
  <1>1. n \in Nat
    OBVIOUS
  <1>2. \A i \in 1..n : Tokenizer_currentToken(p + i - 1) \in Token
    BY CurrentTokenType
  <1> QED  BY <1>1, <1>2, IsASeq, LenProperties DEF TriviaTokens

LEMMA FileTriviaType ==
  ASSUME input \in Seq(SourceTokens), NEW p \in 0..Len(input),
         NEW q \in p..Len(input)
  PROVE  FileTriviaTokens(p, q) \in Seq(Token) /\ Len(FileTriviaTokens(p, q)) = q - p
  <1> DEFINE n == q - p
  <1>1. n \in Nat
    OBVIOUS
  <1>2. \A i \in 1..n : p + i - 1 \in 0..Len(input)
    OBVIOUS
  <1>3. \A i \in 1..n : Tokenizer_currentToken_stringifyAsFile(p + i - 1) \in Token
    BY <1>2, FileTokenType
  <1> QED  BY <1>1, <1>3, IsASeq, LenProperties DEF FileTriviaTokens

\* What was peeked at is given back: the read position is where it was.
LEMMA TriviaResetType ==
  ASSUME input \in Seq(SourceTokens), NEW p \in 0..Len(input),
         NEW q \in p..Len(input)
  PROVE  TriviaSeq_reset(q, TriviaTokens(p, q)) = p
  <1>1. TriviaTokens(p, q) \in Seq(Token) /\ Len(TriviaTokens(p, q)) = q - p
    BY TriviaType
  <1>2. CASE p = q
    <2>1. TriviaTokens(p, q) = <<>>
      BY <1>1, <1>2
    <2> QED  BY <1>2, <2>1 DEF TriviaSeq_reset
  <1>3. CASE p # q
    <2>1. TriviaTokens(p, q) # <<>> /\ 1 \in 1..(q - p) /\ p + 1 - 1 = p
      BY <1>1, <1>3
    <2>2. TriviaTokens(p, q)[1] = Tokenizer_currentToken(p)
      BY <2>1 DEF TriviaTokens
    <2> QED  BY <2>1, <2>2, CurrentTokenType DEF TriviaSeq_reset
  <1> QED  BY <1>2, <1>3

-----------------------------------------------------------------------------
(* Nodes                                                                   *)

LEMMA TokenIsNode ==
  ASSUME NEW t \in Token
  PROVE  t \in Node /\ t.op \in LeafKinds /\ t.lo \in Nat /\ t.hi \in Nat
  <1>1. <<>> \in Seq(Label)
    OBVIOUS
  <1> QED  BY <1>1 DEF Token, Node, NodeKinds

LEMMA TokensAreNodes == ASSUME NEW s \in Seq(Token) PROVE s \in Seq(Node)
  BY TokenIsNode, SeqMonotonic

LEMMA AbortNodeType == AbortNode \in Node
  BY DEF AbortNode, Node, NodeKinds, Ops

LEMMA EmptyType ==
  ASSUME NEW op \in LeafKinds, NEW t \in Token
  PROVE  Empty(op, t) \in Token /\ Empty(op, t).op = op
         /\ Empty(op, t).lo = t.lo /\ Empty(op, t).hi = t.lo
  BY TokenIsNode, LeafType DEF Empty

LEMMA ReplacedTokenType ==
  ASSUME NEW op \in LeafKinds, NEW t \in Token
  PROVE  [t EXCEPT !.op = op] \in Token
  BY DEF Token

LEMMA NodeFields ==
  ASSUME NEW N \in Node
  PROVE  /\ N.kind \in NodeKinds /\ N.op \in LeafKinds \union Ops
         /\ N.lo \in Nat /\ N.hi \in Nat
  BY DEF Node

LEMMA NewNodeType ==
  ASSUME NEW kind \in NodeKinds, NEW op \in LeafKinds \union Ops,
         NEW Args \in Seq(Node), Args # <<>>
  PROVE  NewNode(kind, op, Args) \in Node
  <1>1. 1 \in 1..Len(Args) /\ Len(Args) \in 1..Len(Args) /\ Len(Args) \in Nat
    OBVIOUS
  <1>2. Args[1].lo \in Nat /\ Args[Len(Args)].hi \in Nat
    BY <1>1, NodeFields
  <1>3. \A i \in 1..Len(Args) : LabelOf(Args[i]) \in Label
    BY NodeFields DEF LabelOf, Label
  <1>4. [i \in 1..Len(Args) |-> LabelOf(Args[i])] \in Seq(Label)
    BY <1>1, <1>3, IsASeq
  <1> QED  BY <1>2, <1>4 DEF NewNode, Node

\* The first n nodes.
LEMMA PrefixType ==
  ASSUME NEW S, NEW s \in Seq(S), NEW n \in 0..Len(s)
  PROVE  SubSeq(s, 1, n) \in Seq(S) /\ Len(SubSeq(s, 1, n)) = n
  <1>1. \A i \in 1..n : s[i] \in S
    OBVIOUS
  <1>2. /\ SubSeq(s, 1, n) \in Seq(S)
        /\ Len(SubSeq(s, 1, n)) = IF 1 <= n THEN n - 1 + 1 ELSE 0
    BY <1>1, SubSeqProperties
  <1> QED  BY <1>2

LEMMA SuffixType ==
  ASSUME NEW S, NEW s \in Seq(S), NEW n \in 1..Len(s)
  PROVE  SubSeq(s, n, Len(s)) \in Seq(S) /\ SubSeq(s, n, Len(s)) # <<>>
  <1>1. \A i \in n..Len(s) : s[i] \in S
    OBVIOUS
  <1>2. /\ SubSeq(s, n, Len(s)) \in Seq(S)
        /\ Len(SubSeq(s, n, Len(s))) = IF n <= Len(s) THEN Len(s) - n + 1 ELSE 0
    BY <1>1, SubSeqProperties
  <1>3. n <= Len(s) /\ Len(s) - n + 1 > 0
    OBVIOUS
  <1>4. Len(SubSeq(s, n, Len(s))) > 0
    BY <1>2, <1>3
  <1>5. \A u \in Seq(S) : Len(u) > 0 => u # <<>>
    OBVIOUS
  <1> QED  BY <1>2, <1>4, <1>5

-----------------------------------------------------------------------------
(* Precedences                                                             *)

LEMMA PrecedenceType ==
  /\ \A level \in DOMAIN PRECEDENCE : PRECEDENCE[level] \in Nat
  /\ PRECEDENCE.LOWEST = 0
  BY DEF PRECEDENCE

LEMMA RightBitType == ASSUME NEW p \in Nat PROVE RightBit(p) \in Nat /\ RightBit(p) > 0
  BY DEF RightBit

-----------------------------------------------------------------------------
(* Parselets, contexts and calls                                           *)

LEMMA ParseletFields ==
  ASSUME NEW P \in Parselet
  PROVE  /\ P.class \in PrefixClasses \union InfixClasses
         /\ P.prec \in Nat /\ P.op \in Ops /\ P.op2 \in Ops /\ P.closer \in AnyCloser
         /\ P.class \in {"Group", "Call"} => P.closer \in Closers
         /\ P.class = "InfixOperator" => P.op # "INTERNALINVALID"
         /\ P.class = "BinaryOperator" => P.op # "Unset"
  BY DEF Parselet, PrefixParselet, InfixParselet, ParseletOf

LEMMA ParseletIntro ==
  ASSUME NEW class \in PrefixClasses \union InfixClasses, NEW prec \in Nat,
         NEW op \in Ops, NEW op2 \in Ops, NEW closer \in AnyCloser,
         class \in {"Group", "Call"} => closer \in Closers,
         class = "InfixOperator" => op # "INTERNALINVALID",
         class = "BinaryOperator" => op # "Unset"
  PROVE  [class |-> class, prec |-> prec, op |-> op, op2 |-> op2, closer |-> closer]
           \in Parselet
  BY DEF Parselet, PrefixParselet, InfixParselet, ParseletOf

LEMMA NewType ==
  ASSUME NEW class \in PrefixClasses \union InfixClasses,
         class \notin {"Group", "Call", "InfixOperator"}
  PROVE  New(class) \in Parselet /\ New(class).class = class
  <1>1. "INTERNALINVALID" \in Ops /\ "CLOSER_ASSERTFALSE" \in AnyCloser
    BY DEF Ops, AnyCloser
  <1> QED  BY <1>1, ParseletIntro DEF New

LEMMA NoParseletType == NoParselet \in Parselet /\ NoParselet.class = "Leaf"
  BY NewType DEF NoParselet, PrefixClasses

LEMMA TableTypes ==
  ASSUME NEW tok \in LeafKinds
  PROVE  /\ prefixParselets[tok] \in Parselet
         /\ prefixParselets[tok].class \in PrefixClasses
         /\ infixParselets[tok] \in Parselet
         /\ infixParselets[tok].class \in InfixClasses
  BY TablesAssumption DEF Parselet, PrefixParselet, InfixParselet, ParseletOf

LEMMA ContextFields ==
  ASSUME NEW ctxt \in Context
  PROVE  /\ ctxt.F \in ContextFns /\ ctxt.P \in Parselet /\ ctxt.Index \in Nat
         /\ ctxt.Prec \in Nat /\ ctxt.P.class \in ClassesFor(ctxt.F)
  BY DEF Context

LEMMA ContextIntro ==
  ASSUME NEW F \in ContextFns, NEW P \in Parselet, NEW Index \in Nat,
         NEW Prec \in Nat, P.class \in ClassesFor(F)
  PROVE  [F |-> F, P |-> P, Index |-> Index, Prec |-> Prec] \in Context
  BY DEF Context

LEMMA CallFields ==
  ASSUME NEW c \in Call
  PROVE  /\ c.fn \in Fns /\ c.P \in Parselet /\ c.tok \in Token
         /\ c.P.class \in ClassesFor(c.fn)
  BY DEF Call

LEMMA CallIntro ==
  ASSUME NEW fn \in Fns, NEW P \in Parselet, NEW tok \in Token,
         P.class \in ClassesFor(fn)
  PROVE  [fn |-> fn, P |-> P, tok |-> tok] \in Call
  BY DEF Call

LEMMA NoTokenType == NoToken \in Token /\ NoToken.op = "ENDOFFILE"
  BY LeafType, LeafKindsFacts DEF NoToken

\* A jump with no token satisfies what is asked of calls.
LEMMA JumpWithoutToken ==
  ASSUME NEW fn \in Fns, NEW P \in Parselet, P.class \in ClassesFor(fn),
         fn \notin TakingFns, fn # "parsePrefix", Jump(fn, P, NoToken)
  PROVE  call' \in Call /\ call'.fn = fn /\ EndOfFileNotTaken'
  <1>1. call' = [fn |-> fn, P |-> P, tok |-> NoToken]
    BY DEF Jump
  <1>2. call' \in Call
    BY <1>1, NoTokenType, CallIntro
  <1>3. EndOfFileNotTaken'
    BY <1>1, NoTokenType DEF EndOfFileNotTaken, Inside, Calling
  <1> QED  BY <1>1, <1>2, <1>3

\* Functions that assert nothing of their parselet.
LEMMA AnyParselet ==
  ASSUME NEW fn \in {"Parser_parseClimb", "Parser_tryContinue", "return",
                     "concreteParse", "done"}
  PROVE  /\ fn \in Fns /\ fn \notin TakingFns /\ fn # "parsePrefix"
         /\ ClassesFor(fn) = PrefixClasses \union InfixClasses
         /\ fn \notin LoopFns /\ fn \notin RunningFns
         /\ fn \notin ContextSensitiveFns /\ fn # InnerReduce
  <1>1. fn \in Fns
    BY DEF Fns, ParserFns
  <1>2. fn \notin ContextSensitiveFns /\ fn \notin TakingFns /\ fn # InnerReduce
    BY DEF TakingFns, ContextSensitiveFns, InnerReduce
  <1>3. fn \notin LoopFns /\ fn \notin ReduceFns /\ fn \notin ParseFns
    BY DEF LoopFns, ReduceFns, ParseFns
  <1>4. ClassesFor(fn) = PrefixClasses \union InfixClasses
    BY DEF ClassesFor
  <1> QED  BY <1>1, <1>2, <1>3, <1>4 DEF RunningFns

LEMMA GotoNext ==
  ASSUME NEW fn \in {"Parser_parseClimb", "Parser_tryContinue", "return",
                     "concreteParse", "done"}, Goto(fn)
  PROVE  call' \in Call /\ call'.fn = fn /\ EndOfFileNotTaken'
  <1>1. NoParselet \in Parselet /\ NoParselet.class \in ClassesFor(fn)
    BY NoParseletType, AnyParselet DEF PrefixClasses
  <1> QED  BY <1>1, AnyParselet, JumpWithoutToken DEF Goto

\* The token at a position of the source is parsed with the parselet of the
\* prefix table.
LEMMA CallPrefix ==
  ASSUME TypeOK, input' = input, NEW q \in 0..Len(input),
         ParsePrefix(Tokenizer_currentToken(q))
  PROVE  call' \in Call /\ call'.fn = "parsePrefix" /\ EndOfFileNotTaken'
  <1> DEFINE t == Tokenizer_currentToken(q)
  <1>1. t \in Token /\ t.op \in LeafKinds /\ Inside(t)
    <2>1. input \in Seq(SourceTokens) /\ q \in Nat
      BY DEF TypeOK
    <2> QED  BY <2>1, CurrentTokenType, LeafKindsFacts
  <1>2. call' = [fn |-> "parsePrefix", P |-> prefixParselets[t.op], tok |-> t]
    BY DEF ParsePrefix, Jump
  <1>3. ClassesFor("parsePrefix") = PrefixClasses /\ "parsePrefix" \in Fns
    BY DEF ClassesFor, Fns, ParserFns
  <1>4. call' \in Call
    <2> HIDE DEF t
    <2> QED  BY <1>1, <1>2, <1>3, TableTypes, CallIntro
  <1>5. "parsePrefix" \notin TakingFns
    BY DEF TakingFns, ContextSensitiveFns
  <1>6. EndOfFileNotTaken'
    <2> HIDE DEF t
    <2> QED  BY <1>1, <1>2, <1>5, EndOfFileAssumption DEF EndOfFileNotTaken, Inside, Calling
  <1> QED  BY <1>2, <1>4, <1>6

\* A token of the source is parsed with a parselet of the caller's choice.
LEMMA CallPrefixWith ==
  ASSUME UNCHANGED input, NEW t \in Token, t.op # "ENDOFFILE", t.hi \in 0..Len(input),
         NEW P \in Parselet, P.class \in PrefixClasses, Jump("parsePrefix", P, t)
  PROVE  call' \in Call /\ call'.fn = "parsePrefix" /\ EndOfFileNotTaken'
  <1>1. call' = [fn |-> "parsePrefix", P |-> P, tok |-> t]
    BY DEF Jump
  <1>2. ClassesFor("parsePrefix") = PrefixClasses /\ "parsePrefix" \in Fns
    BY DEF ClassesFor, Fns, ParserFns
  <1>3. call' \in Call
    BY <1>1, <1>2, CallIntro
  <1>4. "parsePrefix" \notin TakingFns
    BY DEF TakingFns, ContextSensitiveFns
  <1>5. EndOfFileNotTaken'
    BY <1>1, <1>4 DEF EndOfFileNotTaken, Inside, Calling
  <1> QED  BY <1>1, <1>3, <1>5

\* An operator of the source is called.
LEMMA CallInfix ==
  ASSUME UNCHANGED input, NEW t \in Token, t.op # "ENDOFFILE", t.hi \in 0..Len(input),
         NEW I \in Parselet, I.class \in InfixClasses, Jump("parseInfix", I, t)
  PROVE  call' \in Call /\ call'.fn = "parseInfix" /\ EndOfFileNotTaken'
  <1>1. call' = [fn |-> "parseInfix", P |-> I, tok |-> t]
    BY DEF Jump
  <1>2. ClassesFor("parseInfix") = InfixClasses /\ "parseInfix" \in Fns
    BY DEF ClassesFor, Fns, ParserFns
  <1>3. call' \in Call
    BY <1>1, <1>2, CallIntro
  <1>4. EndOfFileNotTaken'
    BY <1>1 DEF EndOfFileNotTaken, Inside, Calling
  <1> QED  BY <1>1, <1>3, <1>4

LEMMA ToplevelCloserType ==
  /\ prefixToplevelCloserParselet \in Parselet
  /\ prefixToplevelCloserParselet.class \in PrefixClasses
  BY NewType DEF prefixToplevelCloserParselet, PrefixClasses

-----------------------------------------------------------------------------
(* Which case of the discipline a function is in                           *)

LEMMA RunningFnsFacts ==
  /\ LoopFns \subseteq RunningFns
  /\ ReduceFns \ {InnerReduce} \subseteq RunningFns
  /\ ParseFns \ ContextSensitiveFns \subseteq RunningFns
  /\ "parseInfix" \in RunningFns
  BY DEF RunningFns

LEMMA RunningFnsExclude ==
  ASSUME NEW fn \in RunningFns
  PROVE  /\ fn \notin {"parsePrefix", "Parser_parseClimb", "Parser_tryContinue",
                       "return", "concreteParse", "done", InnerReduce}
         /\ fn \notin ContextSensitiveFns /\ fn \in Fns
  <1>1. CASE fn = "parseInfix"
    BY <1>1 DEF ContextSensitiveFns, InnerReduce, Fns, ParserFns
  <1>2. CASE fn \in LoopFns
    BY <1>2 DEF LoopFns, ContextSensitiveFns, InnerReduce, Fns
  <1>3. CASE fn \in ReduceFns \ {InnerReduce}
    BY <1>3 DEF ReduceFns, ContextSensitiveFns, InnerReduce, Fns
  <1>4. CASE fn \in ParseFns \ ContextSensitiveFns
    BY <1>4 DEF ParseFns, ContextSensitiveFns, InnerReduce, Fns
  <1> QED  BY <1>1, <1>2, <1>3, <1>4 DEF RunningFns

LEMMA DisciplineCases ==
  ASSUME NEW n, NEW C, NEW frs, NEW fn
  PROVE  /\ fn = "parsePrefix" /\ Expecting(n, C, frs) => Discipline(n, C, frs, fn)
         /\ fn \in {"Parser_parseClimb", "Parser_tryContinue"} /\ Complete(n, C, frs)
              => Discipline(n, C, frs, fn)
         /\ fn \in RunningFns /\ Running(n, C, frs) => Discipline(n, C, frs, fn)
         /\ fn = "return" /\ Returning(n, C, frs) => Discipline(n, C, frs, fn)
         /\ fn = InnerReduce /\ ReducingInner(n, C, frs) => Discipline(n, C, frs, fn)
         /\ fn \in ContextSensitiveFns /\ ReadingPattern(n, C, frs)
              /\ Top(frs).fn # InnerReduce => Discipline(n, C, frs, fn)
         /\ fn \in ContextSensitiveFns \ {"UnderParselet_parseInfixContextSensitive"}
              /\ ReadingPattern(n, C, frs) => Discipline(n, C, frs, fn)
  <1>1. ASSUME fn = "parsePrefix", Expecting(n, C, frs)
        PROVE  Discipline(n, C, frs, fn)
    BY <1>1, RunningFnsExclude DEF Discipline, ContextSensitiveFns, InnerReduce
  <1>2. ASSUME fn \in {"Parser_parseClimb", "Parser_tryContinue"}, Complete(n, C, frs)
        PROVE  Discipline(n, C, frs, fn)
    BY <1>2, RunningFnsExclude DEF Discipline, ContextSensitiveFns, InnerReduce
  <1>3. ASSUME fn \in RunningFns, Running(n, C, frs)
        PROVE  Discipline(n, C, frs, fn)
    BY <1>3, RunningFnsExclude DEF Discipline, ContextSensitiveFns
  <1>4. ASSUME fn = "return", Returning(n, C, frs)
        PROVE  Discipline(n, C, frs, fn)
    BY <1>4, RunningFnsExclude DEF Discipline, ContextSensitiveFns, InnerReduce
  <1>5. ASSUME fn = InnerReduce, ReducingInner(n, C, frs)
        PROVE  Discipline(n, C, frs, fn)
    BY <1>5, RunningFnsExclude DEF Discipline, ContextSensitiveFns, InnerReduce
  <1>6. ASSUME fn \in ContextSensitiveFns, ReadingPattern(n, C, frs),
               Top(frs).fn # InnerReduce \/ fn # "UnderParselet_parseInfixContextSensitive"
        PROVE  Discipline(n, C, frs, fn)
    BY <1>6, RunningFnsExclude DEF Discipline, ContextSensitiveFns, InnerReduce
  <1> QED  BY <1>1, <1>2, <1>3, <1>4, <1>5, <1>6

-----------------------------------------------------------------------------
(* The stacks                                                              *)

LEMMA BuildContextsAreContexts ==
  ASSUME NEW C \in Seq(BuildContext)
  PROVE  C \in Seq(Context)
  <1>1. BuildContext \subseteq Context
    BY DEF BuildContext
  <1> QED  BY <1>1, SeqMonotonic

\* The types of the stacks, and the context that a running function is in.
LEMMA StackTypes ==
  ASSUME Inv
  PROVE  /\ input \in Seq(SourceTokens) /\ Len(input) \in Nat
         /\ buffer \in 0..Len(input)
         /\ NodeStack \in Seq(Node) /\ Len(NodeStack) \in Nat
         /\ ContextStack \in Seq(BuildContext) /\ ContextStack \in Seq(Context)
         /\ GroupStack \in Seq(AnyCloser) /\ frames \in Seq(Frame)
         /\ call \in Call
         /\ Discipline(Len(NodeStack), ContextStack, frames, call.fn)
  BY DEF Inv, TypeOK, LoopsInPlace, StackDiscipline

LEMMA TopType ==
  ASSUME Inv, ContextStack # <<>>
  PROVE  /\ Parser_topContext \in BuildContext /\ Parser_topContext \in Context
         /\ Pop(ContextStack) \in Seq(BuildContext)
         /\ Parser_topContext = Top(ContextStack)
  <1>1. Top(ContextStack) \in BuildContext /\ Pop(ContextStack) \in Seq(BuildContext)
    BY StackTypes, PopFacts
  <1> QED  BY <1>1 DEF Parser_topContext, BuildContext

LEMMA TopContextType ==
  ASSUME Inv, ContextStack # <<>>, NEW ctxt \in BuildContext
  PROVE  /\ TopContext(ctxt) \in Seq(BuildContext)
         /\ Top(TopContext(ctxt)) = ctxt
         /\ TopContext(ctxt) = [ContextStack EXCEPT ![Len(ContextStack)] = ctxt]
  <1>1. Len(ContextStack) \in Nat \ {0} /\ Len(TopContext(ctxt)) = Len(ContextStack)
    BY StackTypes DEF TopContext
  <1>2. TopContext(ctxt) \in Seq(BuildContext)
    BY StackTypes, <1>1 DEF TopContext
  <1>3. TopContext(ctxt)[Len(ContextStack)] = ctxt
    BY StackTypes, <1>1 DEF TopContext
  <1> QED  BY <1>1, <1>2, <1>3 DEF Top, TopContext

LEMMA UnchangedTop ==
  ASSUME Inv, ContextStack # <<>>, UNCHANGED ContextStack
  PROVE  ContextStack' = TopContext(Parser_topContext)
  BY StackTypes, SameTop DEF TopContext, Parser_topContext

\* A function that runs in the top context.
LEMMA RunningType ==
  ASSUME Inv, call.fn \in RunningFns
  PROVE  /\ Running(Len(NodeStack), ContextStack, frames)
         /\ ContextStack # <<>>
         /\ Parser_topContext \in BuildContext /\ Parser_topContext \in Context
         /\ Parser_topContext.Index \in Nat
         /\ Parser_topContext.Index < Len(NodeStack)
  <1>1. Running(Len(NodeStack), ContextStack, frames) /\ ContextStack # <<>>
    BY StackTypes DEF Discipline, Running
  <1>2. Parser_topContext = Top(ContextStack)
    BY DEF Parser_topContext
  <1> QED  BY <1>1, <1>2, TopType, StackTypes, NestedBelow DEF Running

\* The parts of the invariant, for the next state.
LEMMA Assemble ==
  ASSUME Inv, UNCHANGED <<input, exprs, aborted>>, buffer' \in 0..Len(input),
         NodeStack' \in Seq(Node), ContextStack' \in Seq(BuildContext),
         GroupStack' \in Seq(AnyCloser), call' \in Call, frames' \in Seq(Frame),
         Discipline(Len(NodeStack'), ContextStack', frames', call'.fn),
         EndOfFileNotTaken',
         call'.fn \in LoopFns => Top(ContextStack').F = LoopF(call'.fn)
  PROVE  Inv'
  <1>1. TypeOK'
    BY BuildContextsAreContexts DEF Inv, TypeOK
  <1>2. StackDiscipline'
    BY DEF StackDiscipline
  <1>3. LoopsInPlace'
    BY DEF LoopsInPlace, Parser_topContext
  <1> QED  BY <1>1, <1>2, <1>3 DEF Inv

-----------------------------------------------------------------------------
(* Functions that run in the top context                                   *)

\* The function takes nodes, may change its context, and calls another one
\* that runs in it.
LEMMA StayStep ==
  ASSUME Inv, call.fn \in RunningFns, NEW ctxt \in BuildContext,
         ctxt.Index = Parser_topContext.Index, ContextStack' = TopContext(ctxt),
         NodeStack' \in Seq(Node), Len(NodeStack) <= Len(NodeStack'),
         buffer' \in 0..Len(input), call' \in Call, call'.fn \in RunningFns,
         EndOfFileNotTaken', call'.fn \in LoopFns => ctxt.F = LoopF(call'.fn),
         UNCHANGED <<input, GroupStack, frames, exprs, aborted>>
  PROVE  Inv'
  <1> DEFINE n == Len(NodeStack)
             m == Len(NodeStack')
  <1>1. n \in Nat /\ m \in Nat /\ ContextStack # <<>> /\ ctxt \in Context
    BY StackTypes, RunningType DEF BuildContext
  <1>2. ContextStack' \in Seq(BuildContext) /\ Top(ContextStack') = ctxt
    BY <1>1, TopContextType
  <1>3. ContextStack' = [ContextStack EXCEPT ![Len(ContextStack)] = ctxt]
    BY <1>1, TopContextType
  <1>4. Running(n, ContextStack, frames) /\ ctxt.Index = Top(ContextStack).Index
    BY RunningType DEF Parser_topContext
  <1>5. Running(m, ContextStack', frames')
    <2> HIDE DEF n, m
    <2>1. n <= m
      BY DEF n, m
    <2>2. ContextStack \in Seq(Context) /\ frames \in Seq(Frame) /\ frames' = frames
      BY StackTypes
    <2>3. Running(m, [ContextStack EXCEPT ![Len(ContextStack)] = ctxt], frames)
      BY <1>1, <1>4, <2>1, <2>2, Stay
    <2> QED  BY <1>3, <2>2, <2>3
  <1>6. Discipline(m, ContextStack', frames', call'.fn)
    BY <1>5, DisciplineCases
  <1> QED  BY <1>2, <1>6, StackTypes, Assemble

\* The same when the context is left alone.
LEMMA StayInContext ==
  ASSUME Inv, call.fn \in RunningFns, NodeStack' \in Seq(Node),
         Len(NodeStack) <= Len(NodeStack'), buffer' \in 0..Len(input),
         call' \in Call, call'.fn \in RunningFns, EndOfFileNotTaken',
         call'.fn \in LoopFns => call'.fn = call.fn,
         UNCHANGED <<input, ContextStack, GroupStack, frames, exprs, aborted>>
  PROVE  Inv'
  <1>1. ContextStack # <<>> /\ Parser_topContext \in BuildContext
    BY RunningType
  <1>2. ContextStack' = TopContext(Parser_topContext)
    BY <1>1, UnchangedTop
  <1>3. call'.fn \in LoopFns => Parser_topContext.F = LoopF(call'.fn)
    BY DEF Inv, LoopsInPlace
  <1> QED  BY <1>1, <1>2, <1>3, StayStep

\* The function sets what will run after the operand, and parses that.
LEMMA OperandStep ==
  ASSUME Inv, call.fn \in RunningFns, NEW ctxt \in BuildContext,
         ctxt.Index = Parser_topContext.Index, ContextStack' = TopContext(ctxt),
         ctxt.F \notin {"NULL", "Parser_identity"},
         NodeStack' \in Seq(Node), Len(NodeStack) <= Len(NodeStack'),
         buffer' \in 0..Len(input), call' \in Call, call'.fn = "parsePrefix",
         EndOfFileNotTaken', UNCHANGED <<input, GroupStack, frames, exprs, aborted>>
  PROVE  Inv'
  <1> DEFINE n == Len(NodeStack)
             m == Len(NodeStack')
  <1>1. n \in Nat /\ m \in Nat /\ ContextStack # <<>> /\ ctxt \in Context
    BY StackTypes, RunningType DEF BuildContext
  <1>2. ContextStack' \in Seq(BuildContext)
        /\ ContextStack' = [ContextStack EXCEPT ![Len(ContextStack)] = ctxt]
    BY <1>1, TopContextType
  <1>4. Running(n, ContextStack, frames) /\ ctxt.Index = Top(ContextStack).Index
    BY RunningType DEF Parser_topContext
  <1>5. Expecting(m, ContextStack', frames')
    <2> HIDE DEF n, m
    <2>1. n <= m
      BY DEF n, m
    <2>2. ContextStack \in Seq(Context) /\ frames \in Seq(Frame) /\ frames' = frames
      BY StackTypes
    <2>3. Expecting(m, [ContextStack EXCEPT ![Len(ContextStack)] = ctxt], frames)
      BY <1>1, <1>4, <2>1, <2>2, Continue
    <2> QED  BY <1>2, <2>2, <2>3
  <1>6. Discipline(m, ContextStack', frames', call'.fn)
    BY <1>5, DisciplineCases
  <1>7. call'.fn \notin LoopFns
    BY DEF LoopFns
  <1> QED  BY <1>2, <1>6, <1>7, StackTypes, Assemble

\* A loop does so with itself, or waits for a native call to return.
LEMMA LoopOperandStep ==
  ASSUME Inv, call.fn \in RunningFns, NEW ctxt \in BuildContext,
         ctxt.Index = Parser_topContext.Index, ContextStack' = TopContext(ctxt),
         NEW loop \in LoopFns, NEW P \in Parselet, P.class \in ClassesFor(loop),
         ctxt.F = LoopF(loop), LoopCall(loop, P),
         NodeStack' \in Seq(Node), Len(NodeStack) <= Len(NodeStack'),
         buffer' \in 0..Len(input), call' \in Call, call'.fn = "parsePrefix",
         EndOfFileNotTaken', UNCHANGED <<input, GroupStack, exprs, aborted>>
  PROVE  Inv'
  <1>1. CASE USE_MUSTTAIL
    <2>1. ctxt.F \notin {"NULL", "Parser_identity"}
      BY <1>1 DEF LoopF, LoopFns
    <2>2. UNCHANGED frames
      BY <1>1 DEF LoopCall
    <2> QED  BY <2>1, <2>2, OperandStep
  <1>2. CASE ~USE_MUSTTAIL
    <2> DEFINE n == Len(NodeStack)
               m == Len(NodeStack')
               frame == [fn |-> loop, P |-> P]
    <2>1. n \in Nat /\ m \in Nat /\ ContextStack # <<>> /\ ctxt \in Context
      BY StackTypes, RunningType DEF BuildContext
    <2>2. ContextStack' \in Seq(BuildContext)
          /\ ContextStack' = [ContextStack EXCEPT ![Len(ContextStack)] = ctxt]
      BY <2>1, TopContextType
    <2>3. Running(n, ContextStack, frames) /\ ctxt.Index = Top(ContextStack).Index
      BY RunningType DEF Parser_topContext
    <2>4. frame \in Frame /\ IsLoop(frame)
      BY DEF Frame, Fns, IsLoop
    <2>5. frames' = Append(frames, frame)
      BY <1>2 DEF LoopCall, NativeCall
    <2>6. frames' \in Seq(Frame)
      BY <2>4, <2>5, StackTypes, PushFacts
    <2>7. ctxt.F = "Parser_identity"
      BY <1>2 DEF LoopF
    <2>8. Expecting(m, ContextStack', frames')
      <3> HIDE DEF n, m, frame
      <3>1. n <= m
        BY DEF n, m
      <3>2. ContextStack \in Seq(Context) /\ frames \in Seq(Frame)
        BY StackTypes
      <3>3. Expecting(m, [ContextStack EXCEPT ![Len(ContextStack)] = ctxt],
                      Append(frames, frame))
        BY <2>1, <2>3, <2>4, <2>7, <3>1, <3>2, ContinueNatively
      <3> QED  BY <2>2, <2>5, <3>3
    <2>9. Discipline(m, ContextStack', frames', call'.fn)
      BY <2>8, DisciplineCases
    <2>10. call'.fn \notin LoopFns
      BY DEF LoopFns
    <2> QED  BY <2>2, <2>6, <2>9, <2>10, StackTypes, Assemble
  <1> QED  BY <1>1, <1>2

\* The function pops its context and leaves one node for all of its nodes.
LEMMA PopStep ==
  ASSUME Inv, call.fn \in RunningFns, NodeStack' \in Seq(Node),
         Len(NodeStack') = Parser_topContext.Index + 1,
         ContextStack' = Pop(ContextStack),
         NEW next \in {"Parser_parseClimb", "Parser_tryContinue"}, Goto(next),
         GroupStack' \in Seq(AnyCloser),
         UNCHANGED <<input, buffer, frames, exprs, aborted>>
  PROVE  Inv'
  <1>1. Complete(Len(NodeStack'), ContextStack', frames')
    BY RunningType, StackTypes, ReduceTop DEF Parser_topContext
  <1>2. ContextStack' \in Seq(BuildContext)
    BY RunningType, TopType
  <1>3. call' \in Call /\ call'.fn = next /\ EndOfFileNotTaken'
    BY GotoNext
  <1>4. next \notin LoopFns
    BY DEF LoopFns
  <1>5. Discipline(Len(NodeStack'), ContextStack', frames', call'.fn)
    BY <1>1, <1>3, DisciplineCases
  <1> QED  BY <1>2, <1>3, <1>4, <1>5, StackTypes, Assemble

\* What is popped, and the node made of it.
LEMMA PoppedNodes ==
  ASSUME Inv, NEW nodes \in Seq(Node), NEW N \in Node,
         Parser_topContext.Index \in 0..Len(nodes)
  PROVE  /\ Append(NodesBelow(nodes), N) \in Seq(Node)
         /\ Len(Append(NodesBelow(nodes), N)) = Parser_topContext.Index + 1
  <1>1. NodesBelow(nodes) \in Seq(Node)
        /\ Len(NodesBelow(nodes)) = Parser_topContext.Index
    BY PrefixType DEF NodesBelow
  <1> QED  BY <1>1

LEMMA ReducedNode ==
  ASSUME Inv, NEW kind \in NodeKinds, NEW op \in Ops,
         Parser_topContext.Index \in Nat, Parser_topContext.Index < Len(NodeStack)
  PROVE  NewNode(kind, op, ArgsOf(NodeStack)) \in Node
  <1>1. Parser_topContext.Index + 1 \in 1..Len(NodeStack)
    BY StackTypes
  <1>2. ArgsOf(NodeStack) \in Seq(Node) /\ ArgsOf(NodeStack) # <<>>
    BY <1>1, StackTypes, SuffixType DEF ArgsOf
  <1> QED  BY <1>2, NewNodeType

LEMMA ReduceStep ==
  ASSUME Inv, NEW fn \in ReduceFns \ {InnerReduce}, NEW kind \in NodeKinds,
         NEW op \in Ops, NEW next \in {"Parser_parseClimb", "Parser_tryContinue"},
         ReduceContext(fn, kind, op, next), GroupStack' \in Seq(AnyCloser)
  PROVE  Inv'
  <1> DEFINE N == NewNode(kind, op, ArgsOf(NodeStack))
  <1>1. call.fn \in RunningFns
    BY RunningFnsFacts DEF ReduceContext, Calling
  <1>2. N \in Node
    BY <1>1, RunningType, ReducedNode
  <1>3. Parser_topContext.Index \in 0..Len(NodeStack)
    BY <1>1, RunningType, StackTypes
  <1>4. NodeStack' \in Seq(Node) /\ Len(NodeStack') = Parser_topContext.Index + 1
    <2>1. NodeStack' = Append(NodesBelow(NodeStack), N)
      BY DEF ReduceContext
    <2> HIDE DEF N
    <2> QED  BY <1>2, <1>3, <2>1, StackTypes, PoppedNodes
  <1> QED  BY <1>1, <1>4, PopStep DEF ReduceContext

LEMMA PoppedGroup == ASSUME Inv PROVE Pop(GroupStack) \in Seq(AnyCloser)
  <1>1. CASE GroupStack = <<>>
    <2>1. Len(GroupStack) = 0 /\ <<>> \in Seq(AnyCloser)
      BY <1>1
    <2>2. Pop(GroupStack) = <<>>
      BY <1>1, <2>1 DEF Pop
    <2> QED  BY <2>1, <2>2
  <1>2. CASE GroupStack # <<>>
    BY <1>2, StackTypes, PopFacts
  <1> QED  BY <1>1, <1>2

\* An abort, before an operand has been parsed or after.
LEMMA AbortStep ==
  ASSUME Inv, call.fn \in RunningFns, GroupStack' \in Seq(AnyCloser),
         NEW nodes \in {NodeStack, Pop(NodeStack)},
         NodeStack' = Append(NodesBelow(nodes), AbortNode),
         ContextStack' = Pop(ContextStack), Goto("Parser_tryContinue"),
         UNCHANGED <<input, buffer, frames, exprs, aborted>>
  PROVE  Inv'
  <1>1. NodeStack # <<>> /\ Parser_topContext.Index \in Nat
        /\ Parser_topContext.Index <= Len(NodeStack) - 1
    BY RunningType, StackTypes
  <1>2. nodes \in Seq(Node) /\ Parser_topContext.Index \in 0..Len(nodes)
    <2>1. Pop(NodeStack) \in Seq(Node) /\ Len(Pop(NodeStack)) = Len(NodeStack) - 1
      BY <1>1, StackTypes, PopFacts
    <2> QED  BY <1>1, <2>1, StackTypes
  <1>3. NodeStack' \in Seq(Node) /\ Len(NodeStack') = Parser_topContext.Index + 1
    BY <1>2, AbortNodeType, PoppedNodes
  <1> QED  BY <1>3, PopStep

-----------------------------------------------------------------------------
(* Functions that parse an operand                                         *)

LEMMA ExpectingType ==
  ASSUME Inv, Calling("parsePrefix")
  PROVE  /\ Expecting(Len(NodeStack), ContextStack, frames)
         /\ call.tok \in Token /\ call.tok.op \in LeafKinds
         /\ call.tok.lo \in Nat /\ call.tok.hi \in Nat
         /\ call.P \in Parselet /\ call.P.class \in PrefixClasses
  <1>1. Expecting(Len(NodeStack), ContextStack, frames)
    BY StackTypes DEF Discipline, Calling
  <1>2. call.tok \in Token /\ call.P \in Parselet /\ call.P.class \in PrefixClasses
    BY StackTypes, CallFields DEF Calling, ClassesFor
  <1> QED  BY <1>1, <1>2, TokenIsNode

\* A token other than the end of the file has its characters in the source.
LEMMA PrefixTokenInside ==
  ASSUME Inv, Calling("parsePrefix"), call.P.class # "PrefixEndOfFile"
  PROVE  call.tok.op # "ENDOFFILE" /\ call.tok.hi \in 0..Len(input)
  <1>1. call.tok.op # "ENDOFFILE" /\ call.tok.hi <= Len(input)
    BY DEF Inv, EndOfFileNotTaken, Inside
  <1> QED  BY <1>1, ExpectingType, StackTypes

\* The operand is one node.
LEMMA LeafStep ==
  ASSUME Inv, Calling("parsePrefix"), NEW N \in Node,
         NodeStack' = Append(NodeStack, N), buffer' \in 0..Len(input),
         NEW next \in {"Parser_parseClimb", "Parser_tryContinue"}, Goto(next),
         UNCHANGED <<input, ContextStack, GroupStack, frames, exprs, aborted>>
  PROVE  Inv'
  <1>1. NodeStack' \in Seq(Node) /\ Len(NodeStack') = Len(NodeStack) + 1
    BY StackTypes
  <1>2. Complete(Len(NodeStack) + 1, ContextStack, frames)
    BY ExpectingType, StackTypes, Operand
  <1>3. call' \in Call /\ call'.fn = next /\ EndOfFileNotTaken'
    BY GotoNext
  <1>4. next \notin LoopFns
    BY DEF LoopFns
  <1>5. Discipline(Len(NodeStack'), ContextStack', frames', call'.fn)
    BY <1>1, <1>2, <1>3, DisciplineCases
  <1> QED  BY <1>1, <1>3, <1>4, <1>5, StackTypes, Assemble

LEMMA PushedContext ==
  ASSUME Inv, NEW ctxt \in BuildContext
  PROVE  /\ Append(ContextStack, ctxt) \in Seq(BuildContext)
         /\ Top(Append(ContextStack, ctxt)) = ctxt
         /\ ctxt \in Context
  BY StackTypes, PushFacts, PopPush DEF BuildContext

\* A context that starts at the operand, and a function that runs in it.
LEMMA EnterStep ==
  ASSUME Inv, Calling("parsePrefix"), NEW ctxt \in BuildContext,
         ctxt.Index = Len(NodeStack), ContextStack' = Append(ContextStack, ctxt),
         NodeStack' \in Seq(Node), Len(NodeStack) + 1 <= Len(NodeStack'),
         buffer' \in 0..Len(input), GroupStack' \in Seq(AnyCloser),
         call' \in Call, call'.fn \in RunningFns, EndOfFileNotTaken',
         call'.fn \in LoopFns => ctxt.F = LoopF(call'.fn),
         UNCHANGED <<input, frames, exprs, aborted>>
  PROVE  Inv'
  <1> DEFINE n == Len(NodeStack)
             m == Len(NodeStack')
  <1>1. n \in Nat /\ m \in Nat /\ n + 1 <= m /\ ctxt \in Context /\ ctxt.Index = n
    BY StackTypes, PushedContext
  <1>2. /\ Expecting(n, ContextStack, frames) /\ ContextStack \in Seq(Context)
        /\ frames \in Seq(Frame)
    BY ExpectingType, StackTypes
  <1>3. Running(m, Append(ContextStack, ctxt), frames)
    <2> HIDE DEF n, m
    <2> QED  BY <1>1, <1>2, EnterForOperand
  <1>4. Discipline(m, ContextStack', frames', call'.fn)
    BY <1>3, DisciplineCases
  <1> QED  BY <1>4, PushedContext, StackTypes, Assemble

\* The same for the prefix operators, whose own operand is parsed next.
LEMMA EnterOperandStep ==
  ASSUME Inv, Calling("parsePrefix"), NEW ctxt \in BuildContext,
         ctxt.Index = Len(NodeStack), ContextStack' = Append(ContextStack, ctxt),
         ctxt.F \notin {"NULL", "Parser_identity"},
         NodeStack' \in Seq(Node), Len(NodeStack) + 1 <= Len(NodeStack'),
         buffer' \in 0..Len(input), call' \in Call, call'.fn = "parsePrefix",
         EndOfFileNotTaken', UNCHANGED <<input, GroupStack, frames, exprs, aborted>>
  PROVE  Inv'
  <1> DEFINE n == Len(NodeStack)
             m == Len(NodeStack')
  <1>1. n \in Nat /\ m \in Nat /\ n + 1 <= m /\ ctxt \in Context /\ ctxt.Index = n
    BY StackTypes, PushedContext
  <1>2. /\ Expecting(n, ContextStack, frames) /\ ContextStack \in Seq(Context)
        /\ frames \in Seq(Frame)
    BY ExpectingType, StackTypes
  <1>3. Expecting(m, Append(ContextStack, ctxt), frames)
    <2> HIDE DEF n, m
    <2> QED  BY <1>1, <1>2, EnterAndContinue
  <1>4. Discipline(m, ContextStack', frames', call'.fn)
    BY <1>3, DisciplineCases
  <1>5. call'.fn \notin LoopFns
    BY DEF LoopFns
  <1> QED  BY <1>4, <1>5, PushedContext, StackTypes, Assemble

\* An operator is found after a complete operand.
LEMMA EnterInfixStep ==
  ASSUME Inv, Calling("Parser_parseClimb"), NEW ctxt \in BuildContext,
         ctxt.Index = Len(NodeStack) - 1,
         ContextStack' = Append(ContextStack, ctxt),
         NodeStack' \in Seq(Node), Len(NodeStack) <= Len(NodeStack'),
         buffer' \in 0..Len(input), call' \in Call, call'.fn = "parseInfix",
         EndOfFileNotTaken', UNCHANGED <<input, GroupStack, frames, exprs, aborted>>
  PROVE  Inv'
  <1> DEFINE n == Len(NodeStack)
             m == Len(NodeStack')
  <1>1. n \in Nat /\ m \in Nat /\ n <= m /\ ctxt \in Context /\ ctxt.Index = n - 1
    BY StackTypes, PushedContext
  <1>2. /\ Complete(n, ContextStack, frames) /\ ContextStack \in Seq(Context)
        /\ frames \in Seq(Frame)
    BY StackTypes DEF Discipline, Calling
  <1>3. Running(m, Append(ContextStack, ctxt), frames)
    <2> HIDE DEF n, m
    <2> QED  BY <1>1, <1>2, EnterAtOperand
  <1>4. Discipline(m, ContextStack', frames', call'.fn)
    BY <1>3, DisciplineCases, RunningFnsFacts
  <1>5. call'.fn \notin LoopFns
    BY DEF LoopFns
  <1> QED  BY <1>4, <1>5, PushedContext, StackTypes, Assemble

-----------------------------------------------------------------------------
(* Patterns                                                                *)

LEMMA PushedFrame ==
  ASSUME Inv, NEW frame \in Frame
  PROVE  Append(frames, frame) \in Seq(Frame)
  BY StackTypes, PushFacts

\* A symbol or a blank calls the function for the token after it.
LEMMA BeginPatternStep ==
  ASSUME Inv, Calling("parsePrefix"), NEW ctxt \in BuildContext,
         ctxt.Index = Len(NodeStack), ctxt.F = "NULL",
         ContextStack' = Append(ContextStack, ctxt),
         NEW frame \in Frame, frame.fn \in PatternReduces,
         frames' = Append(frames, frame),
         NEW N \in Node, NodeStack' = Append(NodeStack, N),
         buffer' \in 0..Len(input), call' \in Call,
         call'.fn \in ContextSensitiveFns, EndOfFileNotTaken',
         UNCHANGED <<input, GroupStack, exprs, aborted>>
  PROVE  Inv'
  <1> DEFINE n == Len(NodeStack)
  <1>1. /\ n \in Nat /\ ctxt \in Context /\ ctxt.Index = n
        /\ NodeStack' \in Seq(Node) /\ Len(NodeStack') = n + 1
    BY StackTypes, PushedContext
  <1>2. /\ Expecting(n, ContextStack, frames) /\ ContextStack \in Seq(Context)
        /\ frames \in Seq(Frame)
    BY ExpectingType, StackTypes
  <1>3. /\ ReadingPattern(n + 1, Append(ContextStack, ctxt), Append(frames, frame))
        /\ Top(Append(frames, frame)).fn # InnerReduce
    <2> HIDE DEF n
    <2> QED  BY <1>1, <1>2, BeginPattern
  <1>4. Discipline(Len(NodeStack'), ContextStack', frames', call'.fn)
    <2> HIDE DEF n
    <2> QED  BY <1>1, <1>3, DisciplineCases
  <1>5. call'.fn \notin LoopFns
    BY DEF LoopFns, ContextSensitiveFns
  <1> QED  BY <1>1, <1>4, <1>5, PushedContext, PushedFrame, StackTypes, Assemble

LEMMA ReadingType ==
  ASSUME Inv, call.fn \in ContextSensitiveFns
  PROVE  /\ ReadingPattern(Len(NodeStack), ContextStack, frames)
         /\ call.tok \in Token /\ call.tok.op # "ENDOFFILE"
         /\ call.tok.hi \in 0..Len(input)
  <1>1. ReadingPattern(Len(NodeStack), ContextStack, frames)
    BY StackTypes DEF Discipline
  <1>2. call.tok \in Token
    BY StackTypes, CallFields
  <1>3. call.tok.op # "ENDOFFILE" /\ call.tok.hi <= Len(input)
    BY DEF Inv, EndOfFileNotTaken, Inside, TakingFns
  <1> QED  BY <1>1, <1>2, <1>3, TokenIsNode, StackTypes

\* A blank after a symbol calls the function for its head.
LEMMA ContinuePatternStep ==
  ASSUME Inv, Calling("UnderParselet_parseInfixContextSensitive"),
         NEW ctxt \in BuildContext, ctxt.Index = Len(NodeStack), ctxt.F = "NULL",
         ContextStack' = Append(ContextStack, ctxt),
         NEW frame \in Frame, frame.fn = InnerReduce,
         frames' = Append(frames, frame),
         NEW N \in Node, NodeStack' = Append(NodeStack, N),
         buffer' \in 0..Len(input), call' \in Call,
         call'.fn = "SymbolParselet_parseInfixContextSensitive",
         EndOfFileNotTaken', UNCHANGED <<input, GroupStack, exprs, aborted>>
  PROVE  Inv'
  <1> DEFINE n == Len(NodeStack)
  <1>1. /\ n \in Nat /\ ctxt \in Context /\ ctxt.Index = n
        /\ NodeStack' \in Seq(Node) /\ Len(NodeStack') = n + 1
    BY StackTypes, PushedContext
  <1>2. /\ ReadingPattern(n, ContextStack, frames) /\ ContextStack \in Seq(Context)
        /\ frames \in Seq(Frame) /\ Top(frames).fn # InnerReduce
    BY StackTypes DEF Calling, ContextSensitiveFns, Discipline
  <1>3. ReadingPattern(n + 1, Append(ContextStack, ctxt), Append(frames, frame))
    <2> HIDE DEF n
    <2> QED  BY <1>1, <1>2, ContinuePattern
  <1>4. /\ call'.fn \in ContextSensitiveFns \ {"UnderParselet_parseInfixContextSensitive"}
        /\ call'.fn \notin LoopFns
    BY DEF LoopFns, ContextSensitiveFns
  <1>5. Discipline(Len(NodeStack'), ContextStack', frames', call'.fn)
    <2> HIDE DEF n
    <2> QED  BY <1>1, <1>3, <1>4, DisciplineCases
  <1> QED  BY <1>1, <1>4, <1>5, PushedContext, PushedFrame, StackTypes, Assemble

\* The error that stands for its head is taken without a call.
LEMMA EnterInnerStep ==
  ASSUME Inv, Calling("UnderParselet_parseInfixContextSensitive"),
         NEW ctxt \in BuildContext, ctxt.Index = Len(NodeStack),
         ContextStack' = Append(ContextStack, ctxt),
         NodeStack' \in Seq(Node), Len(NodeStack) + 1 <= Len(NodeStack'),
         buffer' \in 0..Len(input), call' \in Call, call'.fn = InnerReduce,
         EndOfFileNotTaken',
         UNCHANGED <<input, GroupStack, frames, exprs, aborted>>
  PROVE  Inv'
  <1> DEFINE n == Len(NodeStack)
             m == Len(NodeStack')
  <1>1. n \in Nat /\ m \in Nat /\ n + 1 <= m /\ ctxt \in Context /\ ctxt.Index = n
    BY StackTypes, PushedContext
  <1>2. /\ ReadingPattern(n, ContextStack, frames) /\ ContextStack \in Seq(Context)
        /\ frames \in Seq(Frame) /\ Top(frames).fn # InnerReduce
    BY StackTypes DEF Calling, ContextSensitiveFns, Discipline
  <1>3. ReducingInner(m, Append(ContextStack, ctxt), frames)
    <2> HIDE DEF n, m
    <2> QED  BY <1>1, <1>2, EnterInner
  <1>4. Discipline(m, ContextStack', frames', call'.fn)
    BY <1>3, DisciplineCases
  <1>5. call'.fn \notin LoopFns
    BY DEF LoopFns, InnerReduce
  <1> QED  BY <1>4, <1>5, PushedContext, StackTypes, Assemble

\* The token is taken, or the abort noted, and the function returns.
LEMMA EndPatternStep ==
  ASSUME Inv, call.fn \in ContextSensitiveFns, NEW N \in Node,
         NodeStack' = Append(NodeStack, N), buffer' \in 0..Len(input),
         Goto("return"),
         UNCHANGED <<input, ContextStack, GroupStack, frames, exprs, aborted>>
  PROVE  Inv'
  <1>1. NodeStack' \in Seq(Node) /\ Len(NodeStack') = Len(NodeStack) + 1
    BY StackTypes
  <1>2. Returning(Len(NodeStack) + 1, ContextStack, frames)
    BY ReadingType, StackTypes, EndPattern
  <1>3. call' \in Call /\ call'.fn = "return" /\ EndOfFileNotTaken'
    BY GotoNext
  <1>4. "return" \notin LoopFns
    BY DEF LoopFns
  <1>5. Discipline(Len(NodeStack'), ContextStack', frames', call'.fn)
    BY <1>1, <1>2, <1>3, DisciplineCases
  <1> QED  BY <1>1, <1>3, <1>4, <1>5, StackTypes, Assemble

LEMMA ReduceInnerStep ==
  ASSUME Inv, NEW kind \in NodeKinds, NEW op \in Ops,
         ReduceContext(InnerReduce, kind, op, "return"), UNCHANGED GroupStack
  PROVE  Inv'
  <1> DEFINE N == NewNode(kind, op, ArgsOf(NodeStack))
  <1>1. ReducingInner(Len(NodeStack), ContextStack, frames)
    BY StackTypes DEF ReduceContext, Calling, Discipline
  <1>2. /\ ContextStack # <<>> /\ Parser_topContext = Top(ContextStack)
        /\ Parser_topContext.Index \in Nat
        /\ Parser_topContext.Index < Len(NodeStack)
    BY <1>1, StackTypes, NestedBelow DEF ReducingInner, Parser_topContext
  <1>3. N \in Node
    BY <1>2, ReducedNode
  <1>4. Parser_topContext.Index \in 0..Len(NodeStack)
    BY <1>2, StackTypes
  <1>5. NodeStack' \in Seq(Node) /\ Len(NodeStack') = Parser_topContext.Index + 1
    <2>1. NodeStack' = Append(NodesBelow(NodeStack), N)
      BY DEF ReduceContext
    <2> HIDE DEF N
    <2> QED  BY <1>3, <1>4, <2>1, StackTypes, PoppedNodes
  <1>6. Returning(Top(ContextStack).Index + 1, Pop(ContextStack), frames)
    BY <1>1, StackTypes, ReduceInner
  <1>7. call' \in Call /\ call'.fn = "return" /\ EndOfFileNotTaken'
    BY GotoNext DEF ReduceContext
  <1>8. /\ ContextStack' = Pop(ContextStack) /\ ContextStack' \in Seq(BuildContext)
        /\ UNCHANGED <<input, buffer, frames, exprs, aborted>>
    BY <1>2, TopType DEF ReduceContext
  <1>9. "return" \notin LoopFns
    BY DEF LoopFns
  <1>10. Discipline(Len(NodeStack'), ContextStack', frames', call'.fn)
    BY <1>2, <1>5, <1>6, <1>7, <1>8, DisciplineCases
  <1> QED  BY <1>5, <1>7, <1>8, <1>9, <1>10, StackTypes, Assemble

-----------------------------------------------------------------------------
(* Contexts with another function                                          *)

\* The continuations that take no part in the difference of the builds, and
\* the functions that assert nothing of their parselet.
PlainFns == ContextFns \ (LoopFns \union {"Parser_identity"})

AnyClass(fn) == ClassesFor(fn) = PrefixClasses \union InfixClasses

LEMMA PlainContext ==
  ASSUME NEW F \in PlainFns, NEW P \in Parselet, P.class \in ClassesFor(F),
         NEW Index \in Nat, NEW Prec \in Nat
  PROVE  [F |-> F, P |-> P, Index |-> Index, Prec |-> Prec] \in BuildContext
  BY ContextIntro DEF BuildContext, HasFOfBuild, PlainFns

LEMMA AnyParseletIs ==
  ASSUME NEW P \in Parselet, NEW fn, AnyClass(fn)
  PROVE  P.class \in ClassesFor(fn)
  BY ParseletFields DEF AnyClass

LEMMA NewContextType ==
  ASSUME NEW Index \in Nat, NEW Prec \in Nat
  PROVE  /\ NewContext(Index, Prec) \in BuildContext
         /\ NewContext(Index, Prec).F = "NULL"
         /\ NewContext(Index, Prec).Index = Index
  <1>1. "NULL" \in PlainFns /\ NoParselet.class \in ClassesFor("NULL")
    BY NoParseletType DEF PlainFns, ContextFns, LoopFns, ClassesFor, PrefixClasses
  <1> QED  BY <1>1, NoParseletType, PlainContext DEF NewContext

\* Two fields of a context are replaced, in one EXCEPT or in two.
LEMMA ReplaceFAndP ==
  ASSUME NEW r, NEW F1, NEW P1, NEW Index, NEW Prec, NEW F, NEW P,
         r = [F |-> F1, P |-> P1, Index |-> Index, Prec |-> Prec]
  PROVE  /\ [[r EXCEPT !.F = F] EXCEPT !.P = P]
              = [F |-> F, P |-> P, Index |-> Index, Prec |-> Prec]
         /\ [r EXCEPT !.F = F, !.P = P]
              = [F |-> F, P |-> P, Index |-> Index, Prec |-> Prec]
  <1> DEFINE D == [r EXCEPT !.F = F]
  <1>1. D = [F |-> F, P |-> P1, Index |-> Index, Prec |-> Prec]
    OBVIOUS
  <1> HIDE DEF D
  <1>2. [D EXCEPT !.P = P] = [F |-> F, P |-> P, Index |-> Index, Prec |-> Prec]
    BY <1>1
  <1>3. [r EXCEPT !.F = F, !.P = P] = [[r EXCEPT !.F = F] EXCEPT !.P = P]
    OBVIOUS
  <1> QED  BY <1>2, <1>3 DEF D

LEMMA BuildContextFields ==
  ASSUME NEW ctxt \in BuildContext
  PROVE  /\ ctxt \in Context /\ ctxt.F \in ContextFns /\ ctxt.P \in Parselet
         /\ ctxt.Index \in Nat /\ ctxt.Prec \in Nat
         /\ ctxt.P.class \in ClassesFor(ctxt.F) /\ HasFOfBuild(ctxt)
         /\ ctxt = [F |-> ctxt.F, P |-> ctxt.P, Index |-> ctxt.Index, Prec |-> ctxt.Prec]
  BY DEF BuildContext, Context

LEMMA SetPrec ==
  ASSUME NEW ctxt \in BuildContext, NEW Prec \in Nat
  PROVE  /\ [ctxt EXCEPT !.Prec = Prec] \in BuildContext
         /\ [ctxt EXCEPT !.Prec = Prec].F = ctxt.F
         /\ [ctxt EXCEPT !.Prec = Prec].Index = ctxt.Index
  <1> DEFINE D == [ctxt EXCEPT !.Prec = Prec]
  <1>1. D = [F |-> ctxt.F, P |-> ctxt.P, Index |-> ctxt.Index, Prec |-> Prec]
    BY BuildContextFields
  <1>2. D \in Context
    <2> HIDE DEF D
    <2> QED  BY <1>1, BuildContextFields, ContextIntro
  <1>3. HasFOfBuild(D)
    BY <1>1, BuildContextFields DEF HasFOfBuild
  <1> QED  BY <1>1, <1>2, <1>3 DEF BuildContext

LEMMA SetF ==
  ASSUME NEW ctxt \in BuildContext, NEW F \in PlainFns, AnyClass(F)
  PROVE  /\ [ctxt EXCEPT !.F = F] \in BuildContext
         /\ [ctxt EXCEPT !.F = F].F = F
         /\ [ctxt EXCEPT !.F = F].Index = ctxt.Index
  <1>1. [ctxt EXCEPT !.F = F]
          = [F |-> F, P |-> ctxt.P, Index |-> ctxt.Index, Prec |-> ctxt.Prec]
    BY BuildContextFields
  <1>2. ctxt.P \in Parselet /\ ctxt.P.class \in ClassesFor(F)
    BY BuildContextFields, AnyParseletIs
  <1> QED  BY <1>1, <1>2, BuildContextFields, PlainContext

LEMMA SetFAndP ==
  ASSUME NEW ctxt \in BuildContext, NEW F \in PlainFns, NEW P \in Parselet,
         P.class \in ClassesFor(F)
  PROVE  /\ [[ctxt EXCEPT !.F = F] EXCEPT !.P = P] \in BuildContext
         /\ [[ctxt EXCEPT !.F = F] EXCEPT !.P = P].F = F
         /\ [[ctxt EXCEPT !.F = F] EXCEPT !.P = P].Index = ctxt.Index
  <1> DEFINE D == [[ctxt EXCEPT !.F = F] EXCEPT !.P = P]
  <1>1. D = [F |-> F, P |-> P, Index |-> ctxt.Index, Prec |-> ctxt.Prec]
    <2>1. ctxt = [F |-> ctxt.F, P |-> ctxt.P, Index |-> ctxt.Index, Prec |-> ctxt.Prec]
      BY BuildContextFields
    <2>2. D = [[ctxt EXCEPT !.F = F] EXCEPT !.P = P]
      OBVIOUS
    <2> HIDE DEF D
    <2> QED  BY <2>1, <2>2, ReplaceFAndP
  <1> HIDE DEF D
  <1>2. D \in BuildContext /\ D.F = F /\ D.Index = ctxt.Index
    BY <1>1, BuildContextFields, PlainContext
  <1> QED  BY <1>2 DEF D

LEMMA LoopContextType ==
  ASSUME Inv, Parser_topContext \in BuildContext, NEW loop \in LoopFns,
         NEW P \in Parselet, P.class \in ClassesFor(loop)
  PROVE  /\ LoopContext(loop, P) \in BuildContext
         /\ LoopContext(loop, P).F = LoopF(loop)
         /\ LoopContext(loop, P).Index = Parser_topContext.Index
  <1> DEFINE ctxt == Parser_topContext
             Q == IF USE_MUSTTAIL THEN P ELSE ctxt.P
             D == LoopContext(loop, P)
  <1>1. D = [F |-> LoopF(loop), P |-> Q, Index |-> ctxt.Index, Prec |-> ctxt.Prec]
    <2>1. ctxt = [F |-> ctxt.F, P |-> ctxt.P, Index |-> ctxt.Index, Prec |-> ctxt.Prec]
      BY BuildContextFields
    <2>2. CASE USE_MUSTTAIL
      <3>1. D = [ctxt EXCEPT !.F = loop, !.P = P] /\ LoopF(loop) = loop /\ Q = P
        BY <2>2 DEF LoopContext, LoopF
      <3> HIDE DEF ctxt, D, Q
      <3> QED  BY <2>1, <3>1, ReplaceFAndP
    <2>3. CASE ~USE_MUSTTAIL
      <3>1. /\ D = [ctxt EXCEPT !.F = "Parser_identity"]
            /\ LoopF(loop) = "Parser_identity" /\ Q = ctxt.P
        BY <2>3 DEF LoopContext, LoopF
      <3> HIDE DEF ctxt, D, Q
      <3> QED  BY <2>1, <3>1
    <2> QED  BY <2>2, <2>3
  <1>2. LoopF(loop) \in ContextFns
    BY DEF LoopF, ContextFns
  <1>3. Q \in Parselet /\ Q.class \in ClassesFor(LoopF(loop))
    <2>1. CASE USE_MUSTTAIL
      BY <2>1 DEF LoopF
    <2>2. CASE ~USE_MUSTTAIL
      <3>1. AnyClass("Parser_identity")
        BY DEF AnyClass, ClassesFor
      <3> QED  BY <2>2, <3>1, BuildContextFields, AnyParseletIs DEF LoopF
    <2> QED  BY <2>1, <2>2
  <1>4. D \in Context
    <2> HIDE DEF D, Q
    <2> QED  BY <1>1, <1>2, <1>3, BuildContextFields, ContextIntro
  <1>5. HasFOfBuild(D)
    BY <1>1 DEF HasFOfBuild, LoopF, LoopFns
  <1> QED  BY <1>1, <1>4, <1>5 DEF BuildContext

-----------------------------------------------------------------------------
(* Positions, trivia and nodes                                             *)

LEMMA ConcatNodes ==
  ASSUME NEW s \in Seq(Node), NEW u \in Seq(Node)
  PROVE  s \o u \in Seq(Node) /\ Len(s \o u) = Len(s) + Len(u) /\ Len(s) <= Len(s \o u)
  OBVIOUS

LEMMA TriviaEndType ==
  ASSUME Inv, NEW p \in 0..Len(input)
  PROVE  /\ TriviaEnd(p) \in p..Len(input) /\ TriviaEnd(p) \in 0..Len(input)
         /\ TriviaButNotToplevelNewlinesEnd(p) \in p..Len(input)
         /\ TriviaButNotToplevelNewlinesEnd(p) \in 0..Len(input)
         /\ FileTriviaEnd(p) \in p..Len(input) /\ FileTriviaEnd(p) \in 0..Len(input)
  <1>1. \A toks : SkipKinds(p, toks) \in p..Len(input)
    BY StackTypes, SkipKindsType
  <1>2. \A q \in p..Len(input) : q \in 0..Len(input)
    OBVIOUS
  <1> QED  BY <1>1, <1>2 DEF TriviaEnd, TriviaButNotToplevelNewlinesEnd, FileTriviaEnd

\* Trivia appended to some nodes.
LEMMA WithTrivia ==
  ASSUME Inv, NEW s \in Seq(Node), NEW p \in 0..Len(input), NEW q \in p..Len(input)
  PROVE  /\ s \o TriviaTokens(p, q) \in Seq(Node)
         /\ Len(s) <= Len(s \o TriviaTokens(p, q))
  <1>1. p \in Nat /\ q \in Nat /\ p <= q /\ input \in Seq(SourceTokens)
    BY StackTypes
  <1>2. TriviaTokens(p, q) \in Seq(Node)
    BY <1>1, TriviaType, TokensAreNodes
  <1> QED  BY <1>2, ConcatNodes

LEMMA WithToken ==
  ASSUME NEW s \in Seq(Node), NEW t \in Token
  PROVE  /\ Append(s, t) \in Seq(Node) /\ Len(Append(s, t)) = Len(s) + 1
         /\ s \o <<t>> \in Seq(Node) /\ Len(s \o <<t>>) = Len(s) + 1
         /\ Len(s) \in Nat
  <1>1. t \in Node
    BY TokenIsNode
  <1> QED  BY <1>1

\* The token at a position, and one that is not the end of the file.
LEMMA TokenAt ==
  ASSUME Inv, NEW p \in 0..Len(input)
  PROVE  /\ Tokenizer_currentToken(p) \in Token
         /\ Tokenizer_currentToken(p).op \in LeafKinds
         /\ Tokenizer_currentToken(p).lo = p
         /\ Tokenizer_currentToken(p).op # "ENDOFFILE" =>
              Tokenizer_currentToken(p).hi \in 0..Len(input)
  <1> DEFINE t == Tokenizer_currentToken(p)
  <1>1. p \in Nat /\ input \in Seq(SourceTokens)
    BY StackTypes
  <1>2. t \in Token /\ t.lo = p /\ t.hi = p + 1 /\ Inside(t)
    BY <1>1, CurrentTokenType
  <1>3. t.op # "ENDOFFILE" => p + 1 <= Len(input)
    BY <1>2 DEF Inside
  <1> HIDE DEF t
  <1> QED  BY <1>1, <1>2, <1>3, StackTypes, TokenIsNode DEF t

\* An operator and the trivia after it, and the token after that.
LEMMA OperatorType ==
  ASSUME Inv, NEW t \in Token, t.hi \in 0..Len(input)
  PROVE  /\ WithOperator(t) \in Seq(Node)
         /\ Len(NodeStack) + 1 <= Len(WithOperator(t))
         /\ TriviaEnd(t.hi) \in 0..Len(input)
         /\ AfterOperator(t) = Tokenizer_currentToken(TriviaEnd(t.hi))
         /\ AfterOperator(t) \in Token /\ AfterOperator(t).lo = TriviaEnd(t.hi)
         /\ AfterOperator(t).op \in LeafKinds
         /\ AfterOperator(t).op # "ENDOFFILE" => AfterOperator(t).hi \in 0..Len(input)
  <1>1. TriviaEnd(t.hi) \in t.hi..Len(input) /\ TriviaEnd(t.hi) \in 0..Len(input)
    BY TriviaEndType
  <1>2. Append(NodeStack, t) \in Seq(Node) /\ Len(Append(NodeStack, t)) = Len(NodeStack) + 1
    BY StackTypes, WithToken
  <1>3. /\ WithOperator(t) \in Seq(Node)
        /\ Len(Append(NodeStack, t)) <= Len(WithOperator(t))
    <2> DEFINE s == Append(NodeStack, t)
    <2> HIDE DEF s
    <2>1. s \in Seq(Node)
      BY <1>2 DEF s
    <2>2. s \o TriviaTokens(t.hi, TriviaEnd(t.hi)) \in Seq(Node)
          /\ Len(s) <= Len(s \o TriviaTokens(t.hi, TriviaEnd(t.hi)))
      BY <1>1, <2>1, WithTrivia
    <2> QED  BY <2>2 DEF s, WithOperator
  <1> QED  BY <1>1, <1>2, <1>3, TokenAt DEF AfterOperator

\* Trivia before an operator, the operator, and the trivia after it.
LEMMA OperatorInLoop ==
  ASSUME Inv, NEW q \in buffer..Len(input), NEW t \in Token,
         t.hi \in 0..Len(input), NEW r \in (t.hi)..Len(input)
  PROVE  /\ NodeStack \o TriviaTokens(buffer, q) \o <<t>> \o TriviaTokens(t.hi, r)
              \in Seq(Node)
         /\ Len(NodeStack) <=
              Len(NodeStack \o TriviaTokens(buffer, q) \o <<t>> \o TriviaTokens(t.hi, r))
         /\ NodeStack \o TriviaTokens(buffer, q) \o <<t>> \in Seq(Node)
         /\ Len(NodeStack) <= Len(NodeStack \o TriviaTokens(buffer, q) \o <<t>>)
  <1> DEFINE a == NodeStack \o TriviaTokens(buffer, q)
             b == a \o <<t>>
             c == b \o TriviaTokens(t.hi, r)
  <1>1. a \in Seq(Node) /\ Len(NodeStack) <= Len(a)
    BY StackTypes, WithTrivia
  <1> HIDE DEF a
  <1>2. b \in Seq(Node) /\ Len(b) = Len(a) + 1 /\ Len(a) \in Nat
    BY <1>1, WithToken
  <1> HIDE DEF b
  <1>3. c \in Seq(Node) /\ Len(b) <= Len(c)
    BY <1>2, WithTrivia
  <1>4. Len(NodeStack) \in Nat /\ Len(b) \in Nat /\ Len(c) \in Nat
    BY <1>2, <1>3, StackTypes
  <1>5. Len(NodeStack) <= Len(b) /\ Len(NodeStack) <= Len(c)
    BY <1>1, <1>2, <1>3, <1>4
  <1> QED  BY <1>2, <1>3, <1>5 DEF a, b

-----------------------------------------------------------------------------
(* Infix parselets                                                         *)

LEMMA InfixType ==
  ASSUME Inv, Calling("parseInfix")
  PROVE  /\ call.fn \in RunningFns
         /\ call.tok \in Token /\ call.tok.op # "ENDOFFILE"
         /\ call.tok.hi \in 0..Len(input)
         /\ call.P \in Parselet /\ call.P.class \in InfixClasses
         /\ Parser_topContext \in BuildContext
  <1>1. call.fn \in RunningFns
    BY RunningFnsFacts DEF Calling
  <1>2. call.tok \in Token /\ call.P \in Parselet /\ call.P.class \in InfixClasses
    BY StackTypes, CallFields DEF Calling, ClassesFor
  <1>3. call.tok.op # "ENDOFFILE" /\ call.tok.hi <= Len(input)
    BY DEF Inv, EndOfFileNotTaken, Inside, TakingFns, Calling
  <1> QED  BY <1>1, <1>2, <1>3, RunningType, TokenIsNode, StackTypes

\* The operator is taken, and its operand parsed for a function that is known.
LEMMA TakeOperandStep ==
  ASSUME Inv, call.fn \in RunningFns, call.tok \in Token,
         call.tok.hi \in 0..Len(input), NEW ctxt \in BuildContext,
         ctxt.Index = Parser_topContext.Index,
         ctxt.F \notin {"NULL", "Parser_identity"}, TakeOperand(call.tok, ctxt),
         UNCHANGED <<input, GroupStack, frames, exprs, aborted>>
  PROVE  Inv'
  <1>1. NodeStack' = WithOperator(call.tok) /\ buffer' = TriviaEnd(call.tok.hi)
        /\ ContextStack' = TopContext(ctxt) /\ ParsePrefix(AfterOperator(call.tok))
    BY DEF TakeOperand, TakeOperator
  <1>2. NodeStack' \in Seq(Node) /\ Len(NodeStack) + 1 <= Len(NodeStack')
        /\ buffer' \in 0..Len(input)
    BY <1>1, OperatorType
  <1>3. Len(NodeStack) <= Len(NodeStack')
    BY <1>2, StackTypes
  <1>4. call' \in Call /\ call'.fn = "parsePrefix" /\ EndOfFileNotTaken'
    BY <1>1, OperatorType, CallPrefix DEF Inv
  <1> QED  BY <1>1, <1>2, <1>3, <1>4, OperandStep

\* The same for a loop.
LEMMA TakeLoopOperandStep ==
  ASSUME Inv, call.fn \in RunningFns, call.tok \in Token,
         call.tok.hi \in 0..Len(input), NEW loop \in LoopFns, NEW P \in Parselet,
         P.class \in ClassesFor(loop),
         TakeOperand(call.tok, LoopContext(loop, P)), LoopCall(loop, P),
         UNCHANGED <<input, GroupStack, exprs, aborted>>
  PROVE  Inv'
  <1> DEFINE ctxt == LoopContext(loop, P)
  <1>1. NodeStack' = WithOperator(call.tok) /\ buffer' = TriviaEnd(call.tok.hi)
        /\ ContextStack' = TopContext(ctxt) /\ ParsePrefix(AfterOperator(call.tok))
    BY DEF TakeOperand, TakeOperator
  <1>2. NodeStack' \in Seq(Node) /\ Len(NodeStack) + 1 <= Len(NodeStack')
        /\ buffer' \in 0..Len(input)
    BY <1>1, OperatorType
  <1>3. Len(NodeStack) <= Len(NodeStack')
    BY <1>2, StackTypes
  <1>4. call' \in Call /\ call'.fn = "parsePrefix" /\ EndOfFileNotTaken'
    BY <1>1, OperatorType, CallPrefix DEF Inv
  <1>5. /\ ctxt \in BuildContext /\ ctxt.F = LoopF(loop)
        /\ ctxt.Index = Parser_topContext.Index
    BY RunningType, LoopContextType
  <1> HIDE DEF ctxt
  <1> QED  BY <1>1, <1>2, <1>3, <1>4, <1>5, LoopOperandStep

-----------------------------------------------------------------------------
(* Loops                                                                   *)

\* A call of a function that runs in the top context and takes no token.
LEMMA JumpToRunning ==
  ASSUME NEW fn \in RunningFns \ TakingFns, NEW P \in Parselet,
         P.class \in ClassesFor(fn), Jump(fn, P, NoToken)
  PROVE  call' \in Call /\ call'.fn = fn /\ EndOfFileNotTaken'
  <1>1. fn \in Fns /\ fn # "parsePrefix" /\ fn \notin TakingFns
    BY RunningFnsExclude
  <1> QED  BY <1>1, JumpWithoutToken

LEMMA GotoRunning ==
  ASSUME NEW fn \in RunningFns \ TakingFns, AnyClass(fn), Goto(fn)
  PROVE  call' \in Call /\ call'.fn = fn /\ EndOfFileNotTaken'
  BY NoParseletType, AnyParseletIs, JumpToRunning DEF Goto

LEMMA ReduceFnsRun ==
  ASSUME NEW fn \in ReduceFns \ {InnerReduce}
  PROVE  fn \in RunningFns \ TakingFns /\ fn \notin LoopFns
  <1>1. fn \notin TakingFns
    BY DEF ReduceFns, TakingFns, ContextSensitiveFns
  <1>2. fn \notin LoopFns
    BY DEF ReduceFns, LoopFns
  <1> QED  BY <1>1, <1>2, RunningFnsFacts

LEMMA GiveBackType ==
  ASSUME Inv, NEW q \in buffer..Len(input), GiveBack(q)
  PROVE  buffer' = buffer
  BY StackTypes, TriviaResetType DEF GiveBack

LEMMA EndLoopStep ==
  ASSUME Inv, call.fn \in RunningFns, NEW q \in buffer..Len(input),
         NEW reduceFn \in ReduceFns \ {InnerReduce},
         call.P.class \in ClassesFor(reduceFn), EndLoop(q, reduceFn),
         UNCHANGED <<input, GroupStack, exprs, aborted>>
  PROVE  Inv'
  <1>1. buffer' = buffer /\ UNCHANGED <<NodeStack, ContextStack, frames>>
    BY GiveBackType DEF EndLoop
  <1>2. call' \in Call /\ call'.fn = reduceFn /\ EndOfFileNotTaken'
    BY StackTypes, CallFields, ReduceFnsRun, JumpToRunning DEF EndLoop
  <1>3. reduceFn \in RunningFns /\ reduceFn \notin LoopFns
    BY ReduceFnsRun
  <1>4. /\ NodeStack' \in Seq(Node) /\ Len(NodeStack) <= Len(NodeStack')
        /\ buffer' \in 0..Len(input)
    BY <1>1, StackTypes
  <1> QED  BY <1>1, <1>2, <1>3, <1>4, StayInContext

LEMMA LoopsRun ==
  ASSUME NEW loop \in LoopFns
  PROVE  loop \in RunningFns \ TakingFns
  <1>1. loop \notin TakingFns
    BY DEF LoopFns, TakingFns, ContextSensitiveFns
  <1> QED  BY <1>1, RunningFnsFacts

\* A loop that parses its next operand leaves its context as it is.
LEMMA AgainStep ==
  ASSUME Inv, NEW loop \in LoopFns, call.fn = loop,
         NodeStack' \in Seq(Node), Len(NodeStack) <= Len(NodeStack'),
         buffer' \in 0..Len(input), call' \in Call, call'.fn = "parsePrefix",
         EndOfFileNotTaken', NEW P \in Parselet, P.class \in ClassesFor(loop),
         LoopCall(loop, P), UNCHANGED <<input, ContextStack, GroupStack, exprs, aborted>>
  PROVE  Inv'
  <1> DEFINE ctxt == Parser_topContext
  <1>1. call.fn \in RunningFns
    BY LoopsRun
  <1>2. ContextStack # <<>> /\ ctxt \in BuildContext
    BY <1>1, RunningType
  <1>3. ContextStack' = TopContext(ctxt)
    BY <1>2, UnchangedTop
  <1>4. ctxt.F = LoopF(loop)
    BY DEF Inv, LoopsInPlace
  <1> HIDE DEF ctxt
  <1>5. ctxt.Index = Parser_topContext.Index
    BY DEF ctxt
  <1> QED  BY <1>1, <1>2, <1>3, <1>4, <1>5, LoopOperandStep

LEMMA ContinueLoopStep ==
  ASSUME Inv, NEW loop \in LoopFns, call.fn = loop, NEW q \in buffer..Len(input),
         NEW t \in Token, t.hi \in 0..Len(input), ContinueLoop(q, t, loop),
         UNCHANGED <<input, GroupStack, exprs, aborted>>
  PROVE  Inv'
  <1>1. TriviaEnd(t.hi) \in t.hi..Len(input) /\ TriviaEnd(t.hi) \in 0..Len(input)
    BY TriviaEndType
  <1>2. NodeStack' \in Seq(Node) /\ Len(NodeStack) <= Len(NodeStack')
        /\ buffer' \in 0..Len(input)
    BY <1>1, OperatorInLoop DEF ContinueLoop
  <1>3. call' \in Call /\ call'.fn = "parsePrefix" /\ EndOfFileNotTaken'
    BY <1>1, CallPrefix DEF ContinueLoop, AfterOperator, Inv
  <1>4. call.P \in Parselet /\ call.P.class \in ClassesFor(loop)
    BY StackTypes, CallFields
  <1> QED  BY <1>2, <1>3, <1>4, AgainStep DEF ContinueLoop

-----------------------------------------------------------------------------
(* The loop of concreteParse and Parser.cpp                                *)

LEMMA EmptyOwner ==
  /\ Expecting(0, <<>>, <<>>)
  /\ Nested(0, <<>>)
  <1>1. Len(<<>>) = 0
    OBVIOUS
  <1>2. OnlyLoops(<<>>) /\ Nested(0, <<>>)
    BY <1>1 DEF OnlyLoops, Nested
  <1> DEFINE g == [j \in 1..0 |-> 0]
  <1>3. g \in [1..Len(<<>>) -> 1..Len(<<>>)]
    BY <1>1
  <1>4. Owner(g, <<>>, <<>>) /\ AllOwned(g, <<>>, Len(<<>>))
    BY <1>1, <1>3 DEF Owner, AllOwned
  <1>5. Operating(<<>>, <<>>)
    BY <1>2, <1>3, <1>4 DEF Operating
  <1> QED  BY <1>2, <1>5 DEF Expecting

LEMMA InitInv == Init => Inv
  <1> SUFFICES ASSUME Init PROVE Inv
    OBVIOUS
  <1>1. NoToken \in Token /\ NoParselet \in Parselet /\ NoParselet.class = "Leaf"
    BY NoTokenType, NoParseletType
  <1>2. call \in Call /\ call.fn = "concreteParse" /\ call.tok = NoToken
    BY <1>1, AnyParselet, CallIntro DEF Init, PrefixClasses
  <1>3. input \in Seq(SourceTokens) /\ Len(input) \in Nat
    BY InputsAssumption DEF Init
  <1>4. TypeOK
    <2>1. /\ NodeStack \in Seq(Node) /\ ContextStack \in Seq(Context)
          /\ GroupStack \in Seq(AnyCloser) /\ frames \in Seq(Frame)
          /\ exprs \in Seq(Node)
      BY DEF Init
    <2>2. buffer \in 0..Len(input)
      BY <1>3 DEF Init
    <2>3. aborted \in BOOLEAN
      BY DEF Init
    <2> QED  BY <1>2, <1>3, <2>1, <2>2, <2>3 DEF TypeOK
  <1>5. StackDiscipline
    BY <1>2, AnyParselet DEF Init, StackDiscipline, Discipline, ContextSensitiveFns
  <1>6. LoopsInPlace
    BY <1>2, AnyParselet DEF Init, LoopsInPlace
  <1>7. EndOfFileNotTaken
    BY <1>2, NoTokenType, AnyParselet DEF EndOfFileNotTaken, Inside, Calling
  <1> QED  BY <1>4, <1>5, <1>6, <1>7 DEF Inv

\* At the head of its loop concreteParse has empty stacks.
LEMMA HeadType ==
  ASSUME Inv, Calling("concreteParse")
  PROVE  /\ Len(NodeStack) = 0 /\ ContextStack = <<>> /\ frames = <<>>
  BY StackTypes DEF Discipline, Calling

LEMMA concreteParseStep == Inv /\ concreteParse => Inv'
  <1> SUFFICES ASSUME Inv, concreteParse PROVE Inv'
    OBVIOUS
  <1> DEFINE peek == Tokenizer_currentToken(buffer)
  <1>1. /\ Calling("concreteParse")
        /\ UNCHANGED <<input, NodeStack, ContextStack, GroupStack, frames, aborted>>
    BY DEF concreteParse
  <1>2. /\ Len(NodeStack) = 0 /\ ContextStack = <<>> /\ frames = <<>>
    BY <1>1, HeadType
  <1>3. peek \in Token /\ peek.op \in LeafKinds
        /\ (peek.op # "ENDOFFILE" => peek.hi \in 0..Len(input))
    BY StackTypes, TokenAt
  <1>4. Expecting(Len(NodeStack), ContextStack, frames)
    BY <1>2, EmptyOwner
  <1>5. CASE Goto("done") /\ UNCHANGED <<buffer, exprs>>
    <2>1. call' \in Call /\ call'.fn = "done" /\ EndOfFileNotTaken'
      BY <1>5, GotoNext
    <2>2. Discipline(Len(NodeStack'), ContextStack', frames', call'.fn)
      BY <1>1, <1>2, <2>1, AnyParselet DEF Discipline
    <2>3. call'.fn \notin LoopFns
      BY <2>1, AnyParselet
    <2> QED  BY <1>1, <1>5, <2>1, <2>2, <2>3, StackTypes, Assemble
  <1>6. CASE /\ peek.op \in Trivia
             /\ exprs' = Append(exprs, peek)
             /\ buffer' = peek.hi
             /\ UNCHANGED call
    <2>1. peek.op # "ENDOFFILE"
      BY <1>6 DEF Trivia, Newlines
    <2>2. exprs' \in Seq(Node) /\ buffer' \in 0..Len(input)
      BY <1>3, <1>6, <2>1, TokenIsNode DEF Inv, TypeOK
    <2> HIDE DEF peek
    <2>3. TypeOK'
      BY <1>1, <1>6, <2>2 DEF Inv, TypeOK
    <2>4. StackDiscipline'
      BY <1>1, <1>6 DEF Inv, StackDiscipline
    <2>5. LoopsInPlace'
      BY <1>1, <1>6 DEF Inv, LoopsInPlace, Parser_topContext
    <2>6. EndOfFileNotTaken'
      BY <1>1, <1>6 DEF Inv, EndOfFileNotTaken, Inside, Calling
    <2> QED  BY <2>3, <2>4, <2>5, <2>6 DEF Inv
  <1>7. CASE /\ peek.op \in CloserTokens
             /\ Jump("parsePrefix", prefixToplevelCloserParselet, peek)
             /\ UNCHANGED <<buffer, exprs>>
    <2>1. peek.op # "ENDOFFILE"
      BY <1>7 DEF CloserTokens
    <2>2. call' \in Call /\ call'.fn = "parsePrefix" /\ EndOfFileNotTaken'
      BY <1>1, <1>3, <1>7, <2>1, ToplevelCloserType, CallPrefixWith
    <2>3. Discipline(Len(NodeStack'), ContextStack', frames', call'.fn)
      BY <1>1, <1>4, <2>2, DisciplineCases
    <2>4. call'.fn \notin LoopFns
      BY <2>2 DEF LoopFns
    <2> QED  BY <1>1, <1>7, <2>2, <2>3, <2>4, StackTypes, Assemble
  <1>8. CASE ParsePrefix(peek) /\ UNCHANGED <<buffer, exprs>>
    <2>1. call' \in Call /\ call'.fn = "parsePrefix" /\ EndOfFileNotTaken'
      BY <1>1, <1>8, StackTypes, CallPrefix DEF Inv
    <2>2. Discipline(Len(NodeStack'), ContextStack', frames', call'.fn)
      BY <1>1, <1>4, <2>1, DisciplineCases
    <2>3. call'.fn \notin LoopFns
      BY <2>1 DEF LoopFns
    <2> QED  BY <1>1, <1>8, <2>1, <2>2, <2>3, StackTypes, Assemble
  <1> QED  BY <1>5, <1>6, <1>7, <1>8 DEF concreteParse

LEMMA concreteParse_pushStep == Inv /\ concreteParse_push => Inv'
  <1> SUFFICES ASSUME Inv, concreteParse_push PROVE Inv'
    OBVIOUS
  <1>1. /\ Calling("return") /\ frames = <<>> /\ exprs' = Append(exprs, Top(NodeStack))
        /\ NodeStack' = Pop(NodeStack) /\ Goto("concreteParse")
        /\ UNCHANGED <<input, buffer, ContextStack, GroupStack, frames, aborted>>
    BY DEF concreteParse_push
  <1>2. Returning(Len(NodeStack), ContextStack, <<>>)
    BY <1>1, StackTypes DEF Discipline, Calling
  <1>3. ContextStack = <<>> /\ Len(NodeStack) = 1
    BY <1>2, StackTypes, ReturnToTop
  <1>4. NodeStack # <<>>
    BY <1>3
  <1>5. /\ NodeStack' \in Seq(Node) /\ Len(NodeStack') = 0 /\ exprs' \in Seq(Node)
    <2>1. Pop(NodeStack) \in Seq(Node) /\ Len(Pop(NodeStack)) = Len(NodeStack) - 1
          /\ Top(NodeStack) \in Node
      BY <1>4, StackTypes, PopFacts
    <2> QED  BY <1>1, <1>3, <2>1 DEF Inv, TypeOK
  <1>6. call' \in Call /\ call'.fn = "concreteParse" /\ EndOfFileNotTaken'
    BY <1>1, GotoNext
  <1>7. TypeOK'
    BY <1>1, <1>5, <1>6 DEF Inv, TypeOK
  <1>8. StackDiscipline'
    BY <1>1, <1>3, <1>5, <1>6, AnyParselet DEF StackDiscipline, Discipline
  <1>9. LoopsInPlace'
    BY <1>1, <1>6, AnyParselet DEF Inv, LoopsInPlace
  <1> QED  BY <1>6, <1>7, <1>8, <1>9 DEF Inv

LEMMA AbortedStep == Inv /\ Abort => Inv'
  <1> SUFFICES ASSUME Inv, Abort PROVE Inv'
    OBVIOUS
  <1>1. TypeOK'
    BY DEF Abort, Inv, TypeOK
  <1>2. StackDiscipline'
    BY DEF Abort, Inv, StackDiscipline
  <1>3. LoopsInPlace'
    BY DEF Abort, Inv, LoopsInPlace, Parser_topContext
  <1>4. EndOfFileNotTaken'
    BY DEF Abort, Inv, EndOfFileNotTaken, Inside, Calling
  <1> QED  BY <1>1, <1>2, <1>3, <1>4 DEF Inv

LEMMA StutterStep == Inv /\ UNCHANGED vars => Inv'
  <1> SUFFICES ASSUME Inv, UNCHANGED vars PROVE Inv'
    OBVIOUS
  <1>1. TypeOK'
    BY DEF vars, Inv, TypeOK
  <1>2. StackDiscipline'
    BY DEF vars, Inv, StackDiscipline
  <1>3. LoopsInPlace'
    BY DEF vars, Inv, LoopsInPlace, Parser_topContext
  <1>4. EndOfFileNotTaken'
    BY DEF vars, Inv, EndOfFileNotTaken, Inside, Calling
  <1> QED  BY <1>1, <1>2, <1>3, <1>4 DEF Inv

\* A precedence is a number, and that of the end of the file is the lowest.
LEMMA getPrecedenceType ==
  ASSUME NEW I \in Parselet, NEW nodes
  PROVE  /\ getPrecedence(I, nodes) \in Nat
         /\ I.class = "InfixAssertFalse" => getPrecedence(I, nodes) = 0
  <1>1. I.prec \in Nat
    BY ParseletFields
  <1> QED  BY <1>1 DEF getPrecedence, PRECEDENCE

LEMMA processImplicitTimesType ==
  ASSUME Inv, NEW p \in 0..Len(input)
  PROVE  LET t == Tokenizer_currentToken(p)
             u == processImplicitTimes(infixParselets[t.op], t)
         IN /\ u \in Token /\ u.op \in LeafKinds
            /\ t.op = "ENDOFFILE" => u = t
            /\ t.op # "ENDOFFILE" => u.op # "ENDOFFILE" /\ u.hi \in 0..Len(input)
  <1> DEFINE t == Tokenizer_currentToken(p)
             I == infixParselets[t.op]
             u == processImplicitTimes(I, t)
  <1>1. t \in Token /\ t.op \in LeafKinds /\ t.lo = p
        /\ (t.op # "ENDOFFILE" => t.hi \in 0..Len(input))
    BY TokenAt
  <1>2. u \in {t, FAKE_IMPLICITTIMES(t)}
    BY DEF processImplicitTimes
  <1>3. t.op = "ENDOFFILE" => u = t
    BY EndOfFileAssumption DEF processImplicitTimes, New
  <1> HIDE DEF t, u
  <1>4. "FAKE_IMPLICITTIMES" \in LeafKinds
    BY DEF LeafKinds, Fakes
  <1>5. /\ FAKE_IMPLICITTIMES(t) \in Token
        /\ FAKE_IMPLICITTIMES(t).op = "FAKE_IMPLICITTIMES"
        /\ FAKE_IMPLICITTIMES(t).hi = p
    BY <1>1, <1>4, EmptyType DEF FAKE_IMPLICITTIMES
  <1>6. u \in Token /\ u.op \in LeafKinds
        /\ (t.op # "ENDOFFILE" => u.op # "ENDOFFILE" /\ u.hi \in 0..Len(input))
    <2>1. CASE u = t
      BY <1>1, <2>1
    <2>2. CASE u = FAKE_IMPLICITTIMES(t)
      BY <1>4, <1>5, <2>2
    <2> QED  BY <1>2, <2>1, <2>2
  <1> QED  BY <1>3, <1>6 DEF t, u

\* The next operator binds tighter than the context: it is not the end of
\* the file.
LEMMA TighterThanEnd ==
  ASSUME Inv, NEW I \in Parselet, I.class = "InfixAssertFalse", NEW nodes
  PROVE  BindsTighterThan(getPrecedence(I, nodes))
  <1>1. Parser_topPrecedence \in Nat
    BY StackTypes, TopType, BuildContextFields, PrecedenceType DEF Parser_topPrecedence, PRECEDENCE
  <1> QED  BY <1>1, RightBitType, getPrecedenceType DEF BindsTighterThan

LEMMA Parser_parseClimbStep == Inv /\ Parser_parseClimb => Inv'
  <1> SUFFICES ASSUME Inv, Parser_parseClimb PROVE Inv'
    OBVIOUS
  <1> DEFINE q       == TriviaButNotToplevelNewlinesEnd(buffer)
             Trivia1 == TriviaTokens(buffer, q)
             peek    == Tokenizer_currentToken(q)
             token   == processImplicitTimes(infixParselets[peek.op], peek)
             I       == infixParselets[token.op]
             prec    == getPrecedence(I, NodeStack)
  <1>1. Calling("Parser_parseClimb") /\ UNCHANGED <<input, GroupStack, frames, exprs, aborted>>
    BY DEF Parser_parseClimb
  <1>2. q \in buffer..Len(input) /\ q \in 0..Len(input)
    BY StackTypes, TriviaEndType
  <1>3. /\ token \in Token /\ token.op \in LeafKinds
        /\ peek.op = "ENDOFFILE" => token = peek
        /\ peek.op # "ENDOFFILE" => token.op # "ENDOFFILE" /\ token.hi \in 0..Len(input)
    BY <1>2, processImplicitTimesType
  <1>4. I \in Parselet /\ I.class \in InfixClasses
    BY <1>3, TableTypes
  <1>5. Complete(Len(NodeStack), ContextStack, frames)
    BY <1>1, StackTypes DEF Discipline, Calling
  <1>6. CASE BindsTighterThan(prec)
    <2>1. /\ buffer' = TriviaSeq_reset(q, Trivia1) /\ Goto("Parser_tryContinue")
          /\ UNCHANGED <<NodeStack, ContextStack>>
      BY <1>6 DEF Parser_parseClimb
    <2>2. buffer' \in 0..Len(input)
      BY <1>2, <2>1, StackTypes, TriviaResetType
    <2>3. call' \in Call /\ call'.fn = "Parser_tryContinue" /\ EndOfFileNotTaken'
      BY <2>1, GotoNext
    <2>4. Discipline(Len(NodeStack'), ContextStack', frames', call'.fn)
      BY <1>1, <1>5, <2>1, <2>3, DisciplineCases
    <2>5. call'.fn \notin LoopFns
      BY <2>3, AnyParselet
    <2> QED  BY <1>1, <2>1, <2>2, <2>3, <2>4, <2>5, StackTypes, Assemble
  <1>7. CASE ~BindsTighterThan(prec)
    <2>1. /\ ContextStack' = Parser_pushContext(NodeStack, prec)
          /\ NodeStack' = NodeStack \o Trivia1
          /\ buffer' = q
          /\ Jump("parseInfix", I, token)
      BY <1>7 DEF Parser_parseClimb
    <2>2. peek.op # "ENDOFFILE"
      <3>1. ASSUME peek.op = "ENDOFFILE" PROVE FALSE
        <4>1. I = New("InfixAssertFalse")
          BY <1>3, <3>1, EndOfFileAssumption
        <4>2. I.class = "InfixAssertFalse"
          BY <4>1 DEF New
        <4> HIDE DEF I
        <4> QED  BY <1>4, <1>7, <4>2, TighterThanEnd DEF prec
      <3> QED  BY <3>1
    <2>3. call' \in Call /\ call'.fn = "parseInfix" /\ EndOfFileNotTaken'
      <3> HIDE DEF I, token
      <3> QED  BY <1>1, <1>3, <1>4, <2>1, <2>2, CallInfix
    <2>4. /\ NodeStack' \in Seq(Node) /\ Len(NodeStack) <= Len(NodeStack')
          /\ buffer' \in 0..Len(input)
      BY <1>2, <2>1, StackTypes, WithTrivia
    <2>5. Len(NodeStack) - 1 \in Nat
      <3>1. CASE ContextStack = <<>>
        <4>1. Len(NodeStack) = 1
          BY <1>5, <3>1 DEF Complete, HasOperand
        <4> QED  BY <4>1
      <3>2. CASE ContextStack # <<>>
        <4>1. Len(ContextStack) \in 1..Len(ContextStack)
          BY <3>2, StackTypes
        <4>2. ContextStack[Len(ContextStack)].Index \in Nat
          BY <4>1, StackTypes, ContextIndex
        <4>3. ContextStack[Len(ContextStack)].Index + 2 <= Len(NodeStack)
          BY <1>5, <3>2 DEF Complete, HasOperand
        <4> QED  BY <4>2, <4>3, StackTypes
      <3> QED  BY <3>1, <3>2
    <2>6. prec \in Nat
      <3> HIDE DEF I
      <3> QED  BY <1>4, getPrecedenceType
    <2> DEFINE ctxt == NewContext(Len(NodeStack) - 1, prec)
    <2>7. /\ ctxt \in BuildContext /\ ctxt.Index = Len(NodeStack) - 1
          /\ ContextStack' = Append(ContextStack, ctxt)
      <3> HIDE DEF prec
      <3> QED  BY <2>1, <2>5, <2>6, NewContextType DEF Parser_pushContext
    <2> HIDE DEF ctxt, I, token, prec
    <2> QED  BY <1>1, <2>3, <2>4, <2>7, EnterInfixStep
  <1> QED  BY <1>6, <1>7

LEMMA Parser_parseClimb_abortStep == Inv /\ Parser_parseClimb_abort => Inv'
  <1> SUFFICES ASSUME Inv, Parser_parseClimb_abort PROVE Inv'
    OBVIOUS
  <1>1. /\ Calling("Parser_parseClimb") /\ Goto("Parser_tryContinue")
        /\ UNCHANGED <<input, buffer, NodeStack, ContextStack, GroupStack, frames,
                       exprs, aborted>>
    BY DEF Parser_parseClimb_abort
  <1>2. Complete(Len(NodeStack), ContextStack, frames)
    BY <1>1, StackTypes DEF Discipline, Calling
  <1>3. call' \in Call /\ call'.fn = "Parser_tryContinue" /\ EndOfFileNotTaken'
    BY <1>1, GotoNext
  <1>4. Discipline(Len(NodeStack'), ContextStack', frames', call'.fn)
    BY <1>1, <1>2, <1>3, DisciplineCases
  <1>5. call'.fn \notin LoopFns
    BY <1>3, AnyParselet
  <1> QED  BY <1>1, <1>3, <1>4, <1>5, StackTypes, Assemble

\* A continuation other than Parser_identity runs in the top context.
LEMMA ContinuationFns ==
  ASSUME NEW F \in ContextFns, F \notin {"NULL", "Parser_identity"}
  PROVE  F \in RunningFns \ TakingFns
  <1>1. CASE F \in LoopFns
    BY <1>1, LoopsRun
  <1>2. CASE F \in ReduceFns \ {InnerReduce}
    BY <1>2, ReduceFnsRun
  <1>3. CASE F \in {"TildeParselet_parse1", "SlashColonParselet_parse1",
                    "SemiSemiParselet_parse2", "IntegralParselet_parse1"}
    BY <1>3 DEF RunningFns, ParseFns, ContextSensitiveFns, TakingFns
  <1> QED  BY <1>1, <1>2, <1>3 DEF ContextFns, InnerReduce

LEMMA Parser_tryContinueStep == Inv /\ Parser_tryContinue => Inv'
  <1> SUFFICES ASSUME Inv, Parser_tryContinue PROVE Inv'
    OBVIOUS
  <1>1. /\ Calling("Parser_tryContinue")
        /\ UNCHANGED <<input, buffer, NodeStack, ContextStack, GroupStack, frames,
                       exprs, aborted>>
    BY DEF Parser_tryContinue
  <1>2. Complete(Len(NodeStack), ContextStack, frames)
    BY <1>1, StackTypes DEF Discipline, Calling
  <1>3. CASE ContextStack = <<>> \/ Parser_topContext.F = "Parser_identity"
    <2>1. call' \in Call /\ call'.fn = "return" /\ EndOfFileNotTaken'
      BY <1>3, GotoNext DEF Parser_tryContinue
    <2>2. Returning(Len(NodeStack), ContextStack, frames)
      BY <1>2, <1>3, StackTypes, ReturnToCaller DEF Parser_topContext
    <2>3. Discipline(Len(NodeStack'), ContextStack', frames', call'.fn)
      BY <1>1, <2>1, <2>2, DisciplineCases
    <2>4. call'.fn \notin LoopFns
      BY <2>1, AnyParselet
    <2> QED  BY <1>1, <2>1, <2>3, <2>4, StackTypes, Assemble
  <1>4. CASE ContextStack # <<>> /\ Parser_topContext.F # "Parser_identity"
    <2> DEFINE ctxt == Parser_topContext
    <2>1. ctxt \in BuildContext /\ ctxt = Top(ContextStack)
      BY <1>4, TopType
    <2>2. ctxt.F # "NULL" /\ Running(Len(NodeStack), ContextStack, frames)
      BY <1>2, <1>4, StackTypes, CallContinuation DEF Parser_topContext
    <2>3. Jump(ctxt.F, ctxt.P, NoToken)
      BY <1>4 DEF Parser_tryContinue
    <2>4. ctxt.F \in RunningFns \ TakingFns /\ ctxt.P \in Parselet
          /\ ctxt.P.class \in ClassesFor(ctxt.F) /\ HasFOfBuild(ctxt)
      BY <1>4, <2>1, <2>2, BuildContextFields, ContinuationFns
    <2>5. call' \in Call /\ call'.fn = ctxt.F /\ EndOfFileNotTaken'
      BY <2>3, <2>4, JumpToRunning
    <2>6. Discipline(Len(NodeStack'), ContextStack', frames', call'.fn)
      BY <1>1, <2>2, <2>4, <2>5, DisciplineCases
    <2>7. call'.fn \in LoopFns => Top(ContextStack').F = LoopF(call'.fn)
      BY <1>1, <2>1, <2>4, <2>5 DEF HasFOfBuild, LoopF
    <2> QED  BY <1>1, <2>5, <2>6, <2>7, StackTypes, Assemble
  <1> QED  BY <1>3, <1>4

\* The loop that a native call returns to runs in a context that is still
\* Parser_identity, so this is the default build.
LEMMA ReturnStep == Inv /\ Return => Inv'
  <1> SUFFICES ASSUME Inv, Return PROVE Inv'
    OBVIOUS
  <1> DEFINE frame == Top(frames)
  <1>1. /\ Calling("return") /\ frames # <<>> /\ Jump(frame.fn, frame.P, NoToken)
        /\ frames' = Pop(frames)
        /\ UNCHANGED <<input, buffer, NodeStack, ContextStack, GroupStack, exprs, aborted>>
    BY DEF Return
  <1>2. Returning(Len(NodeStack), ContextStack, frames)
    BY <1>1, StackTypes DEF Discipline, Calling
  <1>3. /\ frame \in Frame /\ frames' \in Seq(Frame)
        /\ Len(frames) \in Nat \ {0} /\ frame = frames[Len(frames)]
    BY <1>1, StackTypes, PopFacts
  <1>4. frame.fn \in Fns /\ frame.P \in Parselet /\ frame.P.class \in ClassesFor(frame.fn)
    BY <1>3 DEF Frame
  <1>5. frame.fn \in LoopFns \union PatternReduces \union {InnerReduce}
    BY <1>2, <1>3 DEF Returning, OnlyLoops, IsLoop, PatternFrames
  <1>6. frame.fn \notin TakingFns /\ frame.fn # "parsePrefix"
    BY <1>5 DEF LoopFns, PatternReduces, InnerReduce, TakingFns, ContextSensitiveFns
  <1>7. call' \in Call /\ call'.fn = frame.fn /\ EndOfFileNotTaken'
    BY <1>1, <1>4, <1>6, JumpWithoutToken
  <1>8. Discipline(Len(NodeStack'), ContextStack', frames', call'.fn)
    <2>1. CASE frame.fn = InnerReduce
      <3>1. ReducingInner(Len(NodeStack), ContextStack, Pop(frames))
        BY <1>1, <1>2, <2>1, StackTypes, ReturnToFrame
      <3> QED  BY <1>1, <1>7, <2>1, <3>1, DisciplineCases
    <2>2. CASE frame.fn # InnerReduce
      <3>1. Running(Len(NodeStack), ContextStack, Pop(frames))
        BY <1>1, <1>2, <2>2, StackTypes, ReturnToFrame
      <3>2. frame.fn \in RunningFns
        BY <1>5, <2>2 DEF RunningFns, PatternReduces, ReduceFns, InnerReduce
      <3> QED  BY <1>1, <1>7, <3>1, <3>2, DisciplineCases
    <2> QED  BY <2>1, <2>2
  <1>9. ASSUME frame.fn \in LoopFns PROVE Top(ContextStack).F = LoopF(frame.fn)
    <2>1. PICK g \in [1..Len(frames) -> 1..Len(ContextStack)] :
                 Owner(g, ContextStack, frames) /\ TopOwned(g, ContextStack, frames)
      BY <1>2 DEF Returning
    <2>2. ContextStack # <<>> /\ g[Len(frames)] = Len(ContextStack)
      BY <1>1, <1>3, <2>1 DEF TopOwned
    <2>3. Top(ContextStack).F = "Parser_identity"
      BY <1>3, <1>9, <2>1, <2>2 DEF Owner, SuspendedF, IsLoop, Top
    <2>4. HasFOfBuild(Top(ContextStack))
      BY <2>2, TopType, BuildContextFields
    <2> QED  BY <2>3, <2>4 DEF HasFOfBuild, LoopF
  <1> QED  BY <1>1, <1>3, <1>7, <1>8, <1>9, StackTypes, Assemble

-----------------------------------------------------------------------------
(* Reductions                                                              *)

LEMMA ReduceStepFor ==
  ASSUME Inv, NEW fn \in ReduceFns \ {InnerReduce}, NEW kind \in NodeKinds,
         NEW op, Reduce(fn, kind, op), op \in {call.P.op, call.P.op2} \union Ops
  PROVE  Inv'
  <1>1. op \in Ops
    BY StackTypes, CallFields, ParseletFields
  <1>2. ReduceContext(fn, kind, op, "Parser_parseClimb") /\ UNCHANGED GroupStack
    BY DEF Reduce
  <1> QED  BY <1>1, <1>2, StackTypes, ReduceStep

-----------------------------------------------------------------------------
(* Prefix parselets                                                        *)

LEMMA LeafParseletStep ==
  ASSUME Inv, NEW class \in PrefixClasses \ {"PrefixEndOfFile"}, Prefix(class),
         NEW N \in Token, NodeStack' = Append(NodeStack, N),
         buffer' \in {buffer, call.tok.hi},
         NEW next \in {"Parser_parseClimb", "Parser_tryContinue"}, Goto(next),
         UNCHANGED <<input, ContextStack, GroupStack, frames, exprs, aborted>>
  PROVE  Inv'
  <1>1. Calling("parsePrefix") /\ call.P.class # "PrefixEndOfFile"
    BY DEF Prefix
  <1>2. buffer' \in 0..Len(input)
    BY <1>1, PrefixTokenInside, StackTypes
  <1> QED  BY <1>1, <1>2, TokenIsNode, LeafStep

LEMMA MissingOperandType ==
  ASSUME NEW t \in Token
  PROVE  MissingOperand(t) \in Token
  <1>1. {"ERROR_INFIXIMPLICITNULL", "ERROR_EXPECTEDOPERAND"} \subseteq LeafKinds
    BY DEF LeafKinds, ParserErrors
  <1> QED  BY <1>1, EmptyType DEF MissingOperand

LEMMA PrefixUnhandledStep == Inv /\ PrefixUnhandledParselet_parsePrefix => Inv'
  <1> SUFFICES ASSUME Inv, PrefixUnhandledParselet_parsePrefix PROVE Inv'
    OBVIOUS
  <1> DEFINE t     == call.tok
             I     == infixParselets[t.op]
             N     == Empty("ERROR_EXPECTEDOPERAND", t)
             nodes == Append(NodeStack, N)
             prec  == getPrecedence(I, nodes)
  <1>1. /\ Calling("parsePrefix") /\ call.P.class # "PrefixEndOfFile"
        /\ NodeStack' = nodes
        /\ UNCHANGED <<input, buffer, GroupStack, frames, exprs, aborted>>
    BY DEF PrefixUnhandledParselet_parsePrefix, Prefix
  <1>2. t \in Token /\ t.op \in LeafKinds /\ t.op # "ENDOFFILE" /\ t.hi \in 0..Len(input)
    BY <1>1, ExpectingType, PrefixTokenInside
  <1>3. N \in Token
    <2>1. "ERROR_EXPECTEDOPERAND" \in LeafKinds
      BY DEF LeafKinds, ParserErrors
    <2> QED  BY <1>2, <2>1, EmptyType
  <1>4. /\ nodes \in Seq(Node) /\ Len(nodes) = Len(NodeStack) + 1
        /\ buffer' \in 0..Len(input)
    BY <1>1, <1>3, StackTypes, WithToken
  <1>5. I \in Parselet /\ I.class \in InfixClasses
    BY <1>2, TableTypes
  <1>6. CASE BindsTighterThan(prec)
    <2>1. Goto("Parser_tryContinue") /\ UNCHANGED ContextStack
      BY <1>6 DEF PrefixUnhandledParselet_parsePrefix
    <2> HIDE DEF N
    <2> QED  BY <1>1, <1>3, <1>4, <2>1, TokenIsNode, LeafStep
  <1>7. CASE ~BindsTighterThan(prec)
    <2>1. /\ ContextStack' = Parser_pushContext(nodes, prec)
          /\ Jump("parseInfix", I, t)
      BY <1>7 DEF PrefixUnhandledParselet_parsePrefix
    <2>2. call' \in Call /\ call'.fn = "parseInfix" /\ EndOfFileNotTaken'
      <3> HIDE DEF I, t
      <3> QED  BY <1>1, <1>2, <1>5, <2>1, CallInfix
    <2>3. prec \in Nat
      <3> HIDE DEF I
      <3> QED  BY <1>5, getPrecedenceType
    <2> DEFINE ctxt == NewContext(Len(NodeStack), prec)
    <2>4. /\ ctxt \in BuildContext /\ ctxt.Index = Len(NodeStack)
      <3> HIDE DEF prec
      <3> QED  BY <2>3, StackTypes, NewContextType
    <2>5. ContextStack' = Append(ContextStack, ctxt)
      <3>1. Len(nodes) - 1 = Len(NodeStack)
        BY <1>4, StackTypes
      <3> HIDE DEF prec, nodes
      <3> QED  BY <2>1, <3>1 DEF Parser_pushContext
    <2>6. call'.fn \in RunningFns /\ call'.fn \notin LoopFns
      BY <2>2, RunningFnsFacts DEF LoopFns
    <2>7. /\ NodeStack' \in Seq(Node) /\ Len(NodeStack) + 1 <= Len(NodeStack')
          /\ GroupStack' \in Seq(AnyCloser)
      BY <1>1, <1>4, StackTypes
    <2> HIDE DEF ctxt
    <2> QED  BY <1>1, <1>4, <2>2, <2>4, <2>5, <2>6, <2>7, EnterStep
  <1> QED  BY <1>6, <1>7

LEMMA PrefixOperatorStep == Inv /\ PrefixOperatorParselet_parsePrefix => Inv'
  <1> SUFFICES ASSUME Inv, PrefixOperatorParselet_parsePrefix PROVE Inv'
    OBVIOUS
  <1> DEFINE t    == call.tok
             F    == "PrefixOperatorParselet_reducePrefixOperator"
             n    == Len(NodeStack)
             ctxt == [NewContext(n, call.P.prec) EXCEPT !.F = F, !.P = call.P]
  <1>1. /\ Calling("parsePrefix") /\ call.P.class = "PrefixOperator"
        /\ TakeOperator(t)
        /\ ContextStack' = Append(ContextStack,
                             [NewContext(Len(Append(NodeStack, t)) - 1, call.P.prec)
                                EXCEPT !.F = F, !.P = call.P])
        /\ ParsePrefix(AfterOperator(t))
        /\ UNCHANGED <<input, GroupStack, frames, exprs, aborted>>
    BY DEF PrefixOperatorParselet_parsePrefix, Prefix
  <1>2. t \in Token /\ t.hi \in 0..Len(input) /\ call.P \in Parselet
    BY <1>1, ExpectingType, PrefixTokenInside
  <1>3. Len(Append(NodeStack, t)) - 1 = n /\ n \in Nat
    BY <1>2, StackTypes, WithToken
  <1>4. F \in PlainFns /\ call.P.class \in ClassesFor(F)
    BY <1>1 DEF PlainFns, ContextFns, ReduceFns, LoopFns, ClassesFor
  <1>5. ctxt \in BuildContext /\ ctxt.F = F /\ ctxt.Index = n
    <2> DEFINE Q    == call.P
               prec == Q.prec
               r    == NewContext(n, prec)
    <2>1. Q \in Parselet /\ prec \in Nat /\ Q.class \in ClassesFor(F)
      BY <1>2, <1>4, ParseletFields
    <2>2. /\ ctxt = [r EXCEPT !.F = F, !.P = Q]
          /\ r = [F |-> "NULL", P |-> NoParselet, Index |-> n, Prec |-> prec]
      BY DEF NewContext
    <2> HIDE DEF F, n, Q, prec, r, ctxt
    <2>3. ctxt = [F |-> F, P |-> Q, Index |-> n, Prec |-> prec]
      BY <2>2, ReplaceFAndP
    <2> QED  BY <1>3, <1>4, <2>1, <2>3, PlainContext
  <1>6. /\ NodeStack' \in Seq(Node) /\ n + 1 <= Len(NodeStack')
        /\ buffer' \in 0..Len(input)
    BY <1>1, <1>2, OperatorType DEF TakeOperator
  <1>7. call' \in Call /\ call'.fn = "parsePrefix" /\ EndOfFileNotTaken'
    BY <1>1, <1>2, OperatorType, CallPrefix DEF Inv
  <1>8. ContextStack' = Append(ContextStack, ctxt)
    BY <1>1, <1>3
  <1> HIDE DEF ctxt
  <1> QED  BY <1>1, <1>5, <1>6, <1>7, <1>8, EnterOperandStep

LEMMA PrefixStep == Inv /\ PrefixNext => Inv'
  <1> SUFFICES ASSUME Inv, PrefixNext PROVE Inv'
    OBVIOUS
  <1>0. /\ Calling("parsePrefix") =>
             call.tok \in Token /\ call.tok.op \in LeafKinds
        /\ buffer \in 0..Len(input)
    BY ExpectingType, StackTypes
  <1>1. CASE LeafParselet_reduceLeaf
    BY <1>0, <1>1, LeafParseletStep DEF LeafParselet_reduceLeaf, Prefix, PrefixClasses, TakeLeaf
  <1>2. CASE PrefixErrorParselet_parsePrefix
    BY <1>0, <1>2, LeafParseletStep DEF PrefixErrorParselet_parsePrefix, Prefix, PrefixClasses, TakeLeaf
  <1>3. CASE parsePrefix_abort
    BY <1>0, <1>3, AbortNodeType, LeafStep DEF parsePrefix_abort, PushOperandError
  <1>4. CASE PrefixCloserParselet_parsePrefix
    BY <1>0, <1>4, MissingOperandType, LeafParseletStep
       DEF PrefixCloserParselet_parsePrefix, Prefix, PrefixClasses, PushOperandError
  <1>5. CASE PrefixEndOfFileParselet_parsePrefix
    BY <1>0, <1>5, MissingOperandType, TokenIsNode, LeafStep
       DEF PrefixEndOfFileParselet_parsePrefix, Prefix, PushOperandError
  <1>6. CASE PrefixToplevelCloserParselet_parsePrefix
    <2>1. [call.tok EXCEPT !.op = "ERROR_UNEXPECTEDCLOSER"] \in Token
      BY <1>0, <1>6, ReplacedTokenType
         DEF PrefixToplevelCloserParselet_parsePrefix, Prefix, LeafKinds, ParserErrors
    <2> QED  BY <1>6, <2>1, LeafParseletStep
          DEF PrefixToplevelCloserParselet_parsePrefix, Prefix, PrefixClasses, PushOperandError
  <1>7. CASE PrefixUnsupportedTokenParselet_parsePrefix
    <2>1. [call.tok EXCEPT !.op = "ERROR_UNSUPPORTEDTOKEN"] \in Token
      BY <1>0, <1>7, ReplacedTokenType
         DEF PrefixUnsupportedTokenParselet_parsePrefix, Prefix, LeafKinds, ParserErrors
    <2> QED  BY <1>7, <2>1, LeafParseletStep
          DEF PrefixUnsupportedTokenParselet_parsePrefix, Prefix, PrefixClasses, PushOperandError
  <1>8. CASE PrefixCommaParselet_parsePrefix
    <2> DEFINE op == IF Parser_topPrecedence = PRECEDENCE.LOWEST
                     THEN "ERROR_PREFIXIMPLICITNULL" ELSE "ERROR_EXPECTEDOPERAND"
    <2>1. op \in LeafKinds
      BY DEF LeafKinds, ParserErrors
    <2>2. Empty(op, call.tok) \in Token
      <3> HIDE DEF op
      <3> QED  BY <1>0, <1>8, <2>1, EmptyType DEF PrefixCommaParselet_parsePrefix, Prefix
    <2> QED  BY <1>8, <2>2, LeafParseletStep
          DEF PrefixCommaParselet_parsePrefix, Prefix, PrefixClasses
  <1>9. CASE PrefixUnhandledParselet_parsePrefix
    BY <1>9, PrefixUnhandledStep
  <1>10. CASE PrefixOperatorParselet_parsePrefix
    BY <1>10, PrefixOperatorStep
  <1>11. CASE PrefixOperatorParselet_reducePrefixOperator
    BY <1>11, ReduceStepFor DEF PrefixOperatorParselet_reducePrefixOperator, ReduceFns, InnerReduce, NodeKinds
  <1> QED  BY <1>1, <1>2, <1>3, <1>4, <1>5, <1>6, <1>7, <1>8, <1>9, <1>10, <1>11
        DEF PrefixNext

-----------------------------------------------------------------------------
(* Setting the continuation of the top context                             *)

LEMMA ContextWithIs ==
  ASSUME Inv, call.fn \in RunningFns, NEW F
  PROVE  ContextWith(F) = [F |-> F, P |-> Parser_topContext.P,
                           Index |-> Parser_topContext.Index,
                           Prec |-> Parser_topContext.Prec]
  <1> DEFINE ctxt == Parser_topContext
  <1>1. ctxt \in BuildContext
    BY RunningType
  <1> HIDE DEF ctxt
  <1>2. [ctxt EXCEPT !.F = F]
          = [F |-> F, P |-> ctxt.P, Index |-> ctxt.Index, Prec |-> ctxt.Prec]
    BY <1>1, BuildContextFields
  <1> QED  BY <1>2 DEF ContextWith, ctxt

LEMMA ContextWithF ==
  ASSUME Inv, call.fn \in RunningFns, NEW F \in PlainFns, AnyClass(F)
  PROVE  /\ ContextWith(F) \in BuildContext /\ ContextWith(F).F = F
         /\ ContextWith(F).Index = Parser_topContext.Index
  BY RunningType, SetF DEF ContextWith

LEMMA ContextWithFAndP ==
  ASSUME Inv, call.fn \in RunningFns, NEW F \in PlainFns, NEW P \in Parselet,
         P.class \in ClassesFor(F)
  PROVE  /\ [ContextWith(F) EXCEPT !.P = P] \in BuildContext
         /\ [ContextWith(F) EXCEPT !.P = P].F = F
         /\ [ContextWith(F) EXCEPT !.P = P].Index = Parser_topContext.Index
  <1> DEFINE ctxt == Parser_topContext
             E    == ContextWith(F)
             D    == [E EXCEPT !.P = P]
  <1>1. ctxt \in BuildContext
    BY RunningType
  <1>2. E = [F |-> F, P |-> ctxt.P, Index |-> ctxt.Index, Prec |-> ctxt.Prec]
    BY ContextWithIs
  <1>3. ctxt.Index \in Nat /\ ctxt.Prec \in Nat
    BY <1>1, BuildContextFields
  <1> HIDE DEF ctxt, E
  <1>4. D = [F |-> F, P |-> P, Index |-> ctxt.Index, Prec |-> ctxt.Prec]
    BY <1>2
  <1> HIDE DEF D
  <1>5. D \in BuildContext /\ D.F = F /\ D.Index = ctxt.Index
    BY <1>3, <1>4, PlainContext
  <1> QED  BY <1>5 DEF D, E, ctxt

LEMMA ContextWithFAndPrec ==
  ASSUME Inv, call.fn \in RunningFns, NEW F \in PlainFns, AnyClass(F),
         NEW Prec \in Nat
  PROVE  /\ [ContextWith(F) EXCEPT !.Prec = Prec] \in BuildContext
         /\ [ContextWith(F) EXCEPT !.Prec = Prec].F = F
         /\ [ContextWith(F) EXCEPT !.Prec = Prec].Index = Parser_topContext.Index
  BY ContextWithF, SetPrec

-----------------------------------------------------------------------------
(* Infix parselets and their loops                                         *)

LEMMA parseInfix_abortStep == Inv /\ parseInfix_abort => Inv'
  <1> SUFFICES ASSUME Inv, parseInfix_abort PROVE Inv'
    OBVIOUS
  <1>1. /\ Calling("parseInfix") /\ GroupStack' = GroupStack
        /\ NodeStack' = Append(NodesBelow(NodeStack), AbortNode)
        /\ ContextStack' = Pop(ContextStack) /\ Goto("Parser_tryContinue")
        /\ UNCHANGED <<input, buffer, frames, exprs, aborted>>
    BY DEF parseInfix_abort
  <1>2. GroupStack' \in Seq(AnyCloser) /\ call.fn \in RunningFns
    BY <1>1, StackTypes, InfixType
  <1> QED  BY <1>1, <1>2, AbortStep

LEMMA parseLoop_abortStep == Inv /\ parseLoop_abort => Inv'
  <1> SUFFICES ASSUME Inv, parseLoop_abort PROVE Inv'
    OBVIOUS
  <1>1. /\ call.fn \in AbortableLoops /\ GroupStack' = GroupStack
        /\ NodeStack' = Append(NodesBelow(Pop(NodeStack)), AbortNode)
        /\ ContextStack' = Pop(ContextStack) /\ Goto("Parser_tryContinue")
        /\ UNCHANGED <<input, buffer, frames, exprs, aborted>>
    BY DEF parseLoop_abort
  <1>2. call.fn \in RunningFns
    BY <1>1, RunningFnsFacts DEF AbortableLoops, ParseFns, ContextSensitiveFns
  <1>3. GroupStack' \in Seq(AnyCloser)
    BY <1>1, StackTypes
  <1> QED  BY <1>1, <1>2, <1>3, AbortStep

LEMMA BinaryStep == Inv /\ BinaryOperatorParselet_parseInfix => Inv'
  <1> SUFFICES ASSUME Inv, BinaryOperatorParselet_parseInfix PROVE Inv'
    OBVIOUS
  <1> DEFINE F    == "BinaryOperatorParselet_reduceBinaryOperator"
             P    == call.P
             ctxt == [ContextWith(F) EXCEPT !.P = P]
  <1>1. /\ Calling("parseInfix") /\ P.class = "BinaryOperator"
        /\ TakeOperand(call.tok, ctxt)
        /\ UNCHANGED <<input, GroupStack, frames, exprs, aborted>>
    BY DEF BinaryOperatorParselet_parseInfix, Infix
  <1>2. F \in PlainFns /\ P.class \in ClassesFor(F) /\ F \notin {"NULL", "Parser_identity"}
    BY <1>1 DEF PlainFns, ContextFns, ReduceFns, LoopFns, ClassesFor
  <1>3. call.fn \in RunningFns /\ P \in Parselet /\ call.tok \in Token
        /\ call.tok.hi \in 0..Len(input)
    BY <1>1, InfixType
  <1>4. ctxt \in BuildContext /\ ctxt.F = F /\ ctxt.Index = Parser_topContext.Index
    <2> HIDE DEF F, P
    <2> QED  BY <1>2, <1>3, ContextWithFAndP
  <1> HIDE DEF ctxt
  <1> QED  BY <1>1, <1>2, <1>3, <1>4, TakeOperandStep

LEMMA PostfixStep == Inv /\ PostfixOperatorParselet_parseInfix => Inv'
  <1> SUFFICES ASSUME Inv, PostfixOperatorParselet_parseInfix PROVE Inv'
    OBVIOUS
  <1> DEFINE fn == "PostfixOperatorParselet_reducePostfixOperator"
  <1>1. /\ Calling("parseInfix") /\ call.P.class = "PostfixOperator"
        /\ TakeLeaf(call.tok) /\ Jump(fn, call.P, NoToken)
        /\ UNCHANGED <<input, ContextStack, GroupStack, frames, exprs, aborted>>
    BY DEF PostfixOperatorParselet_parseInfix
  <1>2. call.fn \in RunningFns /\ call.P \in Parselet /\ call.tok \in Token
        /\ call.tok.hi \in 0..Len(input)
    BY <1>1, InfixType
  <1>3. /\ NodeStack' \in Seq(Node) /\ Len(NodeStack) <= Len(NodeStack')
        /\ buffer' \in 0..Len(input)
    BY <1>1, <1>2, StackTypes, WithToken DEF TakeLeaf
  <1>4. fn \in ReduceFns \ {InnerReduce} /\ call.P.class \in ClassesFor(fn)
    BY <1>1 DEF ReduceFns, InnerReduce, ClassesFor
  <1>5. /\ call' \in Call /\ call'.fn = fn /\ EndOfFileNotTaken'
        /\ fn \in RunningFns /\ fn \notin LoopFns
    <2> HIDE DEF fn
    <2> QED  BY <1>1, <1>2, <1>4, ReduceFnsRun, JumpToRunning
  <1> HIDE DEF fn
  <1> QED  BY <1>1, <1>2, <1>3, <1>5, StayInContext

LEMMA InfixOperatorStep == Inv /\ InfixOperatorParselet_parseInfix => Inv'
  <1> SUFFICES ASSUME Inv, InfixOperatorParselet_parseInfix PROVE Inv'
    OBVIOUS
  <1> DEFINE loop == "InfixOperatorParselet_parseLoop"
  <1>1. /\ Calling("parseInfix") /\ call.P.class = "InfixOperator"
        /\ TakeOperand(call.tok, LoopContext(loop, call.P)) /\ LoopCall(loop, call.P)
        /\ UNCHANGED <<input, GroupStack, exprs, aborted>>
    BY DEF InfixOperatorParselet_parseInfix, Infix
  <1>2. call.fn \in RunningFns /\ call.P \in Parselet /\ call.tok \in Token
        /\ call.tok.hi \in 0..Len(input)
    BY <1>1, InfixType
  <1>3. loop \in LoopFns /\ call.P.class \in ClassesFor(loop)
    BY <1>1 DEF LoopFns, ClassesFor
  <1> HIDE DEF loop
  <1> QED  BY <1>1, <1>2, <1>3, TakeLoopOperandStep

\* The operator of the loop is not INTERNALINVALID, that of the end of the
\* file is.
LEMMA InfixLoopStep == Inv /\ InfixOperatorParselet_parseLoop => Inv'
  <1> SUFFICES ASSUME Inv, InfixOperatorParselet_parseLoop PROVE Inv'
    OBVIOUS
  <1> DEFINE loop == "InfixOperatorParselet_parseLoop"
             q    == TriviaEnd(buffer)
             Tok1 == Tokenizer_currentToken(q)
             fn   == "InfixOperatorParselet_reduceInfixOperator"
  <1>1. /\ Calling(loop) /\ UNCHANGED <<input, GroupStack, exprs, aborted>>
        /\ \/ EndLoop(q, fn)
           \/ /\ getOp(infixParselets[Tok1.op]) = call.P.op
              /\ ContinueLoop(q, Tok1, loop)
    BY DEF InfixOperatorParselet_parseLoop, Looping
  <1>2. loop \in LoopFns /\ call.fn = loop /\ call.fn \in RunningFns
    BY <1>1, RunningFnsFacts DEF LoopFns, Calling
  <1>3. q \in buffer..Len(input) /\ Tok1 \in Token
        /\ (Tok1.op # "ENDOFFILE" => Tok1.hi \in 0..Len(input))
    BY StackTypes, TriviaEndType, TokenAt
  <1>4. call.P \in Parselet /\ call.P.class = "InfixOperator"
    BY <1>1, StackTypes, CallFields DEF Calling, ClassesFor
  <1>5. CASE EndLoop(q, fn)
    <2>1. fn \in ReduceFns \ {InnerReduce} /\ call.P.class \in ClassesFor(fn)
      BY <1>4 DEF ReduceFns, InnerReduce, ClassesFor
    <2> HIDE DEF fn, q
    <2> QED  BY <1>1, <1>2, <1>3, <1>5, <2>1, EndLoopStep
  <1>6. CASE /\ getOp(infixParselets[Tok1.op]) = call.P.op
             /\ ContinueLoop(q, Tok1, loop)
    <2>1. Tok1.op # "ENDOFFILE"
      BY <1>4, <1>6, ParseletFields, EndOfFileAssumption DEF getOp, New
    <2> HIDE DEF loop, q, Tok1
    <2> QED  BY <1>1, <1>2, <1>3, <1>6, <2>1, ContinueLoopStep
  <1> QED  BY <1>1, <1>5, <1>6

LEMMA FreeLoops ==
  ASSUME NEW loop \in {"TimesParselet_parseLoop", "CommaParselet_parseLoop",
                       "SemiParselet_parseLoop"}
  PROVE  /\ loop \in LoopFns /\ AnyClass(loop) /\ loop \in RunningFns \ TakingFns
         /\ NoParselet \in Parselet /\ NoParselet.class \in ClassesFor(loop)
  <1>1. loop \in LoopFns /\ AnyClass(loop)
    BY DEF LoopFns, AnyClass, ClassesFor
  <1> QED  BY <1>1, NoParseletType, AnyParseletIs, LoopsRun

LEMMA TimesInfixStep == Inv /\ TimesParselet_parseInfix => Inv'
  <1> SUFFICES ASSUME Inv, TimesParselet_parseInfix PROVE Inv'
    OBVIOUS
  <1> DEFINE loop == "TimesParselet_parseLoop"
  <1>1. /\ Calling("parseInfix")
        /\ TakeOperand(call.tok, LoopContext(loop, NoParselet)) /\ LoopCall(loop, NoParselet)
        /\ UNCHANGED <<input, GroupStack, exprs, aborted>>
    BY DEF TimesParselet_parseInfix, Infix
  <1>2. call.fn \in RunningFns /\ call.tok \in Token /\ call.tok.hi \in 0..Len(input)
    BY <1>1, InfixType
  <1>3. loop \in LoopFns /\ NoParselet \in Parselet /\ NoParselet.class \in ClassesFor(loop)
    BY FreeLoops
  <1> HIDE DEF loop
  <1> QED  BY <1>1, <1>2, <1>3, TakeLoopOperandStep

LEMMA TimesLoopEndType ==
  ASSUME Inv
  PROVE  TimesLoopEnd \in buffer..Len(input) /\ TimesLoopEnd \in 0..Len(input)
  <1> DEFINE first == TriviaEnd(buffer)
             back  == TriviaSeq_reset(first, TriviaTokens(buffer, first))
  <1>1. first \in buffer..Len(input)
    BY StackTypes, TriviaEndType
  <1>2. back = buffer
    <2> HIDE DEF first
    <2> QED  BY <1>1, StackTypes, TriviaResetType
  <1>3. TriviaButNotToplevelNewlinesEnd(back) \in buffer..Len(input)
    <2> HIDE DEF back
    <2> QED  BY <1>2, StackTypes, TriviaEndType
  <1>4. TimesLoopEnd \in buffer..Len(input)
    BY <1>1, <1>3 DEF TimesLoopEnd
  <1> HIDE DEF first, back
  <1> QED  BY <1>4, StackTypes

\* Only a token that is not the end of the file is a product's operator.
LEMMA TimesAtType ==
  ASSUME Inv, NEW p \in 0..Len(input), infixParselets[TimesAt(p).op].class = "Times"
  PROVE  TimesAt(p) \in Token /\ TimesAt(p).hi \in 0..Len(input)
  <1> DEFINE t == Tokenizer_currentToken(p)
             u == TimesAt(p)
  <1>1. /\ u \in Token
        /\ t.op = "ENDOFFILE" => u = t
        /\ t.op # "ENDOFFILE" => u.hi \in 0..Len(input)
    BY processImplicitTimesType DEF TimesAt
  <1>2. u.op # "ENDOFFILE"
    BY EndOfFileAssumption DEF New
  <1> HIDE DEF t, u
  <1>3. t.op # "ENDOFFILE"
    BY <1>1, <1>2
  <1> QED  BY <1>1, <1>3 DEF u

LEMMA TimesLoopStep == Inv /\ TimesParselet_parseLoop => Inv'
  <1> SUFFICES ASSUME Inv, TimesParselet_parseLoop PROVE Inv'
    OBVIOUS
  <1> DEFINE loop == "TimesParselet_parseLoop"
             q    == TimesLoopEnd
             t    == TimesAt(q)
             fn   == "TimesParselet_reduceTimes"
  <1>1. /\ Calling(loop) /\ UNCHANGED <<input, GroupStack, exprs, aborted>>
        /\ \/ EndLoop(q, fn)
           \/ infixParselets[t.op].class = "Times" /\ ContinueLoop(q, t, loop)
    BY DEF TimesParselet_parseLoop, Looping
  <1>2. loop \in LoopFns /\ call.fn = loop /\ call.fn \in RunningFns
    BY <1>1, FreeLoops DEF Calling
  <1>3. q \in buffer..Len(input) /\ q \in 0..Len(input)
    BY TimesLoopEndType
  <1>4. CASE EndLoop(q, fn)
    <2>1. fn \in ReduceFns \ {InnerReduce} /\ AnyClass(fn)
      BY DEF ReduceFns, InnerReduce, ClassesFor, AnyClass
    <2>2. call.P.class \in ClassesFor(fn)
      BY <2>1, StackTypes, CallFields, AnyParseletIs
    <2> HIDE DEF fn, q
    <2> QED  BY <1>1, <1>2, <1>3, <1>4, <2>1, <2>2, EndLoopStep
  <1>5. CASE infixParselets[t.op].class = "Times" /\ ContinueLoop(q, t, loop)
    <2>1. t \in Token /\ t.hi \in 0..Len(input)
      BY <1>3, <1>5, TimesAtType
    <2> HIDE DEF loop, q, t
    <2> QED  BY <1>1, <1>2, <1>3, <1>5, <2>1, ContinueLoopStep
  <1> QED  BY <1>1, <1>4, <1>5

-----------------------------------------------------------------------------
(* Commas and semicolons                                                   *)

LEMMA ImplicitOperandType ==
  ASSUME NEW kind \in LeafKinds, NEW t \in Token, NEW nodes \in Seq(Node),
         NEW loop \in {"CommaParselet_parseLoop", "SemiParselet_parseLoop"},
         ImplicitOperand(kind, t, nodes, loop)
  PROVE  /\ NodeStack' \in Seq(Node) /\ Len(NodeStack') = Len(nodes) + 1
         /\ call' \in Call /\ call'.fn = loop /\ EndOfFileNotTaken'
         /\ loop \in LoopFns /\ loop \in RunningFns
  <1>1. NodeStack' \in Seq(Node) /\ Len(NodeStack') = Len(nodes) + 1
    BY EmptyType, WithToken DEF ImplicitOperand
  <1>2. /\ loop \in RunningFns \ TakingFns /\ loop \in LoopFns
        /\ NoParselet \in Parselet /\ NoParselet.class \in ClassesFor(loop)
    BY FreeLoops
  <1> QED  BY <1>1, <1>2, JumpToRunning DEF ImplicitOperand

LEMMA ImplicitKinds == {"ERROR_INFIXIMPLICITNULL", "FAKE_IMPLICITNULL"} \subseteq LeafKinds
  BY DEF LeafKinds, ParserErrors, Fakes

LEMMA CommaInfixStep == Inv /\ CommaParselet_parseInfix => Inv'
  <1> SUFFICES ASSUME Inv, CommaParselet_parseInfix PROVE Inv'
    OBVIOUS
  <1> DEFINE loop == "CommaParselet_parseLoop"
             Tok2 == AfterOperator(call.tok)
             ctxt == LoopContext(loop, NoParselet)
  <1>1. /\ Calling("parseInfix") /\ buffer' = Tok2.lo /\ ContextStack' = TopContext(ctxt)
        /\ UNCHANGED <<input, GroupStack, exprs, aborted>>
    BY DEF CommaParselet_parseInfix, Infix
  <1>2. call.fn \in RunningFns /\ call.tok \in Token /\ call.tok.hi \in 0..Len(input)
    BY <1>1, InfixType
  <1>3. loop \in LoopFns /\ NoParselet \in Parselet /\ NoParselet.class \in ClassesFor(loop)
    BY FreeLoops
  <1>4. /\ WithOperator(call.tok) \in Seq(Node)
        /\ Len(NodeStack) + 1 <= Len(WithOperator(call.tok))
        /\ Tok2 \in Token /\ Tok2.lo = TriviaEnd(call.tok.hi) /\ Tok2.lo \in 0..Len(input)
    BY <1>2, OperatorType
  <1>5. CASE /\ ImplicitOperand("ERROR_INFIXIMPLICITNULL", Tok2,
                                WithOperator(call.tok), loop)
             /\ UNCHANGED frames
    <2>1. /\ NodeStack' \in Seq(Node)
          /\ Len(NodeStack') = Len(WithOperator(call.tok)) + 1
          /\ call' \in Call /\ call'.fn = loop /\ EndOfFileNotTaken' /\ loop \in RunningFns
      BY <1>4, <1>5, ImplicitOperandType, ImplicitKinds
    <2>2. Len(NodeStack) <= Len(NodeStack')
      BY <1>4, <2>1, StackTypes
    <2>3. ctxt \in BuildContext /\ ctxt.F = LoopF(loop)
          /\ ctxt.Index = Parser_topContext.Index
      BY <1>2, <1>3, RunningType, LoopContextType
    <2> HIDE DEF loop, ctxt, Tok2
    <2> QED  BY <1>1, <1>2, <1>4, <1>5, <2>1, <2>2, <2>3, StayStep
  <1>6. CASE /\ NodeStack' = WithOperator(call.tok)
             /\ ParsePrefix(Tok2)
             /\ LoopCall(loop, NoParselet)
    <2>1. TakeOperand(call.tok, ctxt)
      BY <1>1, <1>4, <1>6 DEF TakeOperand, TakeOperator
    <2> HIDE DEF loop
    <2> QED  BY <1>1, <1>2, <1>3, <1>6, <2>1, TakeLoopOperandStep
  <1> QED  BY <1>5, <1>6 DEF CommaParselet_parseInfix

LEMMA CommaLoopStep == Inv /\ CommaParselet_parseLoop => Inv'
  <1> SUFFICES ASSUME Inv, CommaParselet_parseLoop PROVE Inv'
    OBVIOUS
  <1> DEFINE loop  == "CommaParselet_parseLoop"
             q     == TriviaEnd(buffer)
             Tok1  == Tokenizer_currentToken(q)
             Tok2  == AfterOperator(Tok1)
             nodes == NodeStack \o TriviaTokens(buffer, q) \o <<Tok1>>
                        \o TriviaTokens(Tok1.hi, Tok2.lo)
             fn    == "CommaParselet_reduceComma"
  <1>1. /\ Calling(loop) /\ UNCHANGED <<input, GroupStack, exprs, aborted>>
        /\ \/ EndLoop(q, fn)
           \/ /\ Tok1.op \in Commas
              /\ ImplicitOperand("ERROR_INFIXIMPLICITNULL", Tok2, nodes, loop)
              /\ buffer' = Tok2.lo
              /\ UNCHANGED <<ContextStack, frames>>
           \/ Tok1.op \in Commas /\ ContinueLoop(q, Tok1, loop)
    BY DEF CommaParselet_parseLoop, Looping
  <1>2. loop \in LoopFns /\ call.fn = loop /\ call.fn \in RunningFns
    BY <1>1, FreeLoops DEF Calling
  <1>3. q \in buffer..Len(input) /\ Tok1 \in Token
        /\ (Tok1.op # "ENDOFFILE" => Tok1.hi \in 0..Len(input))
    BY StackTypes, TriviaEndType, TokenAt
  <1>4. CASE EndLoop(q, fn)
    <2>1. fn \in ReduceFns \ {InnerReduce} /\ AnyClass(fn)
      BY DEF ReduceFns, InnerReduce, ClassesFor, AnyClass
    <2>2. call.P.class \in ClassesFor(fn)
      BY <2>1, StackTypes, CallFields, AnyParseletIs
    <2> HIDE DEF fn, q
    <2> QED  BY <1>1, <1>2, <1>3, <1>4, <2>1, <2>2, EndLoopStep
  <1>5. CASE /\ Tok1.op \in Commas
             /\ ImplicitOperand("ERROR_INFIXIMPLICITNULL", Tok2, nodes, loop)
             /\ buffer' = Tok2.lo
             /\ UNCHANGED <<ContextStack, frames>>
    <2>1. Tok1.hi \in 0..Len(input)
      BY <1>3, <1>5 DEF Commas
    <2>2. /\ Tok2 \in Token /\ Tok2.lo = TriviaEnd(Tok1.hi) /\ Tok2.lo \in 0..Len(input)
          /\ Tok2.lo \in (Tok1.hi)..Len(input)
      <3> HIDE DEF Tok1
      <3> QED  BY <1>3, <2>1, OperatorType, TriviaEndType
    <2>3. nodes \in Seq(Node) /\ Len(NodeStack) <= Len(nodes)
      <3> HIDE DEF q, Tok1, Tok2
      <3> QED  BY <1>3, <2>1, <2>2, OperatorInLoop
    <2> HIDE DEF q, Tok1, Tok2, nodes
    <2>4. /\ NodeStack' \in Seq(Node) /\ Len(NodeStack') = Len(nodes) + 1
          /\ call' \in Call /\ call'.fn = loop /\ EndOfFileNotTaken'
      BY <1>5, <2>2, <2>3, ImplicitOperandType, ImplicitKinds
    <2>5. Len(NodeStack) <= Len(NodeStack')
      BY <2>3, <2>4, StackTypes
    <2> HIDE DEF loop
    <2> QED  BY <1>1, <1>2, <1>5, <2>2, <2>4, <2>5, StayInContext
  <1>6. CASE Tok1.op \in Commas /\ ContinueLoop(q, Tok1, loop)
    <2>1. Tok1.op # "ENDOFFILE"
      BY <1>6 DEF Commas
    <2> HIDE DEF loop, q, Tok1
    <2> QED  BY <1>1, <1>2, <1>3, <1>6, <2>1, ContinueLoopStep
  <1> QED  BY <1>1, <1>4, <1>5, <1>6

\* What follows a semicolon; ctxt is the top context then.
LEMMA AfterSemiStep ==
  ASSUME Inv, call.fn \in RunningFns, NEW nodes \in Seq(Node),
         Len(NodeStack) <= Len(nodes), NEW q \in 0..Len(input),
         AfterSemi(nodes, Tokenizer_currentToken(q)), NEW ctxt \in BuildContext,
         ctxt.Index = Parser_topContext.Index, ContextStack' = TopContext(ctxt),
         Tokenizer_currentToken(q).op \in PossibleBeginning \union {"SEMI"} =>
           ctxt.F = LoopF("SemiParselet_parseLoop"),
         UNCHANGED <<input, GroupStack, exprs, aborted>>
  PROVE  Inv'
  <1> DEFINE t    == Tokenizer_currentToken(q)
             loop == "SemiParselet_parseLoop"
             fn   == "SemiParselet_reduceCompoundExpression"
  <1>1. t \in Token /\ t.lo = q
    BY TokenAt
  <1>2. buffer' \in 0..Len(input)
    BY <1>1 DEF AfterSemi
  <1>3. \/ /\ t.op = "SEMI"
           /\ ImplicitOperand("FAKE_IMPLICITNULL", t, nodes, loop)
           /\ UNCHANGED frames
        \/ /\ t.op \in PossibleBeginning
           /\ NodeStack' = nodes /\ ParsePrefix(t) /\ LoopCall(loop, NoParselet)
        \/ /\ NodeStack' = Append(nodes, Empty("FAKE_IMPLICITNULL", t))
           /\ Goto(fn) /\ UNCHANGED frames
    <2> HIDE DEF t
    <2> QED  BY DEF AfterSemi, t
  <1>4. Len(nodes) \in Nat /\ Len(NodeStack) \in Nat
    BY StackTypes
  <1>5. CASE /\ t.op = "SEMI"
             /\ ImplicitOperand("FAKE_IMPLICITNULL", t, nodes, loop)
             /\ UNCHANGED frames
    <2> HIDE DEF t
    <2>1. /\ NodeStack' \in Seq(Node) /\ Len(NodeStack') = Len(nodes) + 1
          /\ call' \in Call /\ call'.fn = loop /\ EndOfFileNotTaken' /\ loop \in RunningFns
      BY <1>1, <1>5, ImplicitOperandType, ImplicitKinds
    <2>2. Len(NodeStack) <= Len(NodeStack')
      BY <1>4, <2>1
    <2>3. ctxt.F = LoopF(loop)
      BY <1>5 DEF t
    <2> HIDE DEF loop
    <2> QED  BY <1>2, <1>5, <2>1, <2>2, <2>3, StayStep
  <1>6. CASE /\ t.op \in PossibleBeginning
             /\ NodeStack' = nodes /\ ParsePrefix(t) /\ LoopCall(loop, NoParselet)
    <2>1. call' \in Call /\ call'.fn = "parsePrefix" /\ EndOfFileNotTaken'
      BY <1>6, CallPrefix DEF Inv
    <2>2. ctxt.F = LoopF(loop)
      BY <1>6
    <2>3. loop \in LoopFns /\ NoParselet \in Parselet /\ NoParselet.class \in ClassesFor(loop)
      BY FreeLoops
    <2> HIDE DEF loop, t
    <2> QED  BY <1>2, <1>6, <2>1, <2>2, <2>3, LoopOperandStep
  <1>7. CASE /\ NodeStack' = Append(nodes, Empty("FAKE_IMPLICITNULL", t))
             /\ Goto(fn) /\ UNCHANGED frames
    <2> HIDE DEF t
    <2>1. NodeStack' \in Seq(Node) /\ Len(NodeStack') = Len(nodes) + 1
      BY <1>1, <1>7, ImplicitKinds, EmptyType, WithToken
    <2>2. Len(NodeStack) <= Len(NodeStack')
      BY <1>4, <2>1
    <2>3. fn \in ReduceFns \ {InnerReduce} /\ AnyClass(fn)
      BY DEF ReduceFns, InnerReduce, ClassesFor, AnyClass
    <2> HIDE DEF fn
    <2>4. /\ call' \in Call /\ call'.fn = fn /\ EndOfFileNotTaken'
          /\ fn \in RunningFns /\ fn \notin LoopFns
      BY <1>7, <2>3, ReduceFnsRun, GotoRunning
    <2> QED  BY <1>2, <1>7, <2>1, <2>2, <2>4, StayStep
  <1> QED  BY <1>3, <1>5, <1>6, <1>7

LEMMA SemiInfixStep == Inv /\ SemiParselet_parseInfix => Inv'
  <1> SUFFICES ASSUME Inv, SemiParselet_parseInfix PROVE Inv'
    OBVIOUS
  <1> DEFINE t     == call.tok
             q     == TriviaButNotToplevelNewlinesEnd(t.hi)
             Tok2  == Tokenizer_currentToken(q)
             nodes == Append(NodeStack, t) \o TriviaTokens(t.hi, q)
             loop  == "SemiParselet_parseLoop"
             ctxt  == LoopContext(loop, NoParselet)
  <1>1. /\ Calling("parseInfix") /\ AfterSemi(nodes, Tok2)
        /\ UNCHANGED <<input, GroupStack, exprs, aborted>>
        /\ IF Tok2.op \in PossibleBeginning \union {"SEMI"}
           THEN ContextStack' = TopContext(ctxt) ELSE UNCHANGED ContextStack
    BY DEF SemiParselet_parseInfix, Infix
  <1>2. call.fn \in RunningFns /\ t \in Token /\ t.hi \in 0..Len(input)
    BY <1>1, InfixType
  <1>3. q \in (t.hi)..Len(input) /\ q \in 0..Len(input)
    BY <1>2, TriviaEndType
  <1>4. nodes \in Seq(Node) /\ Len(NodeStack) <= Len(nodes)
    <2> DEFINE s == Append(NodeStack, t)
    <2>1. s \in Seq(Node) /\ Len(s) = Len(NodeStack) + 1
      BY <1>2, StackTypes, WithToken
    <2> HIDE DEF s, q
    <2>2. s \o TriviaTokens(t.hi, q) \in Seq(Node) /\ Len(s) <= Len(s \o TriviaTokens(t.hi, q))
      BY <1>2, <1>3, <2>1, WithTrivia
    <2>3. Len(NodeStack) \in Nat /\ Len(s \o TriviaTokens(t.hi, q)) \in Nat
      BY <2>2, StackTypes
    <2> QED  BY <2>1, <2>2, <2>3 DEF s
  <1>5. CASE Tok2.op \in PossibleBeginning \union {"SEMI"}
    <2>1. ctxt \in BuildContext /\ ctxt.F = LoopF(loop)
          /\ ctxt.Index = Parser_topContext.Index
      BY <1>2, FreeLoops, RunningType, LoopContextType
    <2> HIDE DEF q, nodes, ctxt
    <2> QED  BY <1>1, <1>2, <1>3, <1>4, <1>5, <2>1, AfterSemiStep
  <1>6. CASE Tok2.op \notin PossibleBeginning \union {"SEMI"}
    <2> DEFINE top == Parser_topContext
    <2>1. top \in BuildContext /\ ContextStack' = TopContext(top)
      BY <1>1, <1>2, <1>6, RunningType, UnchangedTop
    <2>2. top.Index = Parser_topContext.Index
      OBVIOUS
    <2> HIDE DEF q, nodes, top
    <2> QED  BY <1>1, <1>2, <1>3, <1>4, <1>6, <2>1, <2>2, AfterSemiStep
  <1> QED  BY <1>5, <1>6

LEMMA SemiLoopStep == Inv /\ SemiParselet_parseLoop => Inv'
  <1> SUFFICES ASSUME Inv, SemiParselet_parseLoop PROVE Inv'
    OBVIOUS
  <1> DEFINE loop  == "SemiParselet_parseLoop"
             q     == TriviaEnd(buffer)
             Tok1  == Tokenizer_currentToken(q)
             r     == TriviaButNotToplevelNewlinesEnd(Tok1.hi)
             nodes == NodeStack \o TriviaTokens(buffer, q) \o <<Tok1>>
                        \o TriviaTokens(Tok1.hi, r)
             fn    == "SemiParselet_reduceCompoundExpression"
  <1>1. /\ Calling(loop) /\ UNCHANGED <<input, GroupStack, exprs, aborted>>
        /\ \/ EndLoop(q, fn)
           \/ /\ Tok1.op = "SEMI"
              /\ AfterSemi(nodes, Tokenizer_currentToken(r))
              /\ UNCHANGED ContextStack
    BY DEF SemiParselet_parseLoop, Looping
  <1>2. loop \in LoopFns /\ call.fn = loop /\ call.fn \in RunningFns
    BY <1>1, FreeLoops DEF Calling
  <1>3. q \in buffer..Len(input) /\ Tok1 \in Token
        /\ (Tok1.op # "ENDOFFILE" => Tok1.hi \in 0..Len(input))
    BY StackTypes, TriviaEndType, TokenAt
  <1>4. CASE EndLoop(q, fn)
    <2>1. fn \in ReduceFns \ {InnerReduce} /\ AnyClass(fn)
      BY DEF ReduceFns, InnerReduce, ClassesFor, AnyClass
    <2>2. call.P.class \in ClassesFor(fn)
      BY <2>1, StackTypes, CallFields, AnyParseletIs
    <2> HIDE DEF fn, q
    <2> QED  BY <1>1, <1>2, <1>3, <1>4, <2>1, <2>2, EndLoopStep
  <1>5. CASE /\ Tok1.op = "SEMI"
             /\ AfterSemi(nodes, Tokenizer_currentToken(r))
             /\ UNCHANGED ContextStack
    <2>1. Tok1.hi \in 0..Len(input)
      BY <1>3, <1>5
    <2>2. r \in (Tok1.hi)..Len(input) /\ r \in 0..Len(input)
      <3> HIDE DEF Tok1
      <3> QED  BY <2>1, TriviaEndType
    <2>3. nodes \in Seq(Node) /\ Len(NodeStack) <= Len(nodes)
      <3> HIDE DEF q, Tok1, r
      <3> QED  BY <1>3, <2>1, <2>2, OperatorInLoop
    <2> DEFINE top == Parser_topContext
    <2>4. top \in BuildContext /\ ContextStack' = TopContext(top)
      BY <1>2, <1>5, RunningType, UnchangedTop
    <2>5. top.F = LoopF(loop) /\ top.Index = Parser_topContext.Index
      BY <1>2 DEF Inv, LoopsInPlace
    <2> HIDE DEF q, r, Tok1, nodes, top
    <2> QED  BY <1>1, <1>2, <1>5, <2>2, <2>3, <2>4, <2>5, AfterSemiStep
  <1> QED  BY <1>1, <1>4, <1>5

LEMMA OperatorStep == Inv /\ OperatorNext => Inv'
  <1> SUFFICES ASSUME Inv, OperatorNext PROVE Inv'
    OBVIOUS
  <1>1. CASE BinaryOperatorParselet_reduceBinaryOperator
    BY <1>1, ReduceStepFor DEF BinaryOperatorParselet_reduceBinaryOperator,
       ReduceFns, InnerReduce, NodeKinds
  <1>2. CASE PostfixOperatorParselet_reducePostfixOperator
    BY <1>2, ReduceStepFor DEF PostfixOperatorParselet_reducePostfixOperator,
       ReduceFns, InnerReduce, NodeKinds
  <1>3. CASE InfixOperatorParselet_reduceInfixOperator
    BY <1>3, ReduceStepFor DEF InfixOperatorParselet_reduceInfixOperator,
       ReduceFns, InnerReduce, NodeKinds
  <1>4. CASE TimesParselet_reduceTimes
    BY <1>4, ReduceStepFor DEF TimesParselet_reduceTimes, ReduceFns, InnerReduce,
       NodeKinds, Ops
  <1>5. CASE CommaParselet_reduceComma
    BY <1>5, StackTypes, ReduceStep DEF CommaParselet_reduceComma, ReduceFns,
       InnerReduce, NodeKinds, Ops
  <1>6. CASE SemiParselet_reduceCompoundExpression
    BY <1>6, ReduceStepFor DEF SemiParselet_reduceCompoundExpression, ReduceFns,
       InnerReduce, NodeKinds, Ops
  <1> QED  BY <1>1, <1>2, <1>3, <1>4, <1>5, <1>6, parseInfix_abortStep,
       parseLoop_abortStep, BinaryStep, PostfixStep, InfixOperatorStep, InfixLoopStep,
       TimesInfixStep, TimesLoopStep, CommaInfixStep, CommaLoopStep, SemiInfixStep,
       SemiLoopStep DEF OperatorNext

-----------------------------------------------------------------------------
(* Groups and calls                                                        *)

\* The precedences are numbers.
LEMMA Precedences ==
  /\ PRECEDENCE.LOWEST \in Nat /\ PRECEDENCE.HIGHEST \in Nat
  /\ PRECEDENCE.TILDE \in Nat /\ PRECEDENCE.EQUAL \in Nat
  /\ PRECEDENCE.FAKE_PATTERNCOLON \in Nat /\ PRECEDENCE.FAKE_OPTIONALCOLON \in Nat
  /\ PRECEDENCE.SEMISEMI \in Nat /\ PRECEDENCE.CLASS_INTEGRATIONOPERATORS \in Nat
  BY DEF PRECEDENCE

LEMMA GroupLoop ==
  /\ "GroupParselet_parseLoop" \in LoopFns
  /\ "GroupParselet_parseLoop" \in RunningFns \ TakingFns
  /\ ClassesFor("GroupParselet_parseLoop") = {"Group"}
  <1>1. "GroupParselet_parseLoop" \in LoopFns
    BY DEF LoopFns
  <1> QED  BY <1>1, LoopsRun DEF ClassesFor

LEMMA GroupPrefixStep == Inv /\ GroupParselet_parsePrefix => Inv'
  <1> SUFFICES ASSUME Inv, GroupParselet_parsePrefix PROVE Inv'
    OBVIOUS
  <1> DEFINE t    == call.tok
             P    == call.P
             loop == "GroupParselet_parseLoop"
             n    == Len(Append(NodeStack, t)) - 1
             r    == NewContext(n, PRECEDENCE.LOWEST)
             ctxt == IF USE_MUSTTAIL THEN [r EXCEPT !.F = loop, !.P = P]
                                     ELSE [r EXCEPT !.F = "Parser_identity"]
             clsr == GroupOpenerToCloser(t.op)
  <1>1. /\ Calling("parsePrefix") /\ P.class = "Group" /\ TakeLeaf(t)
        /\ GroupStack' = Append(GroupStack, clsr)
        /\ ContextStack' = Append(ContextStack, ctxt)
        /\ Jump(loop, P, NoToken)
        /\ UNCHANGED <<input, frames, exprs, aborted>>
    BY DEF GroupParselet_parsePrefix, Prefix
  <1>2. t \in Token /\ t.hi \in 0..Len(input) /\ P \in Parselet
    BY <1>1, ExpectingType, PrefixTokenInside
  <1>3. /\ NodeStack' \in Seq(Node) /\ Len(NodeStack') = Len(NodeStack) + 1
        /\ buffer' \in 0..Len(input) /\ n = Len(NodeStack) /\ n \in Nat
    BY <1>1, <1>2, StackTypes, WithToken DEF TakeLeaf
  <1>4. GroupStack' \in Seq(AnyCloser)
    <2>1. clsr \in AnyCloser
      BY DEF GroupOpenerToCloser, AnyCloser, Closers
    <2> HIDE DEF clsr
    <2> QED  BY <1>1, <2>1, StackTypes
  <1>5. ctxt \in BuildContext /\ ctxt.F = LoopF(loop) /\ ctxt.Index = n
    <2>1. r = [F |-> "NULL", P |-> NoParselet, Index |-> n, Prec |-> 0]
      BY DEF NewContext, PRECEDENCE
    <2>2. NoParselet \in Parselet /\ NoParselet.class \in ClassesFor("Parser_identity")
          /\ P.class \in ClassesFor(loop) /\ loop \in ContextFns
          /\ "Parser_identity" \in ContextFns
      <3>1. AnyClass("Parser_identity")
        BY DEF AnyClass, ClassesFor
      <3> QED  BY <1>1, <3>1, GroupLoop, NoParseletType, AnyParseletIs DEF ContextFns
    <2>3. CASE USE_MUSTTAIL
      <3>1. ctxt = [r EXCEPT !.F = loop, !.P = P]
        BY <2>3
      <3> HIDE DEF n, r, ctxt, P
      <3>2. ctxt = [F |-> loop, P |-> P, Index |-> n, Prec |-> 0]
        BY <2>1, <3>1, ReplaceFAndP
      <3>3. ctxt \in Context
        BY <1>2, <1>3, <2>2, <3>2, ContextIntro
      <3>4. ctxt.F = loop /\ ctxt.Index = n
        BY <3>2
      <3> QED  BY <2>3, <3>3, <3>4 DEF BuildContext, HasFOfBuild, LoopF
    <2>4. CASE ~USE_MUSTTAIL
      <3>1. ctxt = [r EXCEPT !.F = "Parser_identity"]
        BY <2>4
      <3> HIDE DEF n, r, ctxt, P
      <3>2. ctxt = [F |-> "Parser_identity", P |-> NoParselet, Index |-> n, Prec |-> 0]
        BY <2>1, <3>1
      <3>3. ctxt \in Context
        BY <1>3, <2>2, <3>2, ContextIntro
      <3>4. ctxt.F = "Parser_identity" /\ ctxt.Index = n
        BY <3>2
      <3>5. "Parser_identity" \notin LoopFns
        BY DEF LoopFns
      <3> QED  BY <2>4, <3>3, <3>4, <3>5 DEF BuildContext, HasFOfBuild, LoopF
    <2> QED  BY <2>3, <2>4
  <1>6. call' \in Call /\ call'.fn = loop /\ EndOfFileNotTaken' /\ loop \in RunningFns
    <2>1. P.class \in ClassesFor(loop) /\ loop \in RunningFns \ TakingFns
      BY <1>1, GroupLoop
    <2> HIDE DEF loop, P
    <2> QED  BY <1>1, <1>2, <2>1, JumpToRunning
  <1>7. Len(NodeStack) + 1 <= Len(NodeStack') /\ ctxt.Index = Len(NodeStack)
    BY <1>3, <1>5, StackTypes
  <1> HIDE DEF loop, ctxt
  <1> QED  BY <1>1, <1>3, <1>4, <1>5, <1>6, <1>7, EnterStep

LEMMA ParseInGroupStep ==
  ASSUME Inv, Calling("GroupParselet_parseLoop"), NEW q \in buffer..Len(input),
         NEW P, NEW t, ParseInGroup(q, P, t), call' \in Call,
         call'.fn = "parsePrefix", EndOfFileNotTaken',
         UNCHANGED <<input, GroupStack, exprs, aborted>>
  PROVE  Inv'
  <1> DEFINE loop == "GroupParselet_parseLoop"
  <1>1. /\ NodeStack' = NodeStack \o TriviaTokens(buffer, q) /\ buffer' = q
        /\ LoopCall(loop, call.P) /\ UNCHANGED ContextStack
    BY DEF ParseInGroup
  <1>2. /\ NodeStack' \in Seq(Node) /\ Len(NodeStack) <= Len(NodeStack')
        /\ buffer' \in 0..Len(input)
    BY <1>1, StackTypes, WithTrivia
  <1>3. loop \in LoopFns /\ call.fn = loop /\ call.P \in Parselet
        /\ call.P.class \in ClassesFor(loop)
    BY GroupLoop, StackTypes, CallFields DEF Calling
  <1> HIDE DEF loop
  <1> QED  BY <1>1, <1>2, <1>3, AgainStep

LEMMA GroupLoopStep == Inv /\ GroupParselet_parseLoop => Inv'
  <1> SUFFICES ASSUME Inv, GroupParselet_parseLoop PROVE Inv'
    OBVIOUS
  <1> DEFINE loop == "GroupParselet_parseLoop"
             q    == TriviaEnd(buffer)
             Tok  == Tokenizer_currentToken(q)
             fn   == "GroupParselet_reduceGroup"
             miss == "GroupParselet_reduceMissingCloser"
             unt  == "GroupParselet_reduceUnterminatedGroup"
  <1>1. Calling(loop) /\ UNCHANGED <<input, GroupStack, exprs, aborted>>
    BY DEF GroupParselet_parseLoop, Looping
  <1>2. /\ loop \in LoopFns /\ call.fn = loop /\ call.fn \in RunningFns
        /\ call.P \in Parselet /\ call.P.class = "Group" /\ call.P.closer \in Closers
    BY <1>1, GroupLoop, StackTypes, CallFields, ParseletFields DEF Calling
  <1>3. q \in buffer..Len(input) /\ q \in 0..Len(input) /\ Tok \in Token
        /\ (Tok.op # "ENDOFFILE" => Tok.hi \in 0..Len(input))
    BY StackTypes, TriviaEndType, TokenAt
  <1>4. \/ /\ TokenToCloser(Tok.op) = call.P.closer
           /\ NodeStack' = NodeStack \o TriviaTokens(buffer, q) \o <<Tok>>
           /\ buffer' = Tok.hi
           /\ Jump(fn, call.P, NoToken)
           /\ UNCHANGED <<ContextStack, frames>>
        \/ EndLoop(q, miss)
        \/ /\ Tok.op \in CloserTokens
           /\ ParseInGroup(q, prefixToplevelCloserParselet, Tok)
        \/ EndLoop(q, unt)
        \/ ParseInGroup(q, prefixParselets[Tok.op], Tok)
    BY DEF GroupParselet_parseLoop
  <1>5. CASE /\ TokenToCloser(Tok.op) = call.P.closer
             /\ NodeStack' = NodeStack \o TriviaTokens(buffer, q) \o <<Tok>>
             /\ buffer' = Tok.hi
             /\ Jump(fn, call.P, NoToken)
             /\ UNCHANGED <<ContextStack, frames>>
    <2>1. Tok.op # "ENDOFFILE"
      BY <1>2, <1>5 DEF TokenToCloser, Closers
    <2>2. Tok.hi \in 0..Len(input) /\ Tok.hi \in (Tok.hi)..Len(input)
      BY <1>3, <2>1, StackTypes
    <2> HIDE DEF q, Tok
    <2>3. /\ NodeStack' \in Seq(Node) /\ Len(NodeStack) <= Len(NodeStack')
          /\ buffer' \in 0..Len(input)
      BY <1>3, <1>5, <2>2, OperatorInLoop
    <2>4. fn \in ReduceFns \ {InnerReduce} /\ call.P.class \in ClassesFor(fn)
      BY <1>2 DEF ReduceFns, InnerReduce, ClassesFor
    <2> HIDE DEF fn
    <2>5. /\ call' \in Call /\ call'.fn = fn /\ EndOfFileNotTaken'
          /\ fn \in RunningFns /\ fn \notin LoopFns
      BY <1>2, <1>5, <2>4, ReduceFnsRun, JumpToRunning
    <2> QED  BY <1>1, <1>2, <1>5, <2>3, <2>5, StayInContext
  <1>6. CASE EndLoop(q, miss)
    <2>1. miss \in ReduceFns \ {InnerReduce} /\ call.P.class \in ClassesFor(miss)
      BY <1>2 DEF ReduceFns, InnerReduce, ClassesFor
    <2> HIDE DEF miss, q
    <2> QED  BY <1>1, <1>2, <1>3, <1>6, <2>1, EndLoopStep
  <1>7. CASE EndLoop(q, unt)
    <2>1. unt \in ReduceFns \ {InnerReduce} /\ call.P.class \in ClassesFor(unt)
      BY <1>2 DEF ReduceFns, InnerReduce, ClassesFor
    <2> HIDE DEF unt, q
    <2> QED  BY <1>1, <1>2, <1>3, <1>7, <2>1, EndLoopStep
  <1>8. CASE /\ Tok.op \in CloserTokens
             /\ ParseInGroup(q, prefixToplevelCloserParselet, Tok)
    <2>1. Tok.op # "ENDOFFILE"
      BY <1>8 DEF CloserTokens
    <2> HIDE DEF q, Tok
    <2>2. call' \in Call /\ call'.fn = "parsePrefix" /\ EndOfFileNotTaken'
      BY <1>1, <1>3, <1>8, <2>1, ToplevelCloserType, CallPrefixWith DEF ParseInGroup
    <2> QED  BY <1>1, <1>3, <1>8, <2>2, ParseInGroupStep
  <1>9. CASE ParseInGroup(q, prefixParselets[Tok.op], Tok)
    <2>1. ParsePrefix(Tok)
      BY <1>9 DEF ParseInGroup, ParsePrefix
    <2>2. call' \in Call /\ call'.fn = "parsePrefix" /\ EndOfFileNotTaken'
      BY <1>1, <1>3, <2>1, CallPrefix DEF Inv
    <2> HIDE DEF q, Tok
    <2> QED  BY <1>1, <1>3, <1>9, <2>2, ParseInGroupStep
  <1> QED  BY <1>4, <1>5, <1>6, <1>7, <1>8, <1>9

LEMMA GroupAbortStep == Inv /\ GroupParselet_parseLoop_abort => Inv'
  <1> SUFFICES ASSUME Inv, GroupParselet_parseLoop_abort PROVE Inv'
    OBVIOUS
  <1>1. /\ Calling("GroupParselet_parseLoop") /\ GroupStack' = Pop(GroupStack)
        /\ NodeStack' = Append(NodesBelow(Pop(NodeStack)), AbortNode)
        /\ ContextStack' = Pop(ContextStack) /\ Goto("Parser_tryContinue")
        /\ UNCHANGED <<input, buffer, frames, exprs, aborted>>
    BY DEF GroupParselet_parseLoop_abort
  <1>2. GroupStack' \in Seq(AnyCloser) /\ call.fn \in RunningFns
    BY <1>1, PoppedGroup, GroupLoop DEF Calling
  <1> QED  BY <1>1, <1>2, AbortStep

LEMMA GroupReduceStep == Inv /\ GroupParselet_reduce => Inv'
  <1> SUFFICES ASSUME Inv, GroupParselet_reduce PROVE Inv'
    OBVIOUS
  <1>1. GroupStack' \in Seq(AnyCloser) /\ call.P.op \in Ops
    BY PoppedGroup, StackTypes, CallFields, ParseletFields DEF GroupParselet_reduce
  <1>2. {"GroupParselet_reduceGroup", "GroupParselet_reduceMissingCloser",
         "GroupParselet_reduceUnterminatedGroup"} \subseteq ReduceFns \ {InnerReduce}
    BY DEF ReduceFns, InnerReduce
  <1>3. {"Group", "GroupMissingCloser", "UnterminatedGroupNeedsReparse"} \subseteq NodeKinds
    BY DEF NodeKinds
  <1> QED  BY <1>1, <1>2, <1>3, ReduceStep DEF GroupParselet_reduce

\* The parselet of a call's body.
LEMMA GroupOfCallType ==
  ASSUME NEW P \in Parselet, P.class = "Call"
  PROVE  /\ [New("Group") EXCEPT !.op = P.op, !.closer = P.closer] \in Parselet
         /\ [New("Group") EXCEPT !.op = P.op, !.closer = P.closer].class = "Group"
  <1> DEFINE r == New("Group")
             D == [r EXCEPT !.op = P.op]
             Q == [D EXCEPT !.closer = P.closer]
  <1>1. r = [class |-> "Group", prec |-> 0, op |-> "INTERNALINVALID",
             op2 |-> "INTERNALINVALID", closer |-> "CLOSER_ASSERTFALSE"]
    BY DEF New
  <1>2. [New("Group") EXCEPT !.op = P.op, !.closer = P.closer] = Q
    OBVIOUS
  <1> HIDE DEF r
  <1>3. D = [class |-> "Group", prec |-> 0, op |-> P.op,
             op2 |-> "INTERNALINVALID", closer |-> "CLOSER_ASSERTFALSE"]
    BY <1>1
  <1> HIDE DEF D
  <1>4. Q = [class |-> "Group", prec |-> 0, op |-> P.op,
             op2 |-> "INTERNALINVALID", closer |-> P.closer]
    BY <1>3
  <1> HIDE DEF Q
  <1>5. P.op \in Ops /\ P.closer \in Closers /\ P.closer \in AnyCloser
        /\ "INTERNALINVALID" \in Ops /\ "Group" \in PrefixClasses \union InfixClasses
    BY ParseletFields DEF Ops, PrefixClasses
  <1>6. Q \in Parselet /\ Q.class = "Group"
    BY <1>4, <1>5, ParseletIntro
  <1> QED  BY <1>2, <1>6

LEMMA CallInfixStep == Inv /\ CallParselet_parseInfix => Inv'
  <1> SUFFICES ASSUME Inv, CallParselet_parseInfix PROVE Inv'
    OBVIOUS
  <1> DEFINE F    == "CallParselet_reduceCall"
             ctxt == [ContextWith(F) EXCEPT !.Prec = PRECEDENCE.HIGHEST]
             Q    == [New("Group") EXCEPT !.op = call.P.op, !.closer = call.P.closer]
  <1>1. /\ Calling("parseInfix") /\ call.P.class = "Call"
        /\ ContextStack' = TopContext(ctxt) /\ Jump("parsePrefix", Q, call.tok)
        /\ UNCHANGED <<input, buffer, NodeStack, GroupStack, frames, exprs, aborted>>
    BY DEF CallParselet_parseInfix, Infix
  <1>2. call.fn \in RunningFns /\ call.P \in Parselet /\ call.tok \in Token
        /\ call.tok.op # "ENDOFFILE" /\ call.tok.hi \in 0..Len(input)
    BY <1>1, InfixType
  <1>3. Q \in Parselet /\ Q.class \in PrefixClasses
    <2>1. "Group" \in PrefixClasses
      BY DEF PrefixClasses
    <2>2. Q \in Parselet /\ Q.class = "Group"
      BY <1>1, <1>2, GroupOfCallType
    <2> HIDE DEF Q
    <2> QED  BY <2>1, <2>2
  <1>4. call' \in Call /\ call'.fn = "parsePrefix" /\ EndOfFileNotTaken'
    <2> HIDE DEF Q
    <2> QED  BY <1>1, <1>2, <1>3, CallPrefixWith
  <1>5. F \in PlainFns /\ AnyClass(F) /\ F \notin {"NULL", "Parser_identity"}
    BY DEF PlainFns, ContextFns, ReduceFns, LoopFns, AnyClass, ClassesFor
  <1>6. ctxt \in BuildContext /\ ctxt.F = F /\ ctxt.Index = Parser_topContext.Index
    <2> HIDE DEF F
    <2> QED  BY <1>2, <1>5, Precedences, ContextWithFAndPrec
  <1>7. /\ NodeStack' \in Seq(Node) /\ Len(NodeStack) <= Len(NodeStack')
        /\ buffer' \in 0..Len(input)
    BY <1>1, StackTypes
  <1> HIDE DEF ctxt, F
  <1> QED  BY <1>1, <1>2, <1>4, <1>5, <1>6, <1>7, OperandStep

LEMMA GroupStep == Inv /\ GroupNext => Inv'
  <1> SUFFICES ASSUME Inv, GroupNext PROVE Inv'
    OBVIOUS
  <1>1. CASE CallParselet_reduceCall
    BY <1>1, ReduceStepFor DEF CallParselet_reduceCall, ReduceFns, InnerReduce,
       NodeKinds, Ops
  <1> QED  BY <1>1, GroupPrefixStep, GroupLoopStep, GroupAbortStep, GroupReduceStep,
       CallInfixStep DEF GroupNext

-----------------------------------------------------------------------------
(* Symbols, blanks, slots and outputs                                      *)

\* A parselet with two operators.
LEMMA TwoOperators ==
  ASSUME NEW class \in PrefixClasses \union InfixClasses,
         class \notin {"Group", "Call", "InfixOperator", "BinaryOperator"},
         NEW op \in Ops, NEW op2 \in Ops
  PROVE  /\ [New(class) EXCEPT !.op = op, !.op2 = op2] \in Parselet
         /\ [New(class) EXCEPT !.op = op, !.op2 = op2].class = class
  <1> DEFINE r == New(class)
             D == [r EXCEPT !.op = op]
             Q == [D EXCEPT !.op2 = op2]
  <1>1. r = [class |-> class, prec |-> 0, op |-> "INTERNALINVALID",
             op2 |-> "INTERNALINVALID", closer |-> "CLOSER_ASSERTFALSE"]
    BY DEF New
  <1>2. [New(class) EXCEPT !.op = op, !.op2 = op2] = Q
    OBVIOUS
  <1> HIDE DEF r
  <1>3. D = [class |-> class, prec |-> 0, op |-> op,
             op2 |-> "INTERNALINVALID", closer |-> "CLOSER_ASSERTFALSE"]
    BY <1>1
  <1> HIDE DEF D
  <1>4. Q = [class |-> class, prec |-> 0, op |-> op, op2 |-> op2,
             closer |-> "CLOSER_ASSERTFALSE"]
    BY <1>3
  <1> HIDE DEF Q
  <1>5. "CLOSER_ASSERTFALSE" \in AnyCloser
    BY DEF AnyCloser
  <1>6. Q \in Parselet /\ Q.class = class
    BY <1>4, <1>5, ParseletIntro
  <1> QED  BY <1>2, <1>6

LEMMA UnderParseletType ==
  ASSUME NEW tok
  PROVE  UnderParseletOf(tok) \in Parselet /\ UnderParseletOf(tok).class = "Under"
  <1>1. "Under" \in PrefixClasses \union InfixClasses
    BY DEF PrefixClasses
  <1>2. {"Blank", "PatternBlank", "BlankSequence", "PatternBlankSequence",
         "BlankNullSequence", "PatternBlankNullSequence"} \subseteq Ops
    BY DEF Ops
  <1>3. under1Parselet \in Parselet /\ under1Parselet.class = "Under"
    BY <1>1, <1>2, TwoOperators DEF under1Parselet
  <1>4. under2Parselet \in Parselet /\ under2Parselet.class = "Under"
    BY <1>1, <1>2, TwoOperators DEF under2Parselet
  <1>5. under3Parselet \in Parselet /\ under3Parselet.class = "Under"
    BY <1>1, <1>2, TwoOperators DEF under3Parselet
  <1> QED  BY <1>3, <1>4, <1>5 DEF UnderParseletOf

\* A call of a function that takes its token.
LEMMA CallTaking ==
  ASSUME UNCHANGED input, NEW fn \in TakingFns \ {"parseInfix"}, NEW P \in Parselet,
         P.class \in ClassesFor(fn), NEW t \in Token, t.op # "ENDOFFILE",
         t.hi \in 0..Len(input), Jump(fn, P, t)
  PROVE  call' \in Call /\ call'.fn = fn /\ EndOfFileNotTaken'
  <1>1. fn \in Fns /\ fn # "parsePrefix"
    BY DEF TakingFns, ContextSensitiveFns, Fns, ParseFns
  <1>2. call' = [fn |-> fn, P |-> P, tok |-> t]
    BY DEF Jump
  <1>3. call' \in Call /\ call'.fn = fn
    BY <1>1, <1>2, CallIntro
  <1>4. t.hi <= Len(input)
    OBVIOUS
  <1>5. EndOfFileNotTaken'
    BY <1>1, <1>2, <1>4 DEF EndOfFileNotTaken, Inside, Calling
  <1> QED  BY <1>3, <1>5

\* The context that starts at the token t, which is the last of the nodes.
LEMMA EnteredContext ==
  ASSUME Inv, NEW t \in Token, NEW Prec \in Nat
  PROVE  /\ Parser_pushContext(Append(NodeStack, t), Prec)
              = Append(ContextStack, NewContext(Len(NodeStack), Prec))
         /\ NewContext(Len(NodeStack), Prec) \in BuildContext
         /\ NewContext(Len(NodeStack), Prec).F = "NULL"
         /\ NewContext(Len(NodeStack), Prec).Index = Len(NodeStack)
  <1> DEFINE nodes == Append(NodeStack, t)
  <1>1. Len(nodes) - 1 = Len(NodeStack)
    BY StackTypes, WithToken
  <1> HIDE DEF nodes
  <1>2. Parser_pushContext(nodes, Prec)
          = Append(ContextStack, NewContext(Len(NodeStack), Prec))
    BY <1>1 DEF Parser_pushContext
  <1> QED  BY <1>2, StackTypes, NewContextType DEF nodes

LEMMA TakePairStep ==
  ASSUME Inv, Calling("parsePrefix"), call.tok.hi \in 0..Len(input),
         NEW s \in Token, NEW toks, s.op \in toks => s.hi \in 0..Len(input),
         NEW fn \in ReduceFns \ {InnerReduce}, AnyClass(fn),
         TakePair(call.tok, s, toks, fn),
         UNCHANGED <<input, GroupStack, frames, exprs, aborted>>
  PROVE  Inv'
  <1> DEFINE t     == call.tok
             nodes == Append(NodeStack, t)
             ctxt  == NewContext(Len(NodeStack), PRECEDENCE.HIGHEST)
  <1>1. t \in Token
    BY ExpectingType
  <1>2. nodes \in Seq(Node) /\ Len(nodes) = Len(NodeStack) + 1
    BY <1>1, StackTypes, WithToken
  <1>3. CASE s.op \in toks
    <2>1. /\ ContextStack' = Parser_pushContext(nodes, PRECEDENCE.HIGHEST)
          /\ NodeStack' = Append(nodes, s) /\ buffer' = s.hi /\ Goto(fn)
      BY <1>3 DEF TakePair, EnterContext
    <2>2. /\ ContextStack' = Append(ContextStack, ctxt) /\ ctxt \in BuildContext
          /\ ctxt.Index = Len(NodeStack)
      BY <1>1, <2>1, Precedences, EnteredContext
    <2> HIDE DEF nodes, ctxt
    <2>3. NodeStack' \in Seq(Node) /\ Len(NodeStack') = Len(nodes) + 1
      BY <1>2, <2>1, WithToken
    <2>4. /\ Len(NodeStack) + 1 <= Len(NodeStack') /\ buffer' \in 0..Len(input)
          /\ GroupStack' \in Seq(AnyCloser)
      BY <1>2, <1>3, <2>1, <2>3, StackTypes
    <2>5. /\ call' \in Call /\ call'.fn = fn /\ EndOfFileNotTaken'
          /\ fn \in RunningFns /\ fn \notin LoopFns
      BY <2>1, ReduceFnsRun, GotoRunning
    <2> QED  BY <2>2, <2>3, <2>4, <2>5, EnterStep
  <1>4. CASE s.op \notin toks
    <2>1. /\ NodeStack' = nodes /\ buffer' = t.hi /\ Goto("Parser_parseClimb")
          /\ UNCHANGED ContextStack
      BY <1>4 DEF TakePair
    <2> QED  BY <1>1, <2>1, TokenIsNode, LeafStep
  <1> QED  BY <1>3, <1>4

LEMMA FrameIntro ==
  ASSUME NEW fn \in Fns, NEW P \in Parselet, P.class \in ClassesFor(fn)
  PROVE  /\ [fn |-> fn, P |-> P] \in Frame
         /\ [fn |-> fn, P |-> P].fn = fn
  BY DEF Frame

\* A prefix parselet that reads the rest of a pattern natively.
LEMMA TakeAndCallStep ==
  ASSUME Inv, Calling("parsePrefix"), call.tok.hi \in 0..Len(input),
         NEW s \in Token, s.op # "ENDOFFILE", s.hi \in 0..Len(input),
         NEW fn \in ContextSensitiveFns, NEW P \in Parselet, P.class \in ClassesFor(fn),
         NEW reduceFn \in PatternReduces, NEW reduceP \in Parselet,
         reduceP.class \in ClassesFor(reduceFn),
         TakeAndCall(call.tok, s, fn, P, reduceFn, reduceP),
         UNCHANGED <<input, GroupStack, exprs, aborted>>
  PROVE  Inv'
  <1> DEFINE t     == call.tok
             ctxt  == NewContext(Len(NodeStack), PRECEDENCE.HIGHEST)
             frame == [fn |-> reduceFn, P |-> reduceP]
  <1>1. /\ NodeStack' = Append(NodeStack, t) /\ buffer' = t.hi
        /\ ContextStack' = Parser_pushContext(Append(NodeStack, t), PRECEDENCE.HIGHEST)
        /\ Jump(fn, P, s) /\ frames' = Append(frames, frame)
    BY DEF TakeAndCall, EnterContext, NativeCall
  <1>2. t \in Token /\ t \in Node
    BY ExpectingType, TokenIsNode
  <1>3. /\ ContextStack' = Append(ContextStack, ctxt) /\ ctxt \in BuildContext
        /\ ctxt.Index = Len(NodeStack) /\ ctxt.F = "NULL"
    BY <1>1, <1>2, Precedences, EnteredContext
  <1>4. reduceFn \in Fns
    BY DEF PatternReduces, Fns, ReduceFns
  <1>5. frame \in Frame /\ frame.fn \in PatternReduces
    BY <1>4, FrameIntro
  <1>6. fn \in TakingFns \ {"parseInfix"}
    BY DEF TakingFns, ContextSensitiveFns
  <1>7. call' \in Call /\ call'.fn \in ContextSensitiveFns /\ EndOfFileNotTaken'
    BY <1>1, <1>6, CallTaking
  <1> HIDE DEF t, ctxt, frame
  <1>8. buffer' \in 0..Len(input)
    BY <1>1 DEF t
  <1> QED  BY <1>1, <1>2, <1>3, <1>5, <1>7, <1>8, BeginPatternStep

LEMMA ReaderClasses ==
  /\ AnyClass("SymbolParselet_parseInfixContextSensitive")
  /\ AnyClass("UnderDotParselet_parseInfixContextSensitive")
  /\ AnyClass("SymbolParselet_reducePatternOptionalDefault")
  /\ ClassesFor("UnderParselet_parseInfixContextSensitive") = {"Under"}
  /\ ClassesFor("SymbolParselet_reducePatternBlank") = {"Under"}
  /\ ClassesFor("UnderParselet_reduceBlank") = {"Under"}
  /\ ClassesFor(InnerReduce) = {"Under"}
  BY DEF AnyClass, ClassesFor, InnerReduce

LEMMA SymbolPrefixStep == Inv /\ SymbolParselet_parsePrefix => Inv'
  <1> SUFFICES ASSUME Inv, SymbolParselet_parsePrefix PROVE Inv'
    OBVIOUS
  <1> DEFINE t   == call.tok
             Tok == Tokenizer_currentToken(t.hi)
             U   == UnderParseletOf(Tok.op)
             D   == underDotParselet
             readUnder == "UnderParselet_parseInfixContextSensitive"
             readDot   == "UnderDotParselet_parseInfixContextSensitive"
             blank     == "SymbolParselet_reducePatternBlank"
             default   == "SymbolParselet_reducePatternOptionalDefault"
  <1>1. /\ Calling("parsePrefix") /\ call.P.class = "Symbol"
        /\ UNCHANGED <<input, GroupStack, exprs, aborted>>
    BY DEF SymbolParselet_parsePrefix, Prefix
  <1>2. t \in Token /\ t.hi \in 0..Len(input)
    BY <1>1, ExpectingType, PrefixTokenInside
  <1>3. Tok \in Token /\ (Tok.op # "ENDOFFILE" => Tok.hi \in 0..Len(input))
    BY <1>2, TokenAt
  <1>4. \/ /\ Tok.op \in Unders
           /\ TakeAndCall(t, Tok, readUnder, U, blank, U)
        \/ /\ Tok.op = "UNDERDOT"
           /\ TakeAndCall(t, Tok, readDot, D, default, D)
        \/ /\ TakeLeaf(t) /\ Goto("Parser_parseClimb") /\ UNCHANGED <<ContextStack, frames>>
    BY DEF SymbolParselet_parsePrefix
  <1>5. CASE Tok.op \in Unders /\ TakeAndCall(t, Tok, readUnder, U, blank, U)
    <2>1. Tok.op # "ENDOFFILE"
      BY <1>5 DEF Unders
    <2>2. U \in Parselet /\ U.class = "Under"
      BY UnderParseletType
    <2>3. /\ readUnder \in ContextSensitiveFns /\ blank \in PatternReduces
          /\ U.class \in ClassesFor(readUnder) /\ U.class \in ClassesFor(blank)
      BY <2>2, ReaderClasses DEF ContextSensitiveFns, PatternReduces
    <2> HIDE DEF Tok, U, readUnder, blank
    <2> QED  BY <1>1, <1>2, <1>3, <1>5, <2>1, <2>2, <2>3, TakeAndCallStep
  <1>6. CASE Tok.op = "UNDERDOT" /\ TakeAndCall(t, Tok, readDot, D, default, D)
    <2>1. Tok.op # "ENDOFFILE"
      BY <1>6
    <2>2. D \in Parselet
      BY NewType DEF underDotParselet, PrefixClasses
    <2>3. /\ readDot \in ContextSensitiveFns /\ default \in PatternReduces
          /\ D.class \in ClassesFor(readDot) /\ D.class \in ClassesFor(default)
      BY <2>2, ReaderClasses, AnyParseletIs DEF ContextSensitiveFns, PatternReduces
    <2> HIDE DEF Tok, D, readDot, default
    <2> QED  BY <1>1, <1>2, <1>3, <1>6, <2>1, <2>2, <2>3, TakeAndCallStep
  <1>7. CASE TakeLeaf(t) /\ Goto("Parser_parseClimb") /\ UNCHANGED <<ContextStack, frames>>
    BY <1>1, <1>2, <1>7, TokenIsNode, LeafStep DEF TakeLeaf
  <1> QED  BY <1>4, <1>5, <1>6, <1>7

LEMMA ReadingStep ==
  ASSUME Inv, NEW fn \in ContextSensitiveFns, ContextSensitive(fn)
  PROVE  Inv'
  <1>1. call.fn \in ContextSensitiveFns
    BY DEF ContextSensitive, Calling
  <1>2. call.tok \in Node /\ call.tok.hi \in 0..Len(input)
    BY <1>1, ReadingType, TokenIsNode
  <1> QED  BY <1>1, <1>2, EndPatternStep DEF ContextSensitive, TakeLeaf

LEMMA ContextSensitive_abortStep == Inv /\ ContextSensitive_abort => Inv'
  BY StackTypes, AbortNodeType, EndPatternStep DEF ContextSensitive_abort

LEMMA UnderPrefixStep == Inv /\ UnderParselet_parsePrefix => Inv'
  <1> SUFFICES ASSUME Inv, UnderParselet_parsePrefix PROVE Inv'
    OBVIOUS
  <1> DEFINE t   == call.tok
             P   == call.P
             S   == New("Symbol")
             Tok == Tokenizer_currentToken(t.hi)
             readSymbol == "SymbolParselet_parseInfixContextSensitive"
             blank      == "UnderParselet_reduceBlank"
             nodes == Append(NodeStack, t)
             ctxt  == NewContext(Len(NodeStack), PRECEDENCE.HIGHEST)
  <1>1. /\ Calling("parsePrefix") /\ P.class = "Under"
        /\ UNCHANGED <<input, GroupStack, exprs, aborted>>
    BY DEF UnderParselet_parsePrefix, Prefix
  <1>2. t \in Token /\ t.hi \in 0..Len(input) /\ P \in Parselet
    BY <1>1, ExpectingType, PrefixTokenInside
  <1>3. Tok \in Token /\ (Tok.op # "ENDOFFILE" => Tok.hi \in 0..Len(input))
    BY <1>2, TokenAt
  <1>4. blank \in PatternReduces /\ P.class \in ClassesFor(blank)
        /\ blank \in ReduceFns \ {InnerReduce}
    BY <1>1, ReaderClasses DEF PatternReduces, ReduceFns, InnerReduce
  <1>5. \/ Tok.op = "SYMBOL" /\ TakeAndCall(t, Tok, readSymbol, S, blank, P)
        \/ /\ Tok.op = "ERROR_EXPECTEDLETTERLIKE"
           /\ NodeStack' = Append(nodes, Tok) /\ buffer' = Tok.hi
           /\ ContextStack' = Parser_pushContext(nodes, PRECEDENCE.HIGHEST)
           /\ Jump(blank, P, NoToken) /\ UNCHANGED frames
        \/ TakeLeaf(t) /\ Goto("Parser_parseClimb") /\ UNCHANGED <<ContextStack, frames>>
    BY DEF UnderParselet_parsePrefix, BlankFrom, EnterContext
  <1>6. CASE Tok.op = "SYMBOL" /\ TakeAndCall(t, Tok, readSymbol, S, blank, P)
    <2>1. S \in Parselet
      BY NewType DEF PrefixClasses
    <2>2. readSymbol \in ContextSensitiveFns /\ S.class \in ClassesFor(readSymbol)
      BY <2>1, ReaderClasses, AnyParseletIs DEF ContextSensitiveFns
    <2>3. Tok.op # "ENDOFFILE"
      BY <1>6
    <2> HIDE DEF Tok, S, readSymbol, blank
    <2> QED  BY <1>1, <1>2, <1>3, <1>4, <1>6, <2>1, <2>2, <2>3, TakeAndCallStep
  <1>7. CASE /\ Tok.op = "ERROR_EXPECTEDLETTERLIKE"
             /\ NodeStack' = Append(nodes, Tok) /\ buffer' = Tok.hi
             /\ ContextStack' = Parser_pushContext(nodes, PRECEDENCE.HIGHEST)
             /\ Jump(blank, P, NoToken) /\ UNCHANGED frames
    <2>1. /\ ContextStack' = Append(ContextStack, ctxt) /\ ctxt \in BuildContext
          /\ ctxt.Index = Len(NodeStack)
      BY <1>2, <1>7, Precedences, EnteredContext
    <2>2. nodes \in Seq(Node) /\ Len(nodes) = Len(NodeStack) + 1
      BY <1>2, StackTypes, WithToken
    <2>3. Tok.hi \in 0..Len(input)
      BY <1>3, <1>7
    <2> HIDE DEF nodes, ctxt, Tok, blank
    <2>4. NodeStack' \in Seq(Node) /\ Len(NodeStack') = Len(nodes) + 1
      BY <1>3, <1>7, <2>2, WithToken
    <2>5. /\ Len(NodeStack) + 1 <= Len(NodeStack') /\ buffer' \in 0..Len(input)
          /\ GroupStack' \in Seq(AnyCloser)
      BY <1>1, <1>7, <2>2, <2>3, <2>4, StackTypes
    <2>6. /\ call' \in Call /\ call'.fn = blank /\ EndOfFileNotTaken'
          /\ blank \in RunningFns /\ blank \notin LoopFns
      BY <1>2, <1>4, <1>7, ReduceFnsRun, JumpToRunning
    <2> QED  BY <1>1, <1>7, <2>1, <2>4, <2>5, <2>6, EnterStep
  <1>8. CASE TakeLeaf(t) /\ Goto("Parser_parseClimb") /\ UNCHANGED <<ContextStack, frames>>
    BY <1>1, <1>2, <1>8, TokenIsNode, LeafStep DEF TakeLeaf
  <1> QED  BY <1>5, <1>6, <1>7, <1>8

LEMMA UnderReadingStep == Inv /\ UnderParselet_parseInfixContextSensitive => Inv'
  <1> SUFFICES ASSUME Inv, UnderParselet_parseInfixContextSensitive PROVE Inv'
    OBVIOUS
  <1> DEFINE t   == call.tok
             P   == call.P
             S   == New("Symbol")
             Tok == Tokenizer_currentToken(t.hi)
             readSymbol == "SymbolParselet_parseInfixContextSensitive"
             nodes == Append(NodeStack, t)
             ctxt  == NewContext(Len(NodeStack), PRECEDENCE.HIGHEST)
             frame == [fn |-> InnerReduce, P |-> P]
  <1>1. /\ Calling("UnderParselet_parseInfixContextSensitive")
        /\ UNCHANGED <<input, GroupStack, exprs, aborted>>
    BY DEF UnderParselet_parseInfixContextSensitive
  <1>2. call.fn \in ContextSensitiveFns
    BY <1>1 DEF ContextSensitiveFns, Calling
  <1>3. t \in Token /\ t \in Node /\ t.hi \in 0..Len(input)
    BY <1>2, ReadingType, TokenIsNode
  <1>4. P \in Parselet /\ P.class \in ClassesFor(InnerReduce)
    BY <1>1, StackTypes, CallFields, ReaderClasses DEF Calling
  <1>5. Tok \in Token /\ (Tok.op # "ENDOFFILE" => Tok.hi \in 0..Len(input))
    BY <1>3, TokenAt
  <1>6. \/ Tok.op = "SYMBOL" /\ TakeAndCall(t, Tok, readSymbol, S, InnerReduce, P)
        \/ /\ Tok.op = "ERROR_EXPECTEDLETTERLIKE"
           /\ NodeStack' = Append(nodes, Tok) /\ buffer' = Tok.hi
           /\ ContextStack' = Parser_pushContext(nodes, PRECEDENCE.HIGHEST)
           /\ Jump(InnerReduce, P, NoToken) /\ UNCHANGED frames
        \/ TakeLeaf(t) /\ Goto("return") /\ UNCHANGED <<ContextStack, frames>>
    BY DEF UnderParselet_parseInfixContextSensitive, BlankFrom, EnterContext, InnerReduce
  <1>7. /\ Parser_pushContext(nodes, PRECEDENCE.HIGHEST) = Append(ContextStack, ctxt)
        /\ ctxt \in BuildContext /\ ctxt.Index = Len(NodeStack) /\ ctxt.F = "NULL"
    BY <1>3, Precedences, EnteredContext
  <1>8. InnerReduce \in Fns /\ InnerReduce \notin TakingFns /\ InnerReduce # "parsePrefix"
    BY DEF InnerReduce, Fns, ReduceFns, TakingFns, ContextSensitiveFns
  <1>9. CASE Tok.op = "SYMBOL" /\ TakeAndCall(t, Tok, readSymbol, S, InnerReduce, P)
    <2>1. /\ NodeStack' = nodes /\ buffer' = t.hi /\ Jump(readSymbol, S, Tok)
          /\ ContextStack' = Append(ContextStack, ctxt)
          /\ frames' = Append(frames, frame)
      BY <1>7, <1>9 DEF TakeAndCall, EnterContext, NativeCall
    <2>2. S \in Parselet
      BY NewType DEF PrefixClasses
    <2>3. readSymbol \in TakingFns \ {"parseInfix"} /\ S.class \in ClassesFor(readSymbol)
      BY <2>2, ReaderClasses, AnyParseletIs DEF TakingFns, ContextSensitiveFns
    <2>4. Tok.op # "ENDOFFILE"
      BY <1>9
    <2>5. frame \in Frame /\ frame.fn = InnerReduce
      BY <1>4, <1>8, FrameIntro
    <2>6. call' \in Call /\ call'.fn = readSymbol /\ EndOfFileNotTaken'
      <3> HIDE DEF Tok, S, readSymbol
      <3> QED  BY <1>1, <1>5, <2>1, <2>2, <2>3, <2>4, CallTaking
    <2> HIDE DEF Tok, S, ctxt, frame
    <2> QED  BY <1>1, <1>3, <1>7, <2>1, <2>5, <2>6, ContinuePatternStep
  <1>10. CASE /\ Tok.op = "ERROR_EXPECTEDLETTERLIKE"
              /\ NodeStack' = Append(nodes, Tok) /\ buffer' = Tok.hi
              /\ ContextStack' = Parser_pushContext(nodes, PRECEDENCE.HIGHEST)
              /\ Jump(InnerReduce, P, NoToken) /\ UNCHANGED frames
    <2>1. nodes \in Seq(Node) /\ Len(nodes) = Len(NodeStack) + 1
      BY <1>3, StackTypes, WithToken
    <2>2. Tok.hi \in 0..Len(input)
      BY <1>5, <1>10
    <2> HIDE DEF nodes, ctxt, Tok, P
    <2>3. NodeStack' \in Seq(Node) /\ Len(NodeStack') = Len(nodes) + 1
      BY <1>5, <1>10, <2>1, WithToken
    <2>4. Len(NodeStack) + 1 <= Len(NodeStack') /\ buffer' \in 0..Len(input)
      BY <1>10, <2>1, <2>2, <2>3, StackTypes
    <2>5. call' \in Call /\ call'.fn = InnerReduce /\ EndOfFileNotTaken'
      BY <1>4, <1>8, <1>10, JumpWithoutToken
    <2> QED  BY <1>1, <1>7, <1>10, <2>3, <2>4, <2>5, EnterInnerStep
  <1>11. CASE TakeLeaf(t) /\ Goto("return") /\ UNCHANGED <<ContextStack, frames>>
    BY <1>1, <1>2, <1>3, <1>11, EndPatternStep DEF TakeLeaf
  <1> QED  BY <1>6, <1>9, <1>10, <1>11

LEMMA SlotStep == Inv /\ HashParselet_parsePrefix => Inv'
  <1> SUFFICES ASSUME Inv, HashParselet_parsePrefix PROVE Inv'
    OBVIOUS
  <1> DEFINE t  == call.tok
             s  == Tokenizer_currentToken_INSIDE_SLOT(t.hi)
             fn == "HashParselet_reduceSlot"
  <1>1. /\ Calling("parsePrefix") /\ call.P.class = "Hash"
        /\ TakePair(t, s, {"INTEGER", "STRING"}, fn)
        /\ UNCHANGED <<input, GroupStack, frames, exprs, aborted>>
    BY DEF HashParselet_parsePrefix, Prefix
  <1>2. t \in Token /\ t.hi \in 0..Len(input) /\ t.hi \in Nat
    BY <1>1, ExpectingType, PrefixTokenInside
  <1>3. s \in Token /\ Inside(s) /\ s.hi \in Nat
    BY <1>2, StackTypes, SlotTokenType, TokenIsNode
  <1> HIDE DEF s
  <1>4. s.op \in {"INTEGER", "STRING"} => s.hi \in 0..Len(input)
    BY <1>3, StackTypes DEF Inside
  <1>5. fn \in ReduceFns \ {InnerReduce} /\ AnyClass(fn)
    BY DEF ReduceFns, InnerReduce, ClassesFor, AnyClass
  <1> HIDE DEF fn
  <1> QED  BY <1>1, <1>2, <1>3, <1>4, <1>5, TakePairStep

LEMMA NumberedStep ==
  ASSUME Inv, Calling("parsePrefix"), call.P.class # "PrefixEndOfFile",
         NEW fn \in ReduceFns \ {InnerReduce}, AnyClass(fn),
         TakePair(call.tok, Tokenizer_currentToken(call.tok.hi), {"INTEGER"}, fn),
         UNCHANGED <<input, GroupStack, frames, exprs, aborted>>
  PROVE  Inv'
  <1> DEFINE s == Tokenizer_currentToken(call.tok.hi)
  <1>1. call.tok.hi \in 0..Len(input)
    BY PrefixTokenInside
  <1>2. s \in Token /\ (s.op # "ENDOFFILE" => s.hi \in 0..Len(input))
    BY <1>1, TokenAt
  <1> HIDE DEF s
  <1>3. s.op \in {"INTEGER"} => s.hi \in 0..Len(input)
    BY <1>2
  <1> QED  BY <1>1, <1>2, <1>3, TakePairStep DEF s

LEMMA PatternStep == Inv /\ PatternNext => Inv'
  <1> SUFFICES ASSUME Inv, PatternNext PROVE Inv'
    OBVIOUS
  <1>1. CASE SymbolParselet_parseInfixContextSensitive
    BY <1>1, ReadingStep DEF SymbolParselet_parseInfixContextSensitive, ContextSensitiveFns
  <1>2. CASE UnderDotParselet_parseInfixContextSensitive
    BY <1>2, ReadingStep DEF UnderDotParselet_parseInfixContextSensitive, ContextSensitiveFns
  <1>3. CASE SymbolParselet_reduce
    BY <1>3, ReduceStepFor DEF SymbolParselet_reduce, ReduceFns, InnerReduce, NodeKinds, Ops
  <1>4. CASE UnderParselet_reduceBlank
    BY <1>4, ReduceStepFor DEF UnderParselet_reduceBlank, ReduceFns, InnerReduce, NodeKinds
  <1>5. CASE UnderParselet_reduceBlankContextSensitive
    <2>1. call.P.op \in Ops /\ "Compound" \in NodeKinds
      BY StackTypes, CallFields, ParseletFields DEF NodeKinds
    <2> QED  BY <1>5, <2>1, ReduceInnerStep
          DEF UnderParselet_reduceBlankContextSensitive, InnerReduce
  <1>6. CASE UnderDotParselet_parsePrefix
    <2>1. call.tok \in Token
      BY <1>6, ExpectingType DEF UnderDotParselet_parsePrefix, Prefix
    <2> QED  BY <1>6, <2>1, LeafParseletStep
          DEF UnderDotParselet_parsePrefix, TakeLeaf, Prefix, PrefixClasses
  <1>7. CASE HashHashParselet_parsePrefix
    <2>1. "HashHashParselet_reduceSlotSequence" \in ReduceFns \ {InnerReduce}
          /\ AnyClass("HashHashParselet_reduceSlotSequence")
      BY DEF ReduceFns, InnerReduce, ClassesFor, AnyClass
    <2> QED  BY <1>7, <2>1, NumberedStep DEF HashHashParselet_parsePrefix, Prefix
  <1>8. CASE PercentParselet_parsePrefix
    <2>1. "PercentParselet_reduceOut" \in ReduceFns \ {InnerReduce}
          /\ AnyClass("PercentParselet_reduceOut")
      BY DEF ReduceFns, InnerReduce, ClassesFor, AnyClass
    <2> QED  BY <1>8, <2>1, NumberedStep DEF PercentParselet_parsePrefix, Prefix
  <1>9. CASE HashParselet_reduceSlot
    BY <1>9, ReduceStepFor DEF HashParselet_reduceSlot, ReduceFns, InnerReduce, NodeKinds, Ops
  <1>10. CASE HashHashParselet_reduceSlotSequence
    BY <1>10, ReduceStepFor DEF HashHashParselet_reduceSlotSequence, ReduceFns,
       InnerReduce, NodeKinds, Ops
  <1>11. CASE PercentParselet_reduceOut
    BY <1>11, ReduceStepFor DEF PercentParselet_reduceOut, ReduceFns, InnerReduce,
       NodeKinds, Ops
  <1> QED  BY <1>1, <1>2, <1>3, <1>4, <1>5, <1>6, <1>7, <1>8, <1>9, <1>10, <1>11,
       SymbolPrefixStep, ContextSensitive_abortStep, UnderPrefixStep, UnderReadingStep,
       SlotStep DEF PatternNext

-----------------------------------------------------------------------------
(* Operators in several parts                                              *)

\* The continuations of these operators are not about their parselet.
PartFns ==
  {"TildeParselet_parse1", "TildeParselet_reduceTilde", "ColonParselet_reducePattern",
   "ColonParselet_reduceOptional", "ColonParselet_reduceError",
   "SlashColonParselet_parse1", "EqualParselet_reduceSet",
   "EqualParselet_reduceTagSet", "ColonEqualParselet_reduceSetDelayed",
   "ColonEqualParselet_reduceTagSetDelayed", "SemiSemiParselet_parse2",
   "SemiSemiParselet_reduceTernary"}

LEMMA PartFnsArePlain ==
  ASSUME NEW F \in PartFns
  PROVE  F \in PlainFns /\ AnyClass(F) /\ F \notin {"NULL", "Parser_identity"}
  <1>1. F \in PlainFns
    BY DEF PartFns, PlainFns, ContextFns, ReduceFns, LoopFns
  <1>2. AnyClass(F)
    BY DEF PartFns, AnyClass, ClassesFor
  <1>3. F \notin {"NULL", "Parser_identity"}
    BY DEF PartFns
  <1> QED  BY <1>1, <1>2, <1>3

\* The functions of the operators in parts that reduce and take no parselet.
PartReduces ==
  {"TildeParselet_reduceError", "SlashColonParselet_reduceError",
   "EqualParselet_reduceUnset", "EqualParselet_reduceTagUnset",
   "SemiSemiParselet_reduceBinary", "ColonColonParselet_reduceMessageName",
   "GreaterGreaterParselet_reducePut", "LessLessParselet_reduceGet",
   "GreaterGreaterGreaterParselet_reducePutAppend"}

LEMMA PartReducesRun ==
  ASSUME NEW fn \in PartReduces
  PROVE  /\ fn \in ReduceFns \ {InnerReduce} /\ AnyClass(fn)
         /\ fn \in RunningFns \ TakingFns /\ fn \notin LoopFns
  <1>1. fn \in ReduceFns \ {InnerReduce}
    BY DEF PartReduces, ReduceFns, InnerReduce
  <1>2. AnyClass(fn)
    BY DEF PartReduces, AnyClass, ClassesFor
  <1> QED  BY <1>1, <1>2, ReduceFnsRun

LEMMA OperandForF ==
  ASSUME Inv, call.fn \in RunningFns, call.tok.hi \in 0..Len(input),
         NEW F \in PartFns, TakeOperand(call.tok, ContextWith(F)),
         UNCHANGED <<input, GroupStack, frames, exprs, aborted>>
  PROVE  Inv'
  <1> DEFINE ctxt == ContextWith(F)
  <1>1. ctxt \in BuildContext /\ ctxt.F = F /\ ctxt.Index = Parser_topContext.Index
    BY PartFnsArePlain, ContextWithF
  <1>2. F \notin {"NULL", "Parser_identity"} /\ call.tok \in Token
    BY PartFnsArePlain, StackTypes, CallFields
  <1> HIDE DEF ctxt
  <1>3. TakeOperand(call.tok, ctxt)
    BY DEF ctxt
  <1> QED  BY <1>1, <1>2, <1>3, TakeOperandStep

LEMMA OperandForFAndPrec ==
  ASSUME Inv, Calling("parseInfix"), NEW F \in PartFns, NEW Prec \in Nat,
         TakeOperand(call.tok, [ContextWith(F) EXCEPT !.Prec = Prec]),
         UNCHANGED <<input, GroupStack, frames, exprs, aborted>>
  PROVE  Inv'
  <1> DEFINE ctxt == [ContextWith(F) EXCEPT !.Prec = Prec]
  <1>1. call.fn \in RunningFns /\ call.tok \in Token /\ call.tok.hi \in 0..Len(input)
    BY InfixType
  <1>2. ctxt \in BuildContext /\ ctxt.F = F /\ ctxt.Index = Parser_topContext.Index
    BY <1>1, PartFnsArePlain, ContextWithFAndPrec
  <1>3. F \notin {"NULL", "Parser_identity"}
    BY PartFnsArePlain
  <1>4. TakeOperand(call.tok, ctxt)
    OBVIOUS
  <1> HIDE DEF ctxt
  <1> QED  BY <1>1, <1>2, <1>3, <1>4, TakeOperandStep

LEMMA InfixForF ==
  ASSUME Inv, Calling("parseInfix"), NEW F \in PartFns,
         TakeOperand(call.tok, ContextWith(F)),
         UNCHANGED <<input, GroupStack, frames, exprs, aborted>>
  PROVE  Inv'
  BY InfixType, OperandForF

LEMMA TildeInfixStep == Inv /\ TildeParselet_parseInfix => Inv'
  <1> SUFFICES ASSUME Inv, TildeParselet_parseInfix PROVE Inv'
    OBVIOUS
  <1> DEFINE F    == "TildeParselet_parse1"
             prec == PRECEDENCE.LOWEST
  <1>1. /\ Calling("parseInfix")
        /\ TakeOperand(call.tok, [ContextWith(F) EXCEPT !.Prec = prec])
        /\ UNCHANGED <<input, GroupStack, frames, exprs, aborted>>
    BY DEF TildeParselet_parseInfix, Infix
  <1>2. F \in PartFns /\ prec \in Nat
    BY Precedences DEF PartFns
  <1> HIDE DEF F, prec
  <1> QED  BY <1>1, <1>2, OperandForFAndPrec

\* The functions that run after an operand and take no parselet.
LEMMA PartLoop ==
  ASSUME Inv, NEW fn \in {"TildeParselet_parse1", "SlashColonParselet_parse1",
                          "SemiSemiParselet_parse1", "SemiSemiParselet_parse2",
                          "IntegralParselet_parse1", "ColonColonParselet_parseLoop"},
         Calling(fn)
  PROVE  /\ call.fn \in RunningFns \ TakingFns /\ call.fn \notin LoopFns
         /\ TriviaEnd(buffer) \in buffer..Len(input)
         /\ TriviaEnd(buffer) \in 0..Len(input)
         /\ TriviaButNotToplevelNewlinesEnd(buffer) \in buffer..Len(input)
         /\ TriviaButNotToplevelNewlinesEnd(buffer) \in 0..Len(input)
  <1>1. fn \in RunningFns \ TakingFns /\ fn \notin LoopFns
    BY RunningFnsFacts DEF ParseFns, ContextSensitiveFns, TakingFns, LoopFns
  <1>2. buffer \in 0..Len(input)
    BY StackTypes
  <1> QED  BY <1>1, <1>2, TriviaEndType DEF Calling

LEMMA EndPartLoop ==
  ASSUME Inv, call.fn \in RunningFns, NEW q \in buffer..Len(input),
         NEW fn \in PartReduces, EndLoop(q, fn),
         UNCHANGED <<input, GroupStack, exprs, aborted>>
  PROVE  Inv'
  <1>1. fn \in ReduceFns \ {InnerReduce} /\ AnyClass(fn)
    BY PartReducesRun
  <1>2. call.P.class \in ClassesFor(fn)
    BY <1>1, StackTypes, CallFields, AnyParseletIs
  <1> QED  BY <1>1, <1>2, EndLoopStep

LEMMA TildeLoopStep == Inv /\ TildeParselet_parse1 => Inv'
  <1> SUFFICES ASSUME Inv, TildeParselet_parse1 PROVE Inv'
    OBVIOUS
  <1> DEFINE q    == TriviaEnd(buffer)
             t    == Tokenizer_currentToken(q)
             fn   == "TildeParselet_reduceError"
             F    == "TildeParselet_reduceTilde"
             ctxt == [ContextWith(F) EXCEPT !.Prec = PRECEDENCE.TILDE]
  <1>1. /\ Calling("TildeParselet_parse1") /\ UNCHANGED <<input, GroupStack, exprs, aborted>>
        /\ \/ EndLoop(q, fn)
           \/ /\ t.op = "TILDE"
              /\ NodeStack' = NodeStack \o TriviaTokens(buffer, q) \o <<t>>
                                \o TriviaTokens(t.hi, TriviaEnd(t.hi))
              /\ buffer' = TriviaEnd(t.hi)
              /\ ContextStack' = TopContext(ctxt)
              /\ ParsePrefix(AfterOperator(t))
              /\ UNCHANGED frames
    BY DEF TildeParselet_parse1, Looping
  <1>2. call.fn \in RunningFns /\ q \in buffer..Len(input) /\ q \in 0..Len(input)
    BY <1>1, PartLoop
  <1>3. CASE EndLoop(q, fn)
    <2>1. fn \in PartReduces
      BY DEF PartReduces
    <2> HIDE DEF q, fn
    <2> QED  BY <1>1, <1>2, <1>3, <2>1, EndPartLoop
  <1>4. CASE /\ t.op = "TILDE"
             /\ NodeStack' = NodeStack \o TriviaTokens(buffer, q) \o <<t>>
                               \o TriviaTokens(t.hi, TriviaEnd(t.hi))
             /\ buffer' = TriviaEnd(t.hi)
             /\ ContextStack' = TopContext(ctxt)
             /\ ParsePrefix(AfterOperator(t))
             /\ UNCHANGED frames
    <2>1. t \in Token /\ t.hi \in 0..Len(input)
      BY <1>2, <1>4, TokenAt
    <2>2. F \in PlainFns /\ AnyClass(F) /\ F \notin {"NULL", "Parser_identity"}
      BY PartFnsArePlain DEF PartFns
    <2>3. ctxt \in BuildContext /\ ctxt.F = F /\ ctxt.Index = Parser_topContext.Index
      <3> HIDE DEF F
      <3> QED  BY <1>2, <2>2, Precedences, ContextWithFAndPrec
    <2> HIDE DEF q, t, ctxt, F
    <2>4. TriviaEnd(t.hi) \in (t.hi)..Len(input) /\ TriviaEnd(t.hi) \in 0..Len(input)
      BY <2>1, TriviaEndType
    <2>5. /\ NodeStack' \in Seq(Node) /\ Len(NodeStack) <= Len(NodeStack')
          /\ buffer' \in 0..Len(input)
      BY <1>2, <1>4, <2>1, <2>4, OperatorInLoop
    <2>6. call' \in Call /\ call'.fn = "parsePrefix" /\ EndOfFileNotTaken'
      BY <1>1, <1>4, <2>4, CallPrefix DEF AfterOperator, Inv
    <2> QED  BY <1>1, <1>2, <1>4, <2>2, <2>3, <2>5, <2>6, OperandStep
  <1> QED  BY <1>1, <1>3, <1>4

LEMMA TildeReduceStep == Inv /\ TildeParselet_reduce => Inv'
  <1> SUFFICES ASSUME Inv, TildeParselet_reduce PROVE Inv'
    OBVIOUS
  <1>1. GroupStack' \in Seq(AnyCloser)
    BY StackTypes DEF TildeParselet_reduce
  <1>2. {"TildeParselet_reduceTilde", "TildeParselet_reduceError"}
          \subseteq ReduceFns \ {InnerReduce}
    BY DEF ReduceFns, InnerReduce
  <1>3. {"Ternary", "SyntaxError"} \subseteq NodeKinds
        /\ {"TernaryTilde", "ExpectedTilde"} \subseteq Ops
    BY DEF NodeKinds, Ops
  <1> QED  BY <1>1, <1>2, <1>3, ReduceStep DEF TildeParselet_reduce

LEMMA ColonInfixStep == Inv /\ ColonParselet_parseInfix => Inv'
  <1> SUFFICES ASSUME Inv, ColonParselet_parseInfix PROVE Inv'
    OBVIOUS
  <1>1. /\ Calling("parseInfix") /\ UNCHANGED <<input, GroupStack, frames, exprs, aborted>>
        /\ \E F \in {"ColonParselet_reducePattern", "ColonParselet_reduceOptional",
                     "ColonParselet_reduceError"},
              Prec \in {PRECEDENCE.FAKE_PATTERNCOLON, PRECEDENCE.FAKE_OPTIONALCOLON} :
             TakeOperand(call.tok, [ContextWith(F) EXCEPT !.Prec = Prec])
    BY DEF ColonParselet_parseInfix, Infix
  <1>2. PICK F \in {"ColonParselet_reducePattern", "ColonParselet_reduceOptional",
                    "ColonParselet_reduceError"},
             Prec \in {PRECEDENCE.FAKE_PATTERNCOLON, PRECEDENCE.FAKE_OPTIONALCOLON} :
               TakeOperand(call.tok, [ContextWith(F) EXCEPT !.Prec = Prec])
    BY <1>1
  <1>3. F \in PartFns /\ Prec \in Nat
    BY Precedences DEF PartFns
  <1> QED  BY <1>1, <1>2, <1>3, OperandForFAndPrec

LEMMA SlashColonLoopStep == Inv /\ SlashColonParselet_parse1 => Inv'
  <1> SUFFICES ASSUME Inv, SlashColonParselet_parse1 PROVE Inv'
    OBVIOUS
  <1> DEFINE q    == TriviaEnd(buffer)
             Tok  == Tokenizer_currentToken(q)
             fn   == TagFunction(Tok.op)
             ctxt == [Parser_topContext EXCEPT !.Prec = PRECEDENCE.EQUAL]
             err  == "SlashColonParselet_reduceError"
  <1>1. /\ Calling("SlashColonParselet_parse1")
        /\ UNCHANGED <<input, GroupStack, exprs, aborted>>
        /\ \/ EndLoop(q, err)
           \/ /\ Tok.op \in {"EQUAL", "COLONEQUAL"}
              /\ NodeStack' = NodeStack \o TriviaTokens(buffer, q) /\ buffer' = q
              /\ ContextStack' = TopContext(ctxt) /\ Jump(fn, NoParselet, Tok)
              /\ UNCHANGED frames
    BY DEF SlashColonParselet_parse1, Looping
  <1>2. call.fn \in RunningFns /\ q \in buffer..Len(input) /\ q \in 0..Len(input)
    BY <1>1, PartLoop
  <1>3. CASE EndLoop(q, err)
    <2>1. err \in PartReduces
      BY DEF PartReduces
    <2> HIDE DEF q, err
    <2> QED  BY <1>1, <1>2, <1>3, <2>1, EndPartLoop
  <1>4. CASE /\ Tok.op \in {"EQUAL", "COLONEQUAL"}
             /\ NodeStack' = NodeStack \o TriviaTokens(buffer, q) /\ buffer' = q
             /\ ContextStack' = TopContext(ctxt) /\ Jump(fn, NoParselet, Tok)
             /\ UNCHANGED frames
    <2>1. Tok \in Token /\ Tok.op # "ENDOFFILE" /\ Tok.hi \in 0..Len(input)
      BY <1>2, <1>4, TokenAt
    <2>2. fn \in {"EqualParselet_parseInfixTag", "ColonEqualParselet_parseInfixTag"}
      BY DEF TagFunction
    <2>3. AnyClass("EqualParselet_parseInfixTag") /\ AnyClass("ColonEqualParselet_parseInfixTag")
      BY DEF AnyClass, ClassesFor
    <2>4. fn \in TakingFns \ {"parseInfix"} /\ fn \in RunningFns /\ fn \notin LoopFns
      BY <2>2, RunningFnsFacts DEF TakingFns, ParseFns, ContextSensitiveFns, LoopFns
    <2>5. NoParselet \in Parselet /\ NoParselet.class \in ClassesFor(fn)
      BY <2>2, <2>3, NoParseletType, AnyParseletIs
    <2> HIDE DEF q, Tok, fn
    <2>6. call' \in Call /\ call'.fn = fn /\ EndOfFileNotTaken'
      BY <1>1, <1>4, <2>1, <2>4, <2>5, CallTaking
    <2>7. /\ NodeStack' \in Seq(Node) /\ Len(NodeStack) <= Len(NodeStack')
          /\ buffer' \in 0..Len(input)
      BY <1>2, <1>4, StackTypes, WithTrivia
    <2>8. ctxt \in BuildContext /\ ctxt.Index = Parser_topContext.Index
      BY <1>2, RunningType, Precedences, SetPrec
    <2> HIDE DEF ctxt
    <2> QED  BY <1>1, <1>2, <1>4, <2>4, <2>6, <2>7, <2>8, StayStep
  <1> QED  BY <1>1, <1>3, <1>4

LEMMA TagType ==
  ASSUME Inv, call.fn \in {"EqualParselet_parseInfixTag",
                           "ColonEqualParselet_parseInfixTag"}
  PROVE  call.fn \in RunningFns /\ call.tok \in Token /\ call.tok.hi \in 0..Len(input)
  <1>1. call.fn \in RunningFns
    BY RunningFnsFacts DEF ParseFns, ContextSensitiveFns
  <1>2. call.tok \in Token /\ call.tok.hi \in Nat
    BY StackTypes, CallFields, TokenIsNode
  <1>3. call.tok.op # "ENDOFFILE" /\ Inside(call.tok)
    BY DEF Inv, EndOfFileNotTaken, TakingFns
  <1> QED  BY <1>1, <1>2, <1>3, StackTypes DEF Inside

LEMMA TakeUnsetStep ==
  ASSUME Inv, call.fn \in RunningFns, call.tok.hi \in 0..Len(input),
         NEW fn \in PartReduces, TakeUnset(fn),
         UNCHANGED <<input, GroupStack, frames, exprs, aborted>>
  PROVE  Inv'
  <1> DEFINE Dot   == AfterOperator(call.tok)
             nodes == WithOperator(call.tok)
  <1>1. /\ Dot.op = "DOT" /\ NodeStack' = Append(nodes, Dot) /\ buffer' = Dot.hi
        /\ Goto(fn) /\ UNCHANGED ContextStack
    BY DEF TakeUnset
  <1>2. call.tok \in Token
    BY StackTypes, CallFields
  <1>3. /\ nodes \in Seq(Node) /\ Len(NodeStack) + 1 <= Len(nodes)
        /\ Dot \in Token /\ Dot.hi \in 0..Len(input)
    BY <1>1, <1>2, OperatorType
  <1> HIDE DEF nodes, Dot
  <1>4. NodeStack' \in Seq(Node) /\ Len(NodeStack') = Len(nodes) + 1 /\ Len(nodes) \in Nat
    BY <1>1, <1>3, WithToken
  <1>5. Len(NodeStack) <= Len(NodeStack')
    BY <1>3, <1>4, StackTypes
  <1>6. /\ call' \in Call /\ call'.fn = fn /\ EndOfFileNotTaken'
        /\ fn \in RunningFns /\ fn \notin LoopFns
    BY <1>1, PartReducesRun, GotoRunning
  <1> QED  BY <1>1, <1>3, <1>4, <1>5, <1>6, StayInContext

LEMMA EqualInfixStep == Inv /\ EqualParselet_parseInfix => Inv'
  <1> SUFFICES ASSUME Inv, EqualParselet_parseInfix PROVE Inv'
    OBVIOUS
  <1>1. /\ Calling("parseInfix") /\ UNCHANGED <<input, GroupStack, frames, exprs, aborted>>
        /\ \/ TakeUnset("EqualParselet_reduceUnset")
           \/ TakeOperand(call.tok, ContextWith("EqualParselet_reduceSet"))
    BY DEF EqualParselet_parseInfix, Infix
  <1>2. "EqualParselet_reduceSet" \in PartFns /\ "EqualParselet_reduceUnset" \in PartReduces
    BY DEF PartFns, PartReduces
  <1> QED  BY <1>1, <1>2, InfixType, TakeUnsetStep, InfixForF

LEMMA EqualTagStep == Inv /\ EqualParselet_parseInfixTag => Inv'
  <1> SUFFICES ASSUME Inv, EqualParselet_parseInfixTag PROVE Inv'
    OBVIOUS
  <1>1. /\ Calling("EqualParselet_parseInfixTag")
        /\ UNCHANGED <<input, GroupStack, frames, exprs, aborted>>
        /\ \/ TakeUnset("EqualParselet_reduceTagUnset")
           \/ TakeOperand(call.tok, ContextWith("EqualParselet_reduceTagSet"))
    BY DEF EqualParselet_parseInfixTag, Looping
  <1>2. "EqualParselet_reduceTagSet" \in PartFns
        /\ "EqualParselet_reduceTagUnset" \in PartReduces
    BY DEF PartFns, PartReduces
  <1>3. call.fn \in RunningFns /\ call.tok \in Token /\ call.tok.hi \in 0..Len(input)
    BY <1>1, TagType DEF Calling
  <1> QED  BY <1>1, <1>2, <1>3, TakeUnsetStep, OperandForF

LEMMA ColonEqualTagStep == Inv /\ ColonEqualParselet_parseInfixTag => Inv'
  <1> SUFFICES ASSUME Inv, ColonEqualParselet_parseInfixTag PROVE Inv'
    OBVIOUS
  <1>1. /\ Calling("ColonEqualParselet_parseInfixTag")
        /\ UNCHANGED <<input, GroupStack, frames, exprs, aborted>>
        /\ TakeOperand(call.tok, ContextWith("ColonEqualParselet_reduceTagSetDelayed"))
    BY DEF ColonEqualParselet_parseInfixTag, Looping
  <1>2. "ColonEqualParselet_reduceTagSetDelayed" \in PartFns
    BY DEF PartFns
  <1>3. call.fn \in RunningFns /\ call.tok \in Token /\ call.tok.hi \in 0..Len(input)
    BY <1>1, TagType DEF Calling
  <1> QED  BY <1>1, <1>2, <1>3, OperandForF

LEMMA TagAndSpan_abortStep == Inv /\ TagAndSpan_abort => Inv'
  <1> SUFFICES ASSUME Inv, TagAndSpan_abort PROVE Inv'
    OBVIOUS
  <1>1. /\ call.fn \in {"EqualParselet_parseInfixTag", "ColonEqualParselet_parseInfixTag",
                        "SemiSemiParselet_parse1"}
        /\ NodeStack' = Append(NodesBelow(NodeStack), AbortNode)
        /\ ContextStack' = Pop(ContextStack) /\ Goto("Parser_tryContinue")
        /\ UNCHANGED <<input, buffer, GroupStack, frames, exprs, aborted>>
    BY DEF TagAndSpan_abort
  <1>2. call.fn \in RunningFns
    BY <1>1, RunningFnsFacts DEF ParseFns, ContextSensitiveFns
  <1>3. GroupStack' \in Seq(AnyCloser)
    BY <1>1, StackTypes
  <1> QED  BY <1>1, <1>2, <1>3, AbortStep

-----------------------------------------------------------------------------
(* Spans                                                                   *)

\* The calls of these functions take no token.
LEMMA GotoPart ==
  ASSUME NEW fn \in PartReduces \union {"SemiSemiParselet_parse1",
                                        "ColonColonParselet_parseLoop"}, Goto(fn)
  PROVE  /\ call' \in Call /\ call'.fn = fn /\ EndOfFileNotTaken'
         /\ fn \in RunningFns /\ fn \notin LoopFns
  <1>1. CASE fn \in PartReduces
    BY <1>1, PartReducesRun, GotoRunning
  <1>2. CASE fn \in {"SemiSemiParselet_parse1", "ColonColonParselet_parseLoop"}
    <2>1. fn \in RunningFns \ TakingFns /\ fn \notin LoopFns
      BY <1>2, RunningFnsFacts DEF ParseFns, ContextSensitiveFns, TakingFns, LoopFns
    <2>2. AnyClass(fn)
      BY <1>2 DEF AnyClass, ClassesFor
    <2> QED  BY <2>1, <2>2, GotoRunning
  <1> QED  BY <1>1, <1>2

LEMMA SemiSemiPrefixStep == Inv /\ SemiSemiParselet_parsePrefix => Inv'
  <1> SUFFICES ASSUME Inv, SemiSemiParselet_parsePrefix PROVE Inv'
    OBVIOUS
  <1> DEFINE t     == call.tok
             one   == Empty("FAKE_IMPLICITONE", t)
             nodes == Append(NodeStack, one)
             ctxt  == NewContext(Len(NodeStack), PRECEDENCE.SEMISEMI)
             I     == New("SemiSemi")
  <1>1. /\ Calling("parsePrefix") /\ call.P.class = "SemiSemi" /\ NodeStack' = nodes
        /\ ContextStack' = Parser_pushContext(nodes, PRECEDENCE.SEMISEMI)
        /\ Jump("parseInfix", I, t)
        /\ UNCHANGED <<input, buffer, GroupStack, frames, exprs, aborted>>
    BY DEF SemiSemiParselet_parsePrefix, Prefix
  <1>2. t \in Token /\ t.op # "ENDOFFILE" /\ t.hi \in 0..Len(input)
    BY <1>1, ExpectingType, PrefixTokenInside
  <1>3. one \in Token
    <2>1. "FAKE_IMPLICITONE" \in LeafKinds
      BY DEF LeafKinds, Fakes
    <2> QED  BY <1>2, <2>1, EmptyType
  <1>4. I \in Parselet /\ I.class \in InfixClasses
    BY NewType DEF InfixClasses
  <1> HIDE DEF one, I, t
  <1>5. /\ ContextStack' = Append(ContextStack, ctxt) /\ ctxt \in BuildContext
        /\ ctxt.Index = Len(NodeStack)
    BY <1>1, <1>3, Precedences, EnteredContext
  <1>6. nodes \in Seq(Node) /\ Len(nodes) = Len(NodeStack) + 1
    BY <1>3, StackTypes, WithToken
  <1>7. call' \in Call /\ call'.fn = "parseInfix" /\ EndOfFileNotTaken'
    BY <1>1, <1>2, <1>4, CallInfix
  <1>8. call'.fn \in RunningFns /\ call'.fn \notin LoopFns
    BY <1>7, RunningFnsFacts DEF LoopFns
  <1> HIDE DEF nodes, ctxt
  <1>9. /\ NodeStack' \in Seq(Node) /\ Len(NodeStack) + 1 <= Len(NodeStack')
        /\ buffer' \in 0..Len(input) /\ GroupStack' \in Seq(AnyCloser)
    BY <1>1, <1>6, StackTypes
  <1> QED  BY <1>1, <1>5, <1>7, <1>8, <1>9, EnterStep

LEMMA SemiSemiInfixStep == Inv /\ SemiSemiParselet_parseInfix => Inv'
  <1> SUFFICES ASSUME Inv, SemiSemiParselet_parseInfix PROVE Inv'
    OBVIOUS
  <1>1. /\ Calling("parseInfix") /\ NodeStack' = Append(NodeStack, call.tok)
        /\ buffer' = call.tok.hi /\ Goto("SemiSemiParselet_parse1")
        /\ UNCHANGED <<input, ContextStack, GroupStack, frames, exprs, aborted>>
    BY DEF SemiSemiParselet_parseInfix, Infix, TakeLeaf
  <1>2. call.fn \in RunningFns /\ call.tok \in Token /\ call.tok.hi \in 0..Len(input)
    BY <1>1, InfixType
  <1>3. /\ NodeStack' \in Seq(Node) /\ Len(NodeStack) <= Len(NodeStack')
        /\ buffer' \in 0..Len(input)
    BY <1>1, <1>2, StackTypes, WithToken
  <1>4. /\ call' \in Call /\ call'.fn = "SemiSemiParselet_parse1" /\ EndOfFileNotTaken'
        /\ call'.fn \in RunningFns /\ call'.fn \notin LoopFns
    BY <1>1, GotoPart
  <1> QED  BY <1>1, <1>2, <1>3, <1>4, StayInContext

\* What the span's functions see: a token on the same line and, when that is
\* not the end of the file, the one after it.
LEMMA SpanTokens ==
  ASSUME Inv, NEW fn \in {"SemiSemiParselet_parse1", "SemiSemiParselet_parse2"},
         Calling(fn)
  PROVE  LET q == TriviaButNotToplevelNewlinesEnd(buffer)
             t == Tokenizer_currentToken(q)
             r == TriviaButNotToplevelNewlinesEnd(t.hi)
         IN /\ call.fn \in RunningFns
            /\ q \in buffer..Len(input) /\ q \in 0..Len(input)
            /\ t \in Token /\ t.lo = q
            /\ NodeStack \o TriviaTokens(buffer, q) \in Seq(Node)
            /\ Len(NodeStack) <= Len(NodeStack \o TriviaTokens(buffer, q))
            /\ t.op # "ENDOFFILE" =>
                 /\ t.hi \in 0..Len(input)
                 /\ r \in (t.hi)..Len(input) /\ r \in 0..Len(input)
  <1> DEFINE q == TriviaButNotToplevelNewlinesEnd(buffer)
             t == Tokenizer_currentToken(q)
             r == TriviaButNotToplevelNewlinesEnd(t.hi)
  <1>1. call.fn \in RunningFns /\ q \in buffer..Len(input) /\ q \in 0..Len(input)
    BY PartLoop
  <1>2. t \in Token /\ t.lo = q /\ (t.op # "ENDOFFILE" => t.hi \in 0..Len(input))
    BY <1>1, TokenAt
  <1> HIDE DEF q, t
  <1>3. /\ NodeStack \o TriviaTokens(buffer, q) \in Seq(Node)
        /\ Len(NodeStack) <= Len(NodeStack \o TriviaTokens(buffer, q))
    BY <1>1, StackTypes, WithTrivia
  <1>4. t.op # "ENDOFFILE" => r \in (t.hi)..Len(input) /\ r \in 0..Len(input)
    BY <1>2, TriviaEndType
  <1> QED  BY <1>1, <1>2, <1>3, <1>4 DEF q, t

\* The span ends: its implicit end may have been appended.
LEMMA SpanEnds ==
  ASSUME Inv, call.fn \in RunningFns, NodeStack' \in Seq(Node),
         Len(NodeStack) <= Len(NodeStack'), buffer' \in 0..Len(input),
         Goto("SemiSemiParselet_reduceBinary"),
         UNCHANGED <<input, ContextStack, GroupStack, frames, exprs, aborted>>
  PROVE  Inv'
  <1>1. "SemiSemiParselet_reduceBinary" \in PartReduces
    BY DEF PartReduces
  <1> QED  BY <1>1, GotoPart, StayInContext

\* The span goes on with the operand at r.
LEMMA SpanContinues ==
  ASSUME Inv, call.fn \in RunningFns, NEW F \in PartFns, NodeStack' \in Seq(Node),
         Len(NodeStack) <= Len(NodeStack'), NEW r \in 0..Len(input), buffer' = r,
         ContextStack' = TopContext(ContextWith(F)),
         ParsePrefix(Tokenizer_currentToken(r)),
         UNCHANGED <<input, GroupStack, frames, exprs, aborted>>
  PROVE  Inv'
  <1> DEFINE ctxt == ContextWith(F)
  <1>1. /\ ctxt \in BuildContext /\ ctxt.F = F /\ ctxt.Index = Parser_topContext.Index
        /\ F \notin {"NULL", "Parser_identity"}
    BY PartFnsArePlain, ContextWithF
  <1>2. call' \in Call /\ call'.fn = "parsePrefix" /\ EndOfFileNotTaken'
    BY CallPrefix DEF Inv
  <1>3. ContextStack' = TopContext(ctxt)
    OBVIOUS
  <1> HIDE DEF ctxt
  <1> QED  BY <1>1, <1>2, <1>3, OperandStep

LEMMA SemiSemiLoop1Step == Inv /\ SemiSemiParselet_parse1 => Inv'
  <1> SUFFICES ASSUME Inv, SemiSemiParselet_parse1 PROVE Inv'
    OBVIOUS
  <1> DEFINE q     == TriviaButNotToplevelNewlinesEnd(buffer)
             t     == Tokenizer_currentToken(q)
             nodes == NodeStack \o TriviaTokens(buffer, q)
             all   == Empty("FAKE_IMPLICITALL", t)
             All   == Append(nodes, all)
             r     == TriviaButNotToplevelNewlinesEnd(t.hi)
             last  == Append(All, t) \o TriviaTokens(t.hi, r)
             F     == "SemiSemiParselet_parse2"
             G     == "SemiSemiParselet_reduceTernary"
  <1>1. /\ Calling("SemiSemiParselet_parse1")
        /\ UNCHANGED <<input, GroupStack, frames, exprs, aborted>>
        /\ \/ /\ NodeStack' = All
              /\ buffer' \in {q, t.lo}
              /\ Goto("SemiSemiParselet_reduceBinary")
              /\ UNCHANGED ContextStack
           \/ /\ NodeStack' = nodes
              /\ buffer' = q
              /\ ContextStack' = TopContext(ContextWith(F))
              /\ ParsePrefix(Tokenizer_currentToken(q))
           \/ /\ t.op = "SEMISEMI"
              /\ NodeStack' = last
              /\ buffer' = r
              /\ ContextStack' = TopContext(ContextWith(G))
              /\ ParsePrefix(Tokenizer_currentToken(r))
    BY DEF SemiSemiParselet_parse1, Looping, Token_reset
  <1>2. /\ call.fn \in RunningFns /\ q \in 0..Len(input)
        /\ t \in Token /\ t.lo = q
        /\ nodes \in Seq(Node) /\ Len(NodeStack) <= Len(nodes)
        /\ t.op # "ENDOFFILE" =>
             t.hi \in 0..Len(input) /\ r \in (t.hi)..Len(input) /\ r \in 0..Len(input)
    BY <1>1, SpanTokens
  <1>3. F \in PartFns /\ G \in PartFns
    BY DEF PartFns
  <1> HIDE DEF t, nodes
  <1>4. all \in Token
    <2>1. "FAKE_IMPLICITALL" \in LeafKinds
      BY DEF LeafKinds, Fakes
    <2> QED  BY <1>2, <2>1, EmptyType
  <1>5. All \in Seq(Node) /\ Len(NodeStack) <= Len(All)
    <2> HIDE DEF all
    <2>1. All \in Seq(Node) /\ Len(All) = Len(nodes) + 1 /\ Len(nodes) \in Nat
      BY <1>2, <1>4, WithToken
    <2> QED  BY <1>2, <2>1, StackTypes
  <1> HIDE DEF All, F, G
  <1>6. CASE /\ NodeStack' = All
             /\ buffer' \in {q, t.lo}
             /\ Goto("SemiSemiParselet_reduceBinary")
             /\ UNCHANGED ContextStack
    <2> HIDE DEF q
    <2> QED  BY <1>1, <1>2, <1>5, <1>6, SpanEnds
  <1>7. CASE /\ NodeStack' = nodes
             /\ buffer' = q
             /\ ContextStack' = TopContext(ContextWith(F))
             /\ ParsePrefix(Tokenizer_currentToken(q))
    <2> HIDE DEF q
    <2> QED  BY <1>1, <1>2, <1>3, <1>7, SpanContinues
  <1>8. CASE /\ t.op = "SEMISEMI"
             /\ NodeStack' = last
             /\ buffer' = r
             /\ ContextStack' = TopContext(ContextWith(G))
             /\ ParsePrefix(Tokenizer_currentToken(r))
    <2>1. t.hi \in 0..Len(input) /\ r \in (t.hi)..Len(input) /\ r \in 0..Len(input)
      BY <1>2, <1>8
    <2> DEFINE s == Append(All, t)
    <2>2. s \in Seq(Node) /\ Len(s) = Len(All) + 1 /\ Len(All) \in Nat
      BY <1>2, <1>5, WithToken
    <2> HIDE DEF r, s
    <2>3. s \o TriviaTokens(t.hi, r) \in Seq(Node) /\ Len(s) <= Len(s \o TriviaTokens(t.hi, r))
      BY <2>1, <2>2, WithTrivia
    <2>4. last \in Seq(Node) /\ Len(s) <= Len(last)
      BY <2>3 DEF s
    <2> HIDE DEF last
    <2>5. Len(NodeStack) <= Len(last)
      <3>1. Len(last) \in Nat /\ Len(NodeStack) \in Nat
        BY <2>4, StackTypes
      <3> QED  BY <1>5, <2>2, <2>4, <3>1
    <2> QED  BY <1>1, <1>2, <1>3, <1>8, <2>1, <2>4, <2>5, SpanContinues
  <1> QED  BY <1>1, <1>6, <1>7, <1>8

LEMMA SemiSemiLoop2Step == Inv /\ SemiSemiParselet_parse2 => Inv'
  <1> SUFFICES ASSUME Inv, SemiSemiParselet_parse2 PROVE Inv'
    OBVIOUS
  <1> DEFINE q       == TriviaButNotToplevelNewlinesEnd(buffer)
             Trivia1 == TriviaTokens(buffer, q)
             t       == Tokenizer_currentToken(q)
             r       == TriviaButNotToplevelNewlinesEnd(t.hi)
             last    == NodeStack \o Trivia1 \o <<t>> \o TriviaTokens(t.hi, r)
             G       == "SemiSemiParselet_reduceTernary"
  <1>1. /\ Calling("SemiSemiParselet_parse2")
        /\ UNCHANGED <<input, GroupStack, frames, exprs, aborted>>
        /\ \/ /\ \/ buffer' = TriviaSeq_reset(q, Trivia1)
                 \/ buffer' = TriviaSeq_reset(t.lo, Trivia1)
              /\ Goto("SemiSemiParselet_reduceBinary")
              /\ UNCHANGED <<NodeStack, ContextStack>>
           \/ /\ t.op = "SEMISEMI"
              /\ NodeStack' = last
              /\ buffer' = r
              /\ ContextStack' = TopContext(ContextWith(G))
              /\ ParsePrefix(Tokenizer_currentToken(r))
    BY DEF SemiSemiParselet_parse2, Looping, Token_reset, GiveBack
  <1>2. /\ call.fn \in RunningFns /\ q \in buffer..Len(input)
        /\ t \in Token /\ t.lo = q
        /\ t.op # "ENDOFFILE" =>
             t.hi \in 0..Len(input) /\ r \in (t.hi)..Len(input) /\ r \in 0..Len(input)
    BY <1>1, SpanTokens
  <1>3. CASE /\ \/ buffer' = TriviaSeq_reset(q, Trivia1)
                \/ buffer' = TriviaSeq_reset(t.lo, Trivia1)
             /\ Goto("SemiSemiParselet_reduceBinary")
             /\ UNCHANGED <<NodeStack, ContextStack>>
    <2> HIDE DEF q, t
    <2>1. buffer' = buffer
      BY <1>2, <1>3, StackTypes, TriviaResetType
    <2>2. /\ NodeStack' \in Seq(Node) /\ Len(NodeStack) <= Len(NodeStack')
          /\ buffer' \in 0..Len(input)
      BY <1>3, <2>1, StackTypes
    <2> QED  BY <1>1, <1>2, <1>3, <2>2, SpanEnds
  <1>4. CASE /\ t.op = "SEMISEMI"
             /\ NodeStack' = last
             /\ buffer' = r
             /\ ContextStack' = TopContext(ContextWith(G))
             /\ ParsePrefix(Tokenizer_currentToken(r))
    <2>1. t.hi \in 0..Len(input) /\ r \in (t.hi)..Len(input) /\ r \in 0..Len(input)
      BY <1>2, <1>4
    <2>2. G \in PartFns
      BY DEF PartFns
    <2> HIDE DEF q, t, r, G
    <2>3. last \in Seq(Node) /\ Len(NodeStack) <= Len(last)
      BY <1>2, <2>1, OperatorInLoop
    <2> HIDE DEF last
    <2> QED  BY <1>1, <1>2, <1>4, <2>1, <2>2, <2>3, SpanContinues
  <1> QED  BY <1>1, <1>3, <1>4

-----------------------------------------------------------------------------
(* Integrals                                                               *)

LEMMA IntegralPart ==
  /\ "IntegralParselet_parse1" \in PlainFns
  /\ "IntegralParselet_reduceIntegrate" \in PlainFns
  /\ "IntegralParselet_parse1" \in RunningFns \ TakingFns
  /\ "IntegralParselet_parse1" \notin LoopFns
  /\ ClassesFor("IntegralParselet_parse1") = {"Integral"}
  /\ ClassesFor("IntegralParselet_reduceIntegrate") = {"Integral"}
  /\ ClassesFor("IntegralParselet_reduceIntegral") = {"Integral"}
  <1>1. "IntegralParselet_parse1" \in RunningFns
    BY RunningFnsFacts DEF ParseFns, ContextSensitiveFns
  <1>2. /\ "IntegralParselet_parse1" \in PlainFns
        /\ "IntegralParselet_reduceIntegrate" \in PlainFns
    BY DEF PlainFns, ContextFns, ReduceFns, LoopFns
  <1>3. "IntegralParselet_parse1" \notin TakingFns \union LoopFns
    BY DEF TakingFns, ContextSensitiveFns, LoopFns
  <1> QED  BY <1>1, <1>2, <1>3 DEF ClassesFor

LEMMA IntegralPrefixStep == Inv /\ IntegralParselet_parsePrefix => Inv'
  <1> SUFFICES ASSUME Inv, IntegralParselet_parsePrefix PROVE Inv'
    OBVIOUS
  <1> DEFINE t     == call.tok
             P     == call.P
             n     == Len(NodeStack)
             prec  == PRECEDENCE.CLASS_INTEGRATIONOPERATORS
             r     == NewContext(n, prec)
             Tok   == AfterOperator(t)
             one   == Empty("FAKE_IMPLICITONE", Tok)
             nodes == WithOperator(t)
             F     == "IntegralParselet_parse1"
             ctxt  == [r EXCEPT !.F = F, !.P = P]
  <1>1. /\ Calling("parsePrefix") /\ P.class = "Integral" /\ buffer' = Tok.lo
        /\ UNCHANGED <<input, GroupStack, frames, exprs, aborted>>
        /\ \/ /\ Tok.op \in DifferentialDs
              /\ NodeStack' = Append(nodes, one)
              /\ ContextStack' = Append(ContextStack, r)
              /\ Jump(F, P, Tok)
           \/ /\ NodeStack' = nodes
              /\ ContextStack' = Append(ContextStack, ctxt)
              /\ ParsePrefix(Tok)
    BY DEF IntegralParselet_parsePrefix, Prefix
  <1>2. t \in Token /\ t.hi \in 0..Len(input) /\ P \in Parselet
    BY <1>1, ExpectingType, PrefixTokenInside
  <1>3. /\ nodes \in Seq(Node) /\ n + 1 <= Len(nodes)
        /\ TriviaEnd(t.hi) \in 0..Len(input) /\ Tok.lo = TriviaEnd(t.hi)
        /\ Tok = Tokenizer_currentToken(TriviaEnd(t.hi)) /\ Tok \in Token
        /\ (Tok.op # "ENDOFFILE" => Tok.hi \in 0..Len(input))
    BY <1>2, OperatorType
  <1>4. n \in Nat /\ prec \in Nat /\ P.class \in ClassesFor(F)
    BY <1>1, StackTypes, Precedences, IntegralPart
  <1>5. CASE /\ Tok.op \in DifferentialDs
             /\ NodeStack' = Append(nodes, one)
             /\ ContextStack' = Append(ContextStack, r)
             /\ Jump(F, P, Tok)
    <2>1. one \in Token
      <3>1. "FAKE_IMPLICITONE" \in LeafKinds
        BY DEF LeafKinds, Fakes
      <3> HIDE DEF Tok
      <3> QED  BY <1>3, <3>1, EmptyType
    <2>2. Tok.op # "ENDOFFILE"
      BY <1>5 DEF DifferentialDs
    <2>3. r \in BuildContext /\ r.Index = n
      <3> HIDE DEF n, prec
      <3> QED  BY <1>4, NewContextType
    <2> HIDE DEF nodes, Tok, one, r, P
    <2>4. call' \in Call /\ call'.fn = F
      BY <1>2, <1>3, <1>4, <1>5, IntegralPart, RunningFnsExclude, CallIntro DEF Jump
    <2>5. EndOfFileNotTaken'
      <3>1. call'.tok = Tok /\ Tok.hi <= Len(input)
        BY <1>3, <1>5, <2>2 DEF Jump
      <3> QED  BY <1>1, <2>4, <3>1, IntegralPart
            DEF EndOfFileNotTaken, Inside, Calling
    <2>6. NodeStack' \in Seq(Node) /\ Len(NodeStack') = Len(nodes) + 1 /\ Len(nodes) \in Nat
      BY <1>3, <1>5, <2>1, WithToken
    <2>7. /\ n + 1 <= Len(NodeStack') /\ buffer' \in 0..Len(input)
          /\ GroupStack' \in Seq(AnyCloser)
      BY <1>1, <1>3, <1>4, <2>6, StackTypes
    <2>8. call'.fn \in RunningFns /\ call'.fn \notin LoopFns
      BY <2>4, IntegralPart
    <2> QED  BY <1>1, <1>5, <2>3, <2>4, <2>5, <2>6, <2>7, <2>8, EnterStep
  <1>6. CASE /\ NodeStack' = nodes
             /\ ContextStack' = Append(ContextStack, ctxt)
             /\ ParsePrefix(Tok)
    <2>1. r = [F |-> "NULL", P |-> NoParselet, Index |-> n, Prec |-> prec]
      BY DEF NewContext
    <2>2. ctxt = [r EXCEPT !.F = F, !.P = P]
      OBVIOUS
    <2>3. F \in PlainFns /\ F \notin {"NULL", "Parser_identity"}
      BY IntegralPart
    <2>4. call' \in Call /\ call'.fn = "parsePrefix" /\ EndOfFileNotTaken'
      BY <1>1, <1>3, <1>6, CallPrefix DEF Inv
    <2>5. /\ NodeStack' \in Seq(Node) /\ n + 1 <= Len(NodeStack')
          /\ buffer' \in 0..Len(input)
      BY <1>1, <1>3, <1>6
    <2> HIDE DEF nodes, Tok, r, ctxt, P, prec, F, t
    <2>6. ctxt = [F |-> F, P |-> P, Index |-> n, Prec |-> prec]
      BY <2>1, <2>2, ReplaceFAndP
    <2>7. ctxt \in BuildContext /\ ctxt.F = F /\ ctxt.Index = n
      <3> HIDE DEF n
      <3> QED  BY <1>2, <1>4, <2>3, <2>6, PlainContext
    <2> QED  BY <1>1, <1>6, <2>3, <2>4, <2>5, <2>7, EnterOperandStep
  <1> QED  BY <1>1, <1>5, <1>6

LEMMA IntegralLoopStep == Inv /\ IntegralParselet_parse1 => Inv'
  <1> SUFFICES ASSUME Inv, IntegralParselet_parse1 PROVE Inv'
    OBVIOUS
  <1> DEFINE q    == TriviaEnd(buffer)
             Tok  == Tokenizer_currentToken(q)
             fn   == "IntegralParselet_reduceIntegral"
             F    == "IntegralParselet_reduceIntegrate"
             P    == call.P
             ctxt == [ContextWith(F) EXCEPT !.P = P]
  <1>1. /\ Calling("IntegralParselet_parse1")
        /\ UNCHANGED <<input, GroupStack, exprs, aborted>>
        /\ \/ EndLoop(q, fn)
           \/ /\ NodeStack' = NodeStack \o TriviaTokens(buffer, q) /\ buffer' = q
              /\ ContextStack' = TopContext(ctxt)
              /\ ParsePrefix(Tokenizer_currentToken(q))
              /\ UNCHANGED frames
    BY DEF IntegralParselet_parse1, Looping
  <1>2. call.fn \in RunningFns /\ q \in buffer..Len(input) /\ q \in 0..Len(input)
    BY <1>1, PartLoop
  <1>3. P \in Parselet /\ P.class = "Integral"
    BY <1>1, StackTypes, CallFields, IntegralPart DEF Calling
  <1>4. CASE EndLoop(q, fn)
    <2>1. fn \in ReduceFns \ {InnerReduce} /\ P.class \in ClassesFor(fn)
      BY <1>3, IntegralPart DEF ReduceFns, InnerReduce
    <2> HIDE DEF q, fn
    <2> QED  BY <1>1, <1>2, <1>4, <2>1, EndLoopStep
  <1>5. CASE /\ NodeStack' = NodeStack \o TriviaTokens(buffer, q) /\ buffer' = q
             /\ ContextStack' = TopContext(ctxt)
             /\ ParsePrefix(Tokenizer_currentToken(q))
             /\ UNCHANGED frames
    <2>1. F \in PlainFns /\ P.class \in ClassesFor(F) /\ F \notin {"NULL", "Parser_identity"}
      BY <1>3, IntegralPart
    <2>2. ctxt \in BuildContext /\ ctxt.F = F /\ ctxt.Index = Parser_topContext.Index
      <3> HIDE DEF F, P
      <3> QED  BY <1>2, <1>3, <2>1, ContextWithFAndP
    <2> HIDE DEF q, ctxt, F
    <2>3. /\ NodeStack' \in Seq(Node) /\ Len(NodeStack) <= Len(NodeStack')
          /\ buffer' \in 0..Len(input)
      BY <1>2, <1>5, StackTypes, WithTrivia
    <2>4. call' \in Call /\ call'.fn = "parsePrefix" /\ EndOfFileNotTaken'
      BY <1>1, <1>2, <1>5, CallPrefix DEF Inv
    <2> QED  BY <1>1, <1>2, <1>5, <2>1, <2>2, <2>3, <2>4, OperandStep
  <1> QED  BY <1>1, <1>4, <1>5

LEMMA TernaryStep == Inv /\ TernaryNext => Inv'
  <1> SUFFICES ASSUME Inv, TernaryNext PROVE Inv'
    OBVIOUS
  <1>1. CASE ColonParselet_reduce
    BY <1>1, ReduceStepFor DEF ColonParselet_reduce, ReduceFns, InnerReduce, NodeKinds, Ops
  <1>2. CASE SlashColonParselet_parseInfix
    BY <1>2, InfixForF DEF SlashColonParselet_parseInfix, Infix, PartFns
  <1>3. CASE SlashColonParselet_reduceError
    BY <1>3, ReduceStepFor DEF SlashColonParselet_reduceError, ReduceFns, InnerReduce,
       NodeKinds, Ops
  <1>4. CASE EqualParselet_reduce
    BY <1>4, ReduceStepFor DEF EqualParselet_reduce, ReduceFns, InnerReduce, NodeKinds, Ops
  <1>5. CASE ColonEqualParselet_parseInfix
    BY <1>5, InfixForF DEF ColonEqualParselet_parseInfix, Infix, PartFns
  <1>6. CASE ColonEqualParselet_reduce
    BY <1>6, ReduceStepFor DEF ColonEqualParselet_reduce, ReduceFns, InnerReduce,
       NodeKinds, Ops
  <1>7. CASE SemiSemiParselet_reduce
    BY <1>7, ReduceStepFor DEF SemiSemiParselet_reduce, ReduceFns, InnerReduce,
       NodeKinds, Ops
  <1>8. CASE IntegralParselet_reduce
    BY <1>8, ReduceStepFor DEF IntegralParselet_reduce, ReduceFns, InnerReduce, NodeKinds
  <1> QED  BY <1>1, <1>2, <1>3, <1>4, <1>5, <1>6, <1>7, <1>8, TildeInfixStep,
       TildeLoopStep, TildeReduceStep, ColonInfixStep, SlashColonLoopStep,
       EqualInfixStep, EqualTagStep, ColonEqualTagStep, TagAndSpan_abortStep,
       SemiSemiPrefixStep, SemiSemiInfixStep, SemiSemiLoop1Step, SemiSemiLoop2Step,
       IntegralPrefixStep, IntegralLoopStep DEF TernaryNext

-----------------------------------------------------------------------------
(* Message names and file operators                                        *)

LEMMA TakeTagStep ==
  ASSUME Inv, call.fn \in RunningFns, NEW nodes \in Seq(Node),
         Len(NodeStack) <= Len(nodes), NEW t \in Token, t.hi \in 0..Len(input),
         TakeTag(nodes, t),
         UNCHANGED <<input, ContextStack, GroupStack, frames, exprs, aborted>>
  PROVE  Inv'
  <1> DEFINE tag  == Tokenizer_currentToken_stringifyAsTag(t.hi)
             pair == <<t, tag>>
  <1>1. tag \in Token /\ tag.hi \in (t.hi)..Len(input)
    BY StackTypes, TagTokenType
  <1>2. NodeStack' = nodes \o pair /\ buffer' = tag.hi /\ Goto("ColonColonParselet_parseLoop")
    BY DEF TakeTag
  <1> HIDE DEF tag
  <1>3. pair \in Seq(Node)
    BY <1>1, TokenIsNode
  <1> HIDE DEF pair
  <1>4. NodeStack' \in Seq(Node) /\ Len(nodes) <= Len(NodeStack') /\ Len(nodes) \in Nat
    BY <1>2, <1>3, ConcatNodes
  <1>5. Len(NodeStack) <= Len(NodeStack') /\ buffer' \in 0..Len(input)
    BY <1>1, <1>2, <1>4, StackTypes
  <1>6. /\ call' \in Call /\ call'.fn = "ColonColonParselet_parseLoop" /\ EndOfFileNotTaken'
        /\ call'.fn \in RunningFns /\ call'.fn \notin LoopFns
    BY <1>2, GotoPart
  <1> QED  BY <1>4, <1>5, <1>6, StayInContext

LEMMA ColonColonInfixStep == Inv /\ ColonColonParselet_parseInfix => Inv'
  <1> SUFFICES ASSUME Inv, ColonColonParselet_parseInfix PROVE Inv'
    OBVIOUS
  <1>1. /\ Calling("parseInfix") /\ TakeTag(NodeStack, call.tok)
        /\ UNCHANGED <<input, ContextStack, GroupStack, frames, exprs, aborted>>
    BY DEF ColonColonParselet_parseInfix, Infix
  <1>2. NodeStack \in Seq(Node) /\ Len(NodeStack) <= Len(NodeStack)
    BY StackTypes
  <1> QED  BY <1>1, <1>2, InfixType, TakeTagStep

LEMMA ColonColonLoopStep == Inv /\ ColonColonParselet_parseLoop => Inv'
  <1> SUFFICES ASSUME Inv, ColonColonParselet_parseLoop PROVE Inv'
    OBVIOUS
  <1> DEFINE q     == TriviaEnd(buffer)
             Tok1  == Tokenizer_currentToken(q)
             fn    == "ColonColonParselet_reduceMessageName"
             nodes == NodeStack \o TriviaTokens(buffer, q)
  <1>1. /\ Calling("ColonColonParselet_parseLoop")
        /\ UNCHANGED <<input, GroupStack, exprs, aborted>>
        /\ \/ EndLoop(q, fn)
           \/ /\ Tok1.op = "COLONCOLON" /\ TakeTag(nodes, Tok1)
              /\ UNCHANGED <<ContextStack, frames>>
    BY DEF ColonColonParselet_parseLoop, Looping
  <1>2. call.fn \in RunningFns /\ q \in buffer..Len(input) /\ q \in 0..Len(input)
    BY <1>1, PartLoop
  <1>3. CASE EndLoop(q, fn)
    <2>1. fn \in PartReduces
      BY DEF PartReduces
    <2> HIDE DEF q, fn
    <2> QED  BY <1>1, <1>2, <1>3, <2>1, EndPartLoop
  <1>4. CASE /\ Tok1.op = "COLONCOLON" /\ TakeTag(nodes, Tok1)
             /\ UNCHANGED <<ContextStack, frames>>
    <2>1. Tok1 \in Token /\ Tok1.hi \in 0..Len(input)
      BY <1>2, <1>4, TokenAt
    <2> HIDE DEF q, Tok1
    <2>2. nodes \in Seq(Node) /\ Len(NodeStack) <= Len(nodes)
      BY <1>2, StackTypes, WithTrivia
    <2> HIDE DEF nodes
    <2> QED  BY <1>1, <1>2, <1>4, <2>1, <2>2, TakeTagStep
  <1> QED  BY <1>1, <1>3, <1>4

\* A file name is taken and the function that reduces it called.
LEMMA TakeFileType ==
  ASSUME Inv, NEW t \in Token, t.hi \in 0..Len(input), NEW fn \in PartReduces,
         TakeFile(t, fn)
  PROVE  /\ NodeStack' \in Seq(Node) /\ Len(NodeStack) + 1 <= Len(NodeStack')
         /\ buffer' \in 0..Len(input)
         /\ call' \in Call /\ call'.fn = fn /\ EndOfFileNotTaken'
         /\ fn \in RunningFns /\ fn \notin LoopFns
  <1> DEFINE q      == FileTriviaEnd(t.hi)
             file   == Tokenizer_currentToken_stringifyAsFile(q)
             trivia == FileTriviaTokens(t.hi, q)
             taken  == Append(NodeStack, t)
             before == taken \o trivia
  <1>1. q \in (t.hi)..Len(input) /\ q \in 0..Len(input)
    BY TriviaEndType
  <1>2. NodeStack' = before \o <<file>> /\ buffer' = file.hi /\ Goto(fn)
    BY DEF TakeFile
  <1>3. file \in Token /\ file.hi \in q..Len(input)
    <2> HIDE DEF q
    <2> QED  BY <1>1, StackTypes, FileTokenType
  <1>4. trivia \in Seq(Node)
    <2>1. trivia \in Seq(Token)
      <3> HIDE DEF q
      <3> QED  BY <1>1, StackTypes, FileTriviaType
    <2> QED  BY <2>1, TokensAreNodes
  <1>5. taken \in Seq(Node) /\ Len(taken) = Len(NodeStack) + 1
    BY StackTypes, WithToken
  <1> HIDE DEF q, file, trivia, taken
  <1>6. before \in Seq(Node) /\ Len(taken) <= Len(before)
    BY <1>4, <1>5, ConcatNodes
  <1> HIDE DEF before
  <1>7. NodeStack' \in Seq(Node) /\ Len(NodeStack') = Len(before) + 1
        /\ Len(before) \in Nat
    BY <1>2, <1>3, <1>6, WithToken
  <1>8. Len(NodeStack) + 1 <= Len(NodeStack') /\ buffer' \in 0..Len(input)
    BY <1>1, <1>2, <1>3, <1>5, <1>6, <1>7, StackTypes
  <1> QED  BY <1>2, <1>7, <1>8, GotoPart

LEMMA PutStep ==
  ASSUME Inv, Calling("parseInfix"), NEW fn \in PartReduces, TakeFile(call.tok, fn),
         UNCHANGED <<input, ContextStack, GroupStack, frames, exprs, aborted>>
  PROVE  Inv'
  <1>1. call.fn \in RunningFns /\ call.tok \in Token /\ call.tok.hi \in 0..Len(input)
    BY InfixType
  <1>2. /\ NodeStack' \in Seq(Node) /\ Len(NodeStack) + 1 <= Len(NodeStack')
        /\ buffer' \in 0..Len(input)
        /\ call' \in Call /\ call'.fn = fn /\ EndOfFileNotTaken'
        /\ fn \in RunningFns /\ fn \notin LoopFns
    BY <1>1, TakeFileType
  <1>3. Len(NodeStack) <= Len(NodeStack')
    BY <1>2, StackTypes
  <1> QED  BY <1>1, <1>2, <1>3, StayInContext

LEMMA LessLessStep == Inv /\ LessLessParselet_parsePrefix => Inv'
  <1> SUFFICES ASSUME Inv, LessLessParselet_parsePrefix PROVE Inv'
    OBVIOUS
  <1> DEFINE prec == PRECEDENCE.HIGHEST
             ctxt == NewContext(Len(NodeStack), prec)
             fn   == "LessLessParselet_reduceGet"
  <1>1. /\ Calling("parsePrefix") /\ call.P.class = "LessLess" /\ TakeFile(call.tok, fn)
        /\ ContextStack' = Append(ContextStack, ctxt)
        /\ UNCHANGED <<input, GroupStack, frames, exprs, aborted>>
    BY DEF LessLessParselet_parsePrefix, Prefix
  <1>2. call.tok \in Token /\ call.tok.hi \in 0..Len(input)
    BY <1>1, ExpectingType, PrefixTokenInside
  <1>3. prec \in Nat /\ Len(NodeStack) \in Nat
    BY StackTypes, Precedences
  <1>4. fn \in PartReduces
    BY DEF PartReduces
  <1> HIDE DEF prec, fn
  <1>5. ctxt \in BuildContext /\ ctxt.Index = Len(NodeStack)
    BY <1>3, NewContextType
  <1> HIDE DEF ctxt
  <1>6. /\ NodeStack' \in Seq(Node) /\ Len(NodeStack) + 1 <= Len(NodeStack')
        /\ buffer' \in 0..Len(input)
        /\ call' \in Call /\ call'.fn = fn /\ EndOfFileNotTaken'
        /\ fn \in RunningFns /\ fn \notin LoopFns
    BY <1>1, <1>2, <1>4, TakeFileType
  <1>7. GroupStack' \in Seq(AnyCloser)
    BY <1>1, StackTypes
  <1> QED  BY <1>1, <1>5, <1>6, <1>7, EnterStep

LEMMA StringifyStep == Inv /\ StringifyNext => Inv'
  <1> SUFFICES ASSUME Inv, StringifyNext PROVE Inv'
    OBVIOUS
  <1>1. CASE GreaterGreaterParselet_parseInfix
    BY <1>1, PutStep DEF GreaterGreaterParselet_parseInfix, Infix, PartReduces
  <1>2. CASE GreaterGreaterGreaterParselet_parseInfix
    BY <1>2, PutStep DEF GreaterGreaterGreaterParselet_parseInfix, Infix, PartReduces
  <1>3. CASE ColonColonParselet_reduceMessageName
    BY <1>3, ReduceStepFor DEF ColonColonParselet_reduceMessageName, ReduceFns,
       InnerReduce, NodeKinds, Ops
  <1>4. CASE GreaterGreaterParselet_reducePut
    BY <1>4, ReduceStepFor DEF GreaterGreaterParselet_reducePut, ReduceFns, InnerReduce,
       NodeKinds, Ops
  <1>5. CASE GreaterGreaterGreaterParselet_reducePutAppend
    BY <1>5, ReduceStepFor DEF GreaterGreaterGreaterParselet_reducePutAppend, ReduceFns,
       InnerReduce, NodeKinds, Ops
  <1>6. CASE LessLessParselet_reduceGet
    BY <1>6, ReduceStepFor DEF LessLessParselet_reduceGet, ReduceFns, InnerReduce,
       NodeKinds, Ops
  <1> QED  BY <1>1, <1>2, <1>3, <1>4, <1>5, <1>6, ColonColonInfixStep,
       ColonColonLoopStep, LessLessStep DEF StringifyNext

-----------------------------------------------------------------------------
(* The theorems                                                            *)

\* Every step of the parser, and an abort, preserves the invariant.
LEMMA NextInv == Inv /\ [Next]_vars => Inv'
  <1> SUFFICES ASSUME Inv, [Next]_vars PROVE Inv'
    OBVIOUS
  <1>1. CASE Step
    BY <1>1, concreteParseStep, concreteParse_pushStep, Parser_parseClimbStep,
       Parser_parseClimb_abortStep, Parser_tryContinueStep, ReturnStep, PrefixStep,
       OperatorStep, GroupStep, PatternStep, TernaryStep, StringifyStep DEF Step
  <1>2. CASE Abort
    BY <1>2, AbortedStep
  <1>3. CASE Terminated \/ UNCHANGED vars
    BY <1>3, StutterStep DEF Terminated
  <1> QED  BY <1>1, <1>2, <1>3 DEF Next

\* The inductive invariant holds in every reachable state, for every set of
\* sources, every table of parselets and both builds.
THEOREM Invariance == Spec => []Inv
  <1> QED  BY InitInv, NextInv, PTL DEF Spec

\* Every variable has its type: the read position never passes the end of the
\* source, and each call and context has a parselet of the class to which the
\* function casts it (Parselet.cpp:412).
THEOREM TypeCorrect == Spec => []TypeOK
  <1>1. Inv => TypeOK
    BY DEF Inv
  <1> QED  BY <1>1, Invariance, PTL

\* Every function of the parser finds the node stack, the context stack and
\* the native calls as its callers must leave them (Parser.cpp:121).
THEOREM StacksDisciplined == Spec => []StackDiscipline
  <1>1. Inv => StackDiscipline
    BY DEF Inv
  <1> QED  BY <1>1, Invariance, PTL

\* The loops of one build never run with the continuations of the other
\* (Parselet.h:18).
THEOREM LoopsStayInPlace == Spec => []LoopsInPlace
  <1>1. Inv => LoopsInPlace
    BY DEF Inv
  <1> QED  BY <1>1, Invariance, PTL

\* The token ENDOFFILE is never taken as an operator or as a part of a
\* pattern (Parselet.cpp:264).
THEOREM EndOfFileStays == Spec => []EndOfFileNotTaken
  <1>1. Inv => EndOfFileNotTaken
    BY DEF Inv
  <1> QED  BY <1>1, Invariance, PTL

-----------------------------------------------------------------------------
(* What follows from the discipline                                        *)

LEMMA StacksAreNested == Inv => Nested(Len(NodeStack), ContextStack)
  <1> SUFFICES ASSUME Inv PROVE Nested(Len(NodeStack), ContextStack)
    OBVIOUS
  <1>1. Discipline(Len(NodeStack), ContextStack, frames, call.fn)
    BY DEF Inv, StackDiscipline
  <1>2. call.fn \in Fns
    BY DEF Inv, TypeOK, Call
  <1>3. \/ call.fn \in {"concreteParse", "done", "parsePrefix", "Parser_parseClimb",
                       "Parser_tryContinue", "return", InnerReduce}
        \/ call.fn \in RunningFns \union ContextSensitiveFns
    <2>1. CASE call.fn \in ParserFns
      BY <2>1, RunningFnsFacts DEF ParserFns
    <2>2. CASE call.fn \in LoopFns \union ReduceFns \union ParseFns
      BY <2>2, RunningFnsFacts
    <2> QED  BY <1>2, <2>1, <2>2 DEF Fns
  <1>4. CASE call.fn \in {"concreteParse", "done"}
    BY <1>1, <1>4, EmptyOwner DEF Discipline
  <1>5. CASE call.fn \notin {"concreteParse", "done"}
    BY <1>1, <1>3, <1>5 DEF Discipline, Expecting, Complete, Running, ReadingPattern,
       ReducingInner, Returning
  <1> QED  BY <1>4, <1>5

\* The contexts split the node stack into operands, none of them empty below
\* another (Parser.cpp:306).
THEOREM ContextsAreNested == Spec => []ContextsNest
  <1>1. Inv => ContextsNest
    <2> SUFFICES ASSUME Inv PROVE ContextsNest
      OBVIOUS
    <2>1. Nested(Len(NodeStack), ContextStack)
      BY StacksAreNested
    <2>2. ContextStack \in Seq(Context) /\ Len(ContextStack) \in Nat
      BY DEF Inv, TypeOK
    <2> QED  BY <2>1, <2>2 DEF Nested, ContextsNest
  <1> QED  BY <1>1, Invariance, PTL

\* When an operand is complete the context that waits for it has a function to
\* continue with, which Parser_tryContinue asserts (Parser.cpp:236).
THEOREM ContinuationsGiven == Spec => []ContinuationGiven
  <1>1. Inv => ContinuationGiven
    <2> SUFFICES ASSUME Inv, Calling("Parser_tryContinue"), ContextStack # <<>>
                 PROVE  Parser_topContext.F # "NULL"
      BY DEF ContinuationGiven
    <2> DEFINE k == Len(ContextStack)
    <2>1. Operating(ContextStack, frames)
      BY DEF Inv, StackDiscipline, Discipline, Calling, Complete
    <2>2. PICK g \in [1..Len(frames) -> 1..k] :
                 Owner(g, ContextStack, frames) /\ AllOwned(g, ContextStack, k)
      BY <2>1 DEF Operating
    <2>3. k \in 1..k /\ Parser_topContext = ContextStack[k]
      BY DEF Inv, TypeOK, Parser_topContext, Top
    <2>4. SUFFICES ASSUME ContextStack[k].F = "NULL" PROVE FALSE
      BY <2>3
    <2>5. PICK j \in 1..Len(frames) : g[j] = k
      BY <2>2, <2>3, <2>4 DEF AllOwned
    <2>6. IsLoop(frames[j])
      BY <2>1, <2>5 DEF Operating, OnlyLoops
    <2> QED  BY <2>2, <2>4, <2>5, <2>6 DEF Owner, SuspendedF
  <1> QED  BY <1>1, Invariance, PTL

=============================================================================
