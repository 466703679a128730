---------------------------- MODULE LibraryProofs ----------------------------
(***************************************************************************)
(* That the library keeps its memory in order, whatever the calls are and  *)
(* whatever the tokenizer makes of their sources.                          *)
(***************************************************************************)
EXTENDS Library, WellFoundedInduction, TLAPS

\* From init to the release of the nodes.
Unreleased == {"firstLine", "reading", "answered", "put"}

Stages == Unreleased \union {"none", "idle", "entered", "released", "deinited"}

Objects == {"session", "arguments", "manager", "nodes"}

\* What is allocated at each stage of a call.
HeapInv ==
  /\ heap \subseteq Objects
  /\ "session" \in heap <=> stage # "none"
  /\ "arguments" \in heap <=> stage \notin {"none", "idle"}
  /\ "manager" \in heap <=> stage \in Unreleased \union {"released"}
  /\ "nodes" \in heap <=> stage \in {"answered", "put"}

\* What is allocated of copies: those that init lost, in earlier calls when one is
\* under way, and that of the call as long as it reads or has nodes.
CopiesInv ==
  /\ calls \in Nat
  /\ lost \subseteq 1..calls
  /\ stage \notin {"none", "idle"} => calls > 0 /\ calls \notin lost
  /\ copies = lost \union (IF stage \in Unreleased \union {"released"} THEN Copied ELSE {})

\* Between init and the release of the nodes no listed issue has been deleted, and
\* only nodes that have not been released hold issues.
IssuesInv ==
  /\ stage \in Unreleased => freed = {}
  /\ stage \notin {"answered", "put"} => node.issues = {}

LibraryInv ==
  /\ call \in Calls
  /\ stage \in Stages
  /\ HeapInv
  /\ CopiesInv
  /\ IssuesInv

(* Before the session is created nothing is allocated.                     *)
LEMMA InitLibraryInv == Init => LibraryInv
  BY DEF Init, LibraryInv, HeapInv, CopiesInv, IssuesInv, Stages, Unreleased, Objects, NoNode

(* A session that has been cleared lists nothing.                          *)
LEMMA ClearedListsNothing == \A s : Listed(Cleared(s)) = {}
  BY DEF Listed, Elements, Cleared

(* Reading changes neither what is allocated nor what the answer holds.    *)
LEMMA PushKeepsMemory ==
  ASSUME NEW read, NEW reader, Push(read, reader)
  PROVE UNCHANGED <<call, calls, stage, node, heap, copies, lost, freed>>
  BY DEF Push

(* An answer is allocated when it is made.                                 *)
LEMMA AnswerMemory ==
  ASSUME NEW s, NEW exprs, NEW issues, Answer(s, exprs, issues)
  PROVE /\ UNCHANGED <<call, calls, copies, lost, freed>>
        /\ stage' = "answered"
        /\ heap' = heap \union {"nodes"}
  BY DEF Answer

\* A step of reading: on in the source, or to the answer.
Goes ==
  \/ UNCHANGED <<call, calls, stage, node, heap, copies, lost, freed>>
  \/ /\ UNCHANGED <<call, calls, copies, lost, freed>>
     /\ stage' = "answered"
     /\ heap' = heap \union {"nodes"}

(* The four functions that read go on in one of these two ways.            *)
LEMMA ReadingGoes ==
  ASSUME tokenize \/ concreteParse \/ concreteParseLeaf \/ safeString
  PROVE stage = "reading" /\ Goes
<1>1. CASE tokenize
  BY <1>1, PushKeepsMemory, AnswerMemory DEF tokenize, Goes
<1>2. CASE concreteParse
  BY <1>2, PushKeepsMemory, AnswerMemory DEF concreteParse, Goes
<1>3. CASE concreteParseLeaf
  BY <1>3, AnswerMemory DEF concreteParseLeaf, Goes
<1>4. CASE safeString
  BY <1>4, AnswerMemory DEF safeString, Goes
<1> QED
  BY <1>1, <1>2, <1>3, <1>4

(* Each step of a call keeps the heap at what its stage says.              *)
LEMMA NextLibraryInv == LibraryInv /\ [Next]_vars => LibraryInv'
<1> SUFFICES ASSUME LibraryInv, [Next]_vars PROVE LibraryInv'
  OBVIOUS
<1> USE DEF LibraryInv, HeapInv, CopiesInv, IssuesInv, Stages, Unreleased, Objects, Copied
<1>1. CASE CreateParserSession
  BY <1>1 DEF CreateParserSession
<1>2. CASE DestroyParserSession
  BY <1>2 DEF DestroyParserSession
<1>3. CASE Enter
  BY <1>3 DEF Enter
<1>4. CASE Refuse
  BY <1>4 DEF Refuse
<1>5. CASE ParserSessionInit_error
  BY <1>5 DEF ParserSessionInit_error
<1>6. CASE ParserSessionInit
  <2>1. freed' = {}
    BY <1>6, ClearedListsNothing DEF ParserSessionInit
  <2>2. /\ stage = "entered"
        /\ stage' \in {"firstLine", "reading"}
        /\ heap' = heap \union {"manager"}
        /\ copies' = copies \union Copied
        /\ UNCHANGED <<call, calls, lost, node>>
    BY <1>6 DEF ParserSessionInit
  <2> QED
    BY <2>1, <2>2
<1>7. CASE handleFirstLine
  BY <1>7 DEF handleFirstLine
<1>8. CASE tokenize \/ concreteParse \/ concreteParseLeaf \/ safeString
  BY <1>8, ReadingGoes DEF Goes
<1>9. CASE NodePut
  BY <1>9 DEF NodePut
<1>10. CASE ReleaseNode
  BY <1>10 DEF ReleaseNode, NoNode
<1>11. CASE Deinit
  BY <1>11 DEF Deinit
<1>12. CASE Return
  BY <1>12 DEF Return
<1>13. CASE Abort
  BY <1>13 DEF Abort
<1>14. CASE UNCHANGED vars
  BY <1>14 DEF vars
<1> QED
  BY <1>1, <1>2, <1>3, <1>4, <1>5, <1>6, <1>7, <1>8, <1>9, <1>10, <1>11, <1>12, <1>13, <1>14
     DEF Next, InFunction

(* The invariant of all behaviours.                                        *)
LEMMA SpecLibraryInv == Spec => []LibraryInv
  BY InitLibraryInv, NextLibraryInv, PTL DEF Spec

(* The bytes of a source live as long as the session reads them or a node  *)
(* points to them, in the library itself: whatever its tokenizer takes.    *)
THEOREM SourceStays == Spec => []SourceOutlivesNodes
<1>1. LibraryInv => SourceOutlivesNodes
  <2> SUFFICES ASSUME LibraryInv PROVE SourceOutlivesNodes
    OBVIOUS
  <2>1. call.inPlace \in BOOLEAN
    BY CallsAssumption DEF LibraryInv
  <2> QED
    BY <2>1 DEF LibraryInv, HeapInv, CopiesInv, Copied, Unreleased, Stages, SourceOutlivesNodes,
       Memory!SourceOutlivesNodes, Memory!SourceAllocated
<1> QED
  BY <1>1, SpecLibraryInv, PTL

(* addIssue never compares with, and release never deletes, an issue that  *)
(* was deleted with the nodes of an earlier call.                          *)
THEOREM IssuesStay == Spec => []NoDanglingIssues
<1>1. LibraryInv => NoDanglingIssues
  BY DEF LibraryInv, IssuesInv, Stages, Unreleased, NoDanglingIssues, Memory!NoDanglingIssues
<1> QED
  BY <1>1, SpecLibraryInv, PTL

(* Between two calls, whatever they did and however they ended, only the   *)
(* session is allocated and, for each init that failed after it had made a *)
(* copy, that copy; and what deinit and the return free is there.          *)
THEOREM OnlyLostCopiesStay == Spec => []OnlyLostCopiesLeft
<1>1. LibraryInv => OnlyLostCopiesLeft
  <2> SUFFICES ASSUME LibraryInv PROVE OnlyLostCopiesLeft
    OBVIOUS
  <2>1. call.inPlace \in BOOLEAN
    BY CallsAssumption DEF LibraryInv
  <2> QED
    BY <2>1 DEF LibraryInv, HeapInv, CopiesInv, Copied, Objects, Unreleased, Stages,
       OnlyLostCopiesLeft, Memory!OnlyLostCopiesLeft, Memory!SourceAllocated
<1> QED
  BY <1>1, SpecLibraryInv, PTL

----------------------------------------------------------------------------
(* Reading the same again. *)

\* Whom the history of a call names.
Takers == Readers \union {"CHARACTER", "NOBODY"}

\* What f makes of the first n of the takers.
Replays(f, takers, n, s) ==
  f = [m \in 0..n |-> IF m = 0 THEN s ELSE TakenAgain(takers[m], f[m - 1])]

(* The least member of a set of natural numbers.                           *)
LEMMA LeastMember ==
  ASSUME NEW T, T \subseteq Nat, T # {}
  PROVE  \E q \in T : \A r \in T : q =< r
<1> DEFINE R == OpToRel(<, Nat)
<1>1. PICK q \in T : \A r \in T : ~(<<r, q>> \in R)
  BY WFMin, NatLessThanWellFounded
<1>2. \A r \in T : ~(r < q)
  BY <1>1 DEF OpToRel
<1> QED
  BY <1>2

(* The takers can be replayed in any session.                              *)
LEMMA ReplayExists ==
  ASSUME NEW takers, NEW s, NEW k \in Nat
  PROVE  \E f : Replays(f, takers, k, s)
<1> DEFINE T == {n \in Nat : ~\E f : Replays(f, takers, n, s)}
<1> SUFFICES ASSUME T # {} PROVE FALSE
  OBVIOUS
<1>1. PICK n \in T : \A r \in T : n =< r
  BY LeastMember
<1>2. n # 0
  <2> DEFINE f == [m \in 0..0 |-> s]
  <2>1. Replays(f, takers, 0, s)
    BY DEF Replays
  <2> QED
    BY <2>1, <1>1
<1>3. n - 1 \in Nat /\ n - 1 \notin T
  BY <1>1, <1>2
<1>4. PICK f : Replays(f, takers, n - 1, s)
  BY <1>3
<1> DEFINE g == [m \in 0..n |-> IF m = n THEN TakenAgain(takers[n], f[n - 1]) ELSE f[m]]
<1>5. \A m \in 0..n : g[m] = IF m = 0 THEN s ELSE TakenAgain(takers[m], g[m - 1])
  <2> SUFFICES ASSUME NEW m \in 0..n
              PROVE  g[m] = IF m = 0 THEN s ELSE TakenAgain(takers[m], g[m - 1])
    OBVIOUS
  <2>1. \A i \in 0..(n - 1) : f[i] = IF i = 0 THEN s ELSE TakenAgain(takers[i], f[i - 1])
    BY <1>4 DEF Replays
  <2>2. CASE m = n
    BY <2>2, <1>2, <1>3
  <2>3. CASE m # n
    <3>1. m \in 0..(n - 1) /\ g[m] = f[m] /\ (m # 0 => g[m - 1] = f[m - 1])
      BY <2>3, <1>3
    <3> QED
      BY <3>1, <2>1
  <2> QED
    BY <2>2, <2>3
<1>6. Replays(g, takers, n, s)
  BY <1>5 DEF Replays
<1> QED
  BY <1>6, <1>1

(* In one way only.                                                        *)
LEMMA ReplayUnique ==
  ASSUME NEW takers, NEW s, NEW k \in Nat, NEW l \in Nat, NEW others,
         \A m \in 1..k : takers[m] = others[m], k =< l,
         NEW f, Replays(f, takers, k, s), NEW g, Replays(g, others, l, s)
  PROVE  f[k] = g[k]
<1> DEFINE T == {n \in 0..k : f[n] # g[n]}
<1> SUFFICES ASSUME T # {} PROVE FALSE
  OBVIOUS
<1>0. T \subseteq Nat
  OBVIOUS
<1>1. PICK n \in T : \A r \in T : n =< r
  <2> HIDE DEF T
  <2> QED
    BY <1>0, LeastMember
<1>2. /\ \A i \in 0..k : f[i] = IF i = 0 THEN s ELSE TakenAgain(takers[i], f[i - 1])
      /\ \A i \in 0..l : g[i] = IF i = 0 THEN s ELSE TakenAgain(others[i], g[i - 1])
  BY DEF Replays
<1>3. n \in 0..k /\ n \in 0..l /\ f[n] # g[n]
  BY <1>1
<1>4. n # 0
  BY <1>2, <1>3
<1>5. n - 1 \in 0..k /\ n - 1 \notin T
  BY <1>1, <1>3, <1>4
<1>6. f[n - 1] = g[n - 1] /\ takers[n] = others[n]
  BY <1>3, <1>4, <1>5
<1> QED
  BY <1>2, <1>3, <1>4, <1>6

(* What AllTakenAgain computes.                                            *)
LEMMA AllTakenAgainIs ==
  ASSUME NEW takers \in Seq(Takers), NEW s
  PROVE  \E f : Replays(f, takers, Len(takers), s) /\ AllTakenAgain(takers, s) = f[Len(takers)]
<1> DEFINE after == CHOOSE f : Replays(f, takers, Len(takers), s)
<1>1. Replays(after, takers, Len(takers), s)
  BY ReplayExists
<1>2. AllTakenAgain(takers, s) = after[Len(takers)]
  BY DEF AllTakenAgain, Replays
<1> QED
  BY <1>1, <1>2

(* Nothing taken is nothing read.                                          *)
LEMMA NoneTakenAgain == \A s : AllTakenAgain(<<>>, s) = s
<1> SUFFICES ASSUME NEW s PROVE AllTakenAgain(<<>>, s) = s
  OBVIOUS
<1>1. <<>> \in Seq(Takers) /\ Len(<<>>) = 0
  OBVIOUS
<1>2. PICK f : Replays(f, <<>>, 0, s) /\ AllTakenAgain(<<>>, s) = f[0]
  <2>1. PICK f : Replays(f, <<>>, Len(<<>>), s) /\ AllTakenAgain(<<>>, s) = f[Len(<<>>)]
    BY <1>1, AllTakenAgainIs
  <2> QED
    BY <1>1, <2>1
<1> QED
  BY <1>2 DEF Replays

(* The last is taken again behind all others.                              *)
LEMMA LastTakenAgain ==
  ASSUME NEW takers \in Seq(Takers), NEW taker \in Takers, NEW s
  PROVE  AllTakenAgain(Append(takers, taker), s) = TakenAgain(taker, AllTakenAgain(takers, s))
<1> DEFINE n == Len(takers)
           all == Append(takers, taker)
<1>1. PICK f : Replays(f, takers, n, s) /\ AllTakenAgain(takers, s) = f[n]
  BY AllTakenAgainIs
<1>2. all \in Seq(Takers) /\ Len(all) = n + 1 /\ n \in Nat /\ all[n + 1] = taker
      /\ \A m \in 1..n : takers[m] = all[m]
  OBVIOUS
<1>3. PICK g : Replays(g, all, n + 1, s) /\ AllTakenAgain(all, s) = g[n + 1]
  <2> HIDE DEF n, all
  <2>1. PICK g : Replays(g, all, Len(all), s) /\ AllTakenAgain(all, s) = g[Len(all)]
    BY <1>2, AllTakenAgainIs
  <2> QED
    BY <1>2, <2>1
<1>4. f[n] = g[n]
  <2>1. n + 1 \in Nat /\ n =< n + 1
    BY <1>2
  <2> HIDE DEF n, all
  <2> QED
    BY <1>1, <1>2, <1>3, <2>1, ReplayUnique
<1>5. g[n + 1] = TakenAgain(all[n + 1], g[n])
  <2>1. \A i \in 0..(n + 1) : g[i] = IF i = 0 THEN s ELSE TakenAgain(all[i], g[i - 1])
    BY <1>3 DEF Replays
  <2>2. n + 1 \in 0..(n + 1) /\ n + 1 # 0 /\ (n + 1) - 1 = n
    BY <1>2
  <2> QED
    BY <2>1, <2>2
<1> QED
  BY <1>1, <1>2, <1>3, <1>4, <1>5

(* A session that init has written is a new one.                           *)
LEMMA InitWritesAll == \A s, c : Cleared(Located(s, c)) = init(c.bytes, FALSE, c.opts)
  BY DEF Cleared, Located, init

\* What the history of a call says of its session.
Replayable ==
  /\ taken \in Seq(Takers)
  /\ CallsAreIndependent

(* The readers by their names.                                             *)
LEMMA ReaderNames == Readers = {"TAG", "FILE", "TOPLEVEL", "SLOT", "SLOTSEQUENCE", "OUT"}
<1>1. DOMAIN Policies = {"TOPLEVEL", "SLOT", "SLOTSEQUENCE", "OUT"}
  BY DEF Policies
<1> QED
  BY <1>1 DEF Readers

(* A reader of the library is no name for another step of the history.     *)
LEMMA ReaderTakes ==
  ASSUME NEW reader \in Readers, NEW s
  PROVE  reader \in Takers /\ TakenAgain(reader, s) = SkipPast(LookOf(reader, s))
<1>1. reader \in Takers /\ reader # "CHARACTER" /\ reader # "NOBODY"
  BY ReaderNames DEF Takers
<1> QED
  BY <1>1 DEF TakenAgain

(* Whoever reads behind a token is a reader.                               *)
LEMMA ReaderBehindReads == \A s : ReaderBehind(s) \in Readers
  BY ReaderNames DEF ReaderBehind

(* A step of reading that is written down keeps the history.               *)
LEMMA TakingReplays ==
  ASSUME Replayable, stage \in {"firstLine", "reading"}, NEW taker \in Takers,
         session' = TakenAgain(taker, session), taken' = Append(taken, taker), call' = call
  PROVE  Replayable'
<1> DEFINE s == handleFirstLine_look(init(call.bytes, FALSE, call.opts)).s
<1>1. session = AllTakenAgain(taken, s)
  BY DEF Replayable, CallsAreIndependent, ReadAgain
<1>2. session' = AllTakenAgain(taken', s)
  BY <1>1, LastTakenAgain DEF Replayable
<1>3. taken' \in Seq(Takers)
  BY DEF Replayable
<1>4. session' = ReadAgain(init(call.bytes, FALSE, call.opts))'
  BY <1>2 DEF ReadAgain
<1> QED
  BY <1>3, <1>4 DEF Replayable, CallsAreIndependent

(* So does taking a token.                                                 *)
LEMMA PushReplays ==
  ASSUME Replayable, stage \in {"firstLine", "reading"}, NEW reader \in Readers,
         Push(LookOf(reader, session), reader)
  PROVE  Replayable'
  BY ReaderTakes, TakingReplays DEF Push

(* In any other step of a call the session is not read, or no longer.      *)
LEMMA OthersReplay ==
  ASSUME Replayable, taken' = taken,
         \/ stage' \notin {"firstLine", "reading"}
         \/ stage \in {"firstLine", "reading"} /\ UNCHANGED <<session, call>>
  PROVE  Replayable'
  BY DEF Replayable, CallsAreIndependent, ReadAgain

(* An answer ends the reading.                                             *)
LEMMA AnswerReplays ==
  ASSUME Replayable, NEW s, NEW exprs, NEW issues, Answer(s, exprs, issues)
  PROVE  Replayable'
<1>1. stage' = "answered" /\ taken' = taken
  BY DEF Answer
<1> QED
  BY <1>1, OthersReplay

(* Every step of a call keeps the history true.                            *)
LEMMA NextReplayable == Replayable /\ [Next]_vars => Replayable'
<1> SUFFICES ASSUME Replayable, [Next]_vars PROVE Replayable'
  OBVIOUS
<1>1. CASE \/ CreateParserSession \/ DestroyParserSession \/ Enter \/ Refuse
           \/ ParserSessionInit_error \/ NodePut \/ ReleaseNode \/ Deinit \/ Return
  <2>1. taken' = taken /\ stage' \notin {"firstLine", "reading"}
    BY <1>1 DEF CreateParserSession, DestroyParserSession, Enter, Refuse, ParserSessionInit_error,
       NodePut, ReleaseNode, Deinit, Return
  <2> QED
    BY <2>1, OthersReplay
<1>2. CASE ParserSessionInit
  <2> DEFINE s == init(call.bytes, FALSE, call.opts)
  <2>1. /\ session' = handleFirstLine_look(Cleared(Located(session, call))).s
        /\ taken' = <<>>
        /\ call' = call
    BY <1>2 DEF ParserSessionInit
  <2>2. session' = handleFirstLine_look(s).s
    BY <2>1, InitWritesAll
  <2>3. session' = AllTakenAgain(taken', handleFirstLine_look(s).s)
    BY <2>1, <2>2, NoneTakenAgain
  <2>4. session' = ReadAgain(s)'
    BY <2>1, <2>3 DEF ReadAgain
  <2>5. taken' \in Seq(Takers)
    BY <2>1
  <2> QED
    BY <2>1, <2>4, <2>5 DEF Replayable, CallsAreIndependent
<1>3. CASE handleFirstLine
  <2> DEFINE look == LookOf("TOPLEVEL", session)
  <2>1. stage = "firstLine" /\ call' = call
    BY <1>3 DEF handleFirstLine
  <2>2. \/ UNCHANGED <<session, taken>>
        \/ session' = look.s /\ taken' = Append(taken, "NOBODY")
        \/ session' = SkipPast(look) /\ taken' = Append(taken, "TOPLEVEL")
    BY <1>3 DEF handleFirstLine
  <2>3. "TOPLEVEL" \in Readers
    BY ReaderNames
  <2>4. TakenAgain("NOBODY", session) = look.s
    BY DEF TakenAgain
  <2>5. CASE UNCHANGED <<session, taken>>
    BY <2>1, <2>5, OthersReplay
  <2>6. CASE session' = look.s /\ taken' = Append(taken, "NOBODY")
    <3>1. "NOBODY" \in Takers
      BY DEF Takers
    <3> QED
      BY <2>1, <2>4, <2>6, <3>1, TakingReplays
  <2>7. CASE session' = SkipPast(look) /\ taken' = Append(taken, "TOPLEVEL")
    BY <2>1, <2>3, <2>7, ReaderTakes, TakingReplays
  <2> QED
    BY <2>2, <2>5, <2>6, <2>7
<1>4. CASE tokenize
  <2>1. "TOPLEVEL" \in Readers
    BY ReaderNames
  <2> QED
    BY <1>4, <2>1, PushReplays, AnswerReplays DEF tokenize
<1>5. CASE concreteParse
  <2>1. ReaderBehind(tokens) \in Readers /\ "TOPLEVEL" \in Readers
    BY ReaderBehindReads, ReaderNames
  <2> QED
    BY <1>5, <2>1, PushReplays, AnswerReplays DEF concreteParse
<1>6. CASE concreteParseLeaf
  BY <1>6, AnswerReplays DEF concreteParseLeaf
<1>7. CASE safeString
  <2> DEFINE read == ByteDecoder_nextSourceCharacter(session, TOPLEVEL)
  <2>1. CASE read.c = CODEPOINT_ENDOFFILE
    BY <1>7, <2>1, AnswerReplays DEF safeString
  <2>2. CASE read.c # CODEPOINT_ENDOFFILE
    <3>1. /\ stage = "reading" /\ call' = call
          /\ session' = read.s
          /\ taken' = Append(taken, "CHARACTER")
      BY <1>7, <2>2 DEF safeString
    <3>2. TakenAgain("CHARACTER", session) = read.s
      BY DEF TakenAgain
    <3>3. "CHARACTER" \in Takers
      BY DEF Takers
    <3> QED
      BY <3>1, <3>2, <3>3, TakingReplays
  <2> QED
    BY <2>1, <2>2
<1>8. CASE Abort
  <2>1. UNCHANGED <<session, call, stage, taken>>
    BY <1>8 DEF Abort
  <2> QED
    BY <2>1, OthersReplay
<1>9. CASE UNCHANGED vars
  <2>1. UNCHANGED <<session, call, stage, taken>>
    BY <1>9 DEF vars
  <2> QED
    BY <2>1, OthersReplay
<1> QED
  BY <1>1, <1>2, <1>3, <1>4, <1>5, <1>6, <1>7, <1>8, <1>9 DEF Next, InFunction

(* Each call reads as the first call of a new session would: no issue,     *)
(* flag, mark or place of an earlier one, however it ended, is left.       *)
THEOREM NothingStays == Spec => []CallsAreIndependent
<1>1. Init => Replayable
  BY DEF Init, Replayable, CallsAreIndependent
<1>2. Replayable => CallsAreIndependent
  BY DEF Replayable
<1> QED
  BY <1>1, <1>2, NextReplayable, PTL DEF Spec

----------------------------------------------------------------------------
(* The library implements Lifecycle. *)

\* The functions that read run.
InSource == stage \in {"firstLine", "reading"}

\* What Lifecycle takes for granted of them: the issues that they find are issues, and
\* they remove none from the lists.
IssuesKnown == Listed(session) \subseteq Issues

ReadingKeepsIssues ==
  [][InSource => Listed(session) \subseteq Listed(session')]_vars

(* A session that has just been made lists nothing.                        *)
LEMMA NewListsNothing == \A b, flag, opts : Listed(init(b, flag, opts)) = {}
  BY DEF Listed, Elements, init

(* What is sent is listed.                                                 *)
LEMMA SentIsListed == \A s : Sent(s) \subseteq Listed(s)
  BY DEF Sent, Listed, CollectedIssues

(* An init that fails leaves the lists as they were.                       *)
LEMMA LocatedLists == \A s, c : Listed(Located(s, c)) = Listed(s)
  BY DEF Listed, Located

(* The library begins as Lifecycle does.                                   *)
LEMMA InitImplements == LibraryInv /\ Init => Memory!Init
<1> SUFFICES ASSUME LibraryInv, Init PROVE Memory!Init
  OBVIOUS
<1>1. call.inPlace \in BOOLEAN
  BY CallsAssumption DEF LibraryInv
<1>2. Listed(session) = {}
  BY NewListsNothing DEF Init
<1> QED
  BY <1>1, <1>2 DEF Init, Memory!Init, NoNode

(* To take something is at most to find issues.                            *)
LEMMA PushImplements ==
  ASSUME NEW read, NEW reader, Push(read, reader), stage = "reading",
         Listed(session) \subseteq Listed(session'), IssuesKnown'
  PROVE  Memory!Read
  BY DEF Push, Memory!Read, IssuesKnown

(* The answer holds listed issues.                                         *)
LEMMA AnswerImplements ==
  ASSUME NEW s, NEW exprs, NEW issues, Answer(s, exprs, issues), issues \subseteq Listed(s),
         stage = "reading", Listed(session) \subseteq Listed(session'), IssuesKnown'
  PROVE  Memory!Answer
<1>1. /\ session' = s
      /\ node'.issues = issues
      /\ heap' = heap \union {"nodes"}
      /\ stage' = "answered"
      /\ UNCHANGED <<call, calls, copies, lost, freed>>
  BY DEF Answer
<1> QED
  BY <1>1 DEF Memory!Answer, IssuesKnown

(* Every step of the library is a step of Lifecycle, or none.              *)
LEMMA NextImplements ==
  ASSUME LibraryInv, LibraryInv', IssuesKnown', [Next]_vars,
         InSource => Listed(session) \subseteq Listed(session')
  PROVE  [Memory!Next]_(Memory!vars)
<1>0. call.inPlace \in BOOLEAN /\ call'.inPlace \in BOOLEAN
  BY CallsAssumption DEF LibraryInv
<1>1. CASE CreateParserSession
  BY <1>1, NewListsNothing DEF CreateParserSession, Memory!Next, Memory!CreateParserSession
<1>2. CASE DestroyParserSession
  BY <1>2 DEF DestroyParserSession, Memory!Next, Memory!DestroyParserSession
<1>3. CASE Enter
  BY <1>0, <1>3 DEF Enter, Memory!Next, Memory!Enter
<1>4. CASE Refuse
  BY <1>4 DEF Refuse, Memory!Next, Memory!Fail
<1>5. CASE ParserSessionInit_error
  BY <1>5, LocatedLists
     DEF ParserSessionInit_error, Copied, Memory!Next, Memory!FailInit, Memory!Copied
<1>6. CASE ParserSessionInit
  <2>1. freed' = {}
    BY <1>6, ClearedListsNothing DEF ParserSessionInit
  <2>2. /\ stage = "entered"
        /\ stage' \in {"firstLine", "reading"}
        /\ heap' = heap \union {"manager"}
        /\ copies' = copies \union Copied
        /\ UNCHANGED <<call, calls, lost, node>>
    BY <1>6 DEF ParserSessionInit
  <2> QED
    BY <2>1, <2>2 DEF Copied, Memory!Next, Memory!InitSession, Memory!Copied, IssuesKnown
<1> USE DEF InSource
<1>7. CASE handleFirstLine
  <2>1. /\ stage = "firstLine"
        /\ stage' \in {"firstLine", "reading"}
        /\ UNCHANGED <<call, calls, node, heap, copies, lost, freed>>
    BY <1>7 DEF handleFirstLine
  <2> QED
    BY <2>1 DEF Memory!Next, Memory!Read, IssuesKnown
<1>8. CASE tokenize
  <2>1. stage = "reading"
    BY <1>8 DEF tokenize
  <2>2. Memory!Read \/ Memory!Answer
    BY <1>8, <2>1, PushImplements, AnswerImplements DEF tokenize
  <2> QED
    BY <2>2 DEF Memory!Next
<1>9. CASE concreteParse
  <2>1. stage = "reading"
    BY <1>9 DEF concreteParse
  <2>2. Memory!Read \/ Memory!Answer
    BY <1>9, <2>1, PushImplements, AnswerImplements, SentIsListed DEF concreteParse
  <2> QED
    BY <2>2 DEF Memory!Next
<1>10. CASE concreteParseLeaf
  <2>1. stage = "reading"
    BY <1>10 DEF concreteParseLeaf
  <2>2. PICK read : Answer(SkipPast(read), <<read.c>>, Sent(read.s))
    BY <1>10 DEF concreteParseLeaf
  <2>3. Sent(read.s) \subseteq Listed(SkipPast(read))
    BY SentIsListed DEF SkipPast, skip, Listed
  <2>4. Memory!Answer
    BY <2>1, <2>2, <2>3, AnswerImplements
  <2> QED
    BY <2>4 DEF Memory!Next
<1>11. CASE safeString
  <2> DEFINE read == ByteDecoder_nextSourceCharacter(session, TOPLEVEL)
  <2>1. stage = "reading"
    BY <1>11 DEF safeString
  <2>2. CASE read.c = CODEPOINT_ENDOFFILE
    <3>1. Memory!Answer
      BY <1>11, <2>1, <2>2, AnswerImplements DEF safeString
    <3> QED
      BY <3>1 DEF Memory!Next
  <2>3. CASE read.c # CODEPOINT_ENDOFFILE
    <3>1. UNCHANGED <<call, calls, stage, node, heap, copies, lost, freed>>
      BY <1>11, <2>3 DEF safeString
    <3> QED
      BY <2>1, <3>1 DEF Memory!Next, Memory!Read, IssuesKnown
  <2> QED
    BY <2>2, <2>3
<1>12. CASE NodePut
  BY <1>12 DEF NodePut, Memory!Next, Memory!NodePut
<1>13. CASE ReleaseNode
  BY <1>13 DEF ReleaseNode, NoNode, Memory!Next, Memory!ReleaseNode
<1>14. CASE Deinit
  BY <1>14 DEF Deinit, Copied, Memory!Next, Memory!Deinit, Memory!Copied
<1>15. CASE Return
  BY <1>15 DEF Return, Memory!Next, Memory!Return
<1>16. CASE Abort \/ UNCHANGED vars
  BY <1>16 DEF Abort, vars, Memory!vars
<1> QED
  BY <1>1, <1>2, <1>3, <1>4, <1>5, <1>6, <1>7, <1>8, <1>9, <1>10, <1>11, <1>12, <1>13, <1>14,
     <1>15, <1>16 DEF Next, InFunction

(* The library implements Lifecycle: given that reading finds issues and   *)
(* removes none from the lists, each function of the library does with     *)
(* memory what one action there says, or nothing.                          *)
THEOREM LibraryImplementsLifecycle ==
  Spec /\ []IssuesKnown /\ ReadingKeepsIssues => ImplementsLifecycle
<1>1. LibraryInv /\ Init => Memory!Init
  BY InitImplements
<1>2. /\ LibraryInv /\ LibraryInv' /\ IssuesKnown'
      /\ [Next]_vars
      /\ [InSource => Listed(session) \subseteq Listed(session')]_vars
      => [Memory!Next]_(Memory!vars)
  <2>1. UNCHANGED vars => UNCHANGED Memory!vars
    BY DEF vars, Memory!vars
  <2> QED
    BY <2>1, NextImplements
<1> QED
  BY <1>1, <1>2, SpecLibraryInv, PTL DEF Spec, ImplementsLifecycle, Memory!Spec, ReadingKeepsIssues

=============================================================================
