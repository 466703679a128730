--------------------------- MODULE LifecycleProofs ---------------------------
(***************************************************************************)
(* That the library keeps what Lifecycle promises about memory, for all    *)
(* issues that reading may find and any number of calls.                   *)
(***************************************************************************)
EXTENDS Lifecycle, TLAPS

\* What is allocated at each stage of a call.
Unreleased == {"reading", "answered", "put"}

HeapInv ==
  /\ "session" \in heap <=> stage # "none"
  /\ "arguments" \in heap <=> stage \notin {"none", "idle"}
  /\ "manager" \in heap <=> stage \in Unreleased \union {"released"}
  /\ "nodes" \in heap <=> stage \in {"answered", "put"}

\* What is allocated of copies: those that init lost, in earlier calls when one is
\* under way, and that of the call as long as it reads or has nodes.
CopiesInv ==
  /\ stage \notin {"none", "idle"} => calls > 0 /\ calls \notin lost
  /\ copies = lost \union (IF stage \in Unreleased \union {"released"} THEN Copied ELSE {})

\* Between init and the release of the nodes no listed issue has been deleted, and
\* only nodes that have not been released hold issues.
IInv ==
  /\ TypeOK
  /\ HeapInv
  /\ CopiesInv
  /\ stage \in Unreleased => freed = {}
  /\ stage \notin {"answered", "put"} => sent = {}

(* Before the session is created nothing is allocated.                     *)
LEMMA InitIInv == Init => IInv
  BY DEF Init, IInv, TypeOK, HeapInv, CopiesInv, Unreleased, Stages, Objects

(* Each step of a call keeps the heap at what its stage says.              *)
LEMMA NextIInv == IInv /\ [Next]_vars => IInv'
<1> SUFFICES ASSUME IInv, [Next]_vars PROVE IInv'
  OBVIOUS
<1> USE DEF IInv, TypeOK, HeapInv, CopiesInv, Unreleased, Stages, Objects, Copied
<1>1. CASE CreateParserSession
  BY <1>1 DEF CreateParserSession
<1>2. CASE DestroyParserSession
  BY <1>2 DEF DestroyParserSession
<1>3. CASE Enter
  BY <1>3 DEF Enter
<1>4. CASE Fail
  BY <1>4 DEF Fail
<1>5. CASE FailInit
  BY <1>5 DEF FailInit
<1>6. CASE InitSession
  BY <1>6 DEF InitSession
<1>7. CASE Read
  BY <1>7 DEF Read
<1>8. CASE Answer
  BY <1>8 DEF Answer
<1>9. CASE NodePut
  BY <1>9 DEF NodePut
<1>10. CASE ReleaseNode
  BY <1>10 DEF ReleaseNode
<1>11. CASE Deinit
  BY <1>11 DEF Deinit
<1>12. CASE Return
  BY <1>12 DEF Return
<1>13. CASE UNCHANGED vars
  BY <1>13 DEF vars
<1> QED
  BY <1>1, <1>2, <1>3, <1>4, <1>5, <1>6, <1>7, <1>8, <1>9, <1>10, <1>11, <1>12, <1>13
     DEF Next

(* The invariant of all behaviours.                                        *)
LEMMA SpecIInv == Spec => []IInv
  BY InitIInv, NextIInv, PTL DEF Spec

(* What is allocated is known from the stage: the session itself, the      *)
(* arguments from the entry of a function to its return, the manager of    *)
(* locations from init to deinit, the nodes from the answer to their       *)
(* release, and the copy of the source from init to deinit, or for ever    *)
(* when init fails.                                                        *)
THEOREM HeapFollowsStage == Spec => [](TypeOK /\ HeapInv /\ CopiesInv)
<1>1. IInv => TypeOK /\ HeapInv /\ CopiesInv
  BY DEF IInv
<1> QED
  BY <1>1, SpecIInv, PTL

(* The bytes live as long as the session reads them or a node points to    *)
(* them: deinit and the destructors of the function's scope come last.     *)
THEOREM SourceLives == Spec => []SourceOutlivesNodes
<1>1. IInv => SourceOutlivesNodes
  BY DEF IInv, TypeOK, HeapInv, CopiesInv, Unreleased, Stages, Copied, SourceAllocated,
     SourceOutlivesNodes
<1> QED
  BY <1>1, SpecIInv, PTL

(* addIssue never compares with, and release never deletes, an issue that  *)
(* was deleted with the nodes of an earlier call.                          *)
THEOREM IssuesLive == Spec => []NoDanglingIssues
<1>1. IInv => NoDanglingIssues
  BY DEF IInv, Unreleased, NoDanglingIssues
<1> QED
  BY <1>1, SpecIInv, PTL

(* Between two calls, whatever they did and however they ended, only the   *)
(* session is allocated and, for each init that failed after it had made a *)
(* copy, that copy; and what deinit and the return free is there.          *)
THEOREM AllElseIsFreed == Spec => []OnlyLostCopiesLeft
<1>1. IInv => OnlyLostCopiesLeft
  BY DEF IInv, TypeOK, Objects, HeapInv, CopiesInv, Unreleased, Copied, SourceAllocated,
     OnlyLostCopiesLeft
<1> QED
  BY <1>1, SpecIInv, PTL

=============================================================================
