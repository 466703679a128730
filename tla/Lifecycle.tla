------------------------------ MODULE Lifecycle ------------------------------
(***************************************************************************)
(* What the library promises about memory, whatever it reads: what is      *)
(* allocated in a call, who points to it, and when it is freed.            *)
(***************************************************************************)
EXTENDS Naturals

CONSTANT Issues    \* the issues that reading can find

VARIABLES stage,    \* how far the call is
          calls,    \* the number of calls
          inPlace,  \* the source is read where the caller has it
          heap,     \* what is allocated, the copies of sources apart
          copies,   \* the calls whose copy of the source is allocated
          lost,     \* history: the calls whose copy init has lost
          listed,   \* the issues that the session has in its lists
          freed,    \* those of them that have been deleted
          sent      \* those of them that the nodes of the answer hold

vars == <<stage, calls, inPlace, heap, copies, lost, listed, freed, sent>>

Stages == {"none", "idle", "entered", "reading", "answered", "put", "released", "deinited"}

Objects == {"session", "arguments", "manager", "nodes"}

\* The call that has a copy of its source, if there is one.
Copied == IF inPlace THEN {} ELSE {calls}

\* What start and the tokens point to is allocated.
SourceAllocated == IF inPlace THEN "arguments" \in heap ELSE calls \in copies

TypeOK ==
  /\ stage \in Stages
  /\ calls \in Nat
  /\ inPlace \in BOOLEAN
  /\ heap \subseteq Objects
  /\ copies \subseteq 1..calls
  /\ lost \subseteq 1..calls
  /\ listed \subseteq Issues
  /\ freed \subseteq listed
  /\ sent \subseteq listed

----------------------------------------------------------------------------

Init ==
  /\ stage = "none"
  /\ calls = 0
  /\ inPlace \in BOOLEAN
  /\ heap = {}
  /\ copies = {}
  /\ lost = {}
  /\ listed = {}
  /\ freed = {}
  /\ sent = {}

CreateParserSession ==
  /\ stage = "none"
  /\ stage' = "idle"
  /\ heap' = heap \union {"session"}
  /\ listed' = {}
  /\ freed' = {}
  /\ UNCHANGED <<calls, inPlace, copies, lost, sent>>

DestroyParserSession ==
  /\ stage = "idle"
  /\ stage' = "none"
  /\ heap' = heap \ {"session"}
  /\ UNCHANGED <<calls, inPlace, copies, lost, listed, freed, sent>>

\* The kernel calls; the arguments belong to objects of the function's scope.
Enter ==
  /\ stage = "idle"
  /\ stage' = "entered"
  /\ calls' = calls + 1
  /\ heap' = heap \union {"arguments"}
  /\ inPlace' \in BOOLEAN
  /\ UNCHANGED <<copies, lost, listed, freed, sent>>

\* An error is returned, of the arguments or of the file.
Fail ==
  /\ stage = "entered"
  /\ stage' = "idle"
  /\ heap' = heap \ {"arguments"}
  /\ UNCHANGED <<calls, inPlace, copies, lost, listed, freed, sent>>

\* An error of init, which has not touched the lists then, but has made the copy:
\* the function returns without deinit, and nobody frees it.
FailInit ==
  /\ stage = "entered"
  /\ stage' = "idle"
  /\ heap' = heap \ {"arguments"}
  /\ copies' = copies \union Copied
  /\ lost' = lost \union Copied
  /\ UNCHANGED <<calls, inPlace, listed, freed, sent>>

InitSession ==
  /\ stage = "entered"
  /\ stage' = "reading"
  /\ heap' = heap \union {"manager"}
  /\ copies' = copies \union Copied
  /\ listed' \in SUBSET Issues
  /\ freed' = {}
  /\ UNCHANGED <<calls, inPlace, lost, sent>>

\* addIssue compares an issue with those that are listed.
Read ==
  /\ stage = "reading"
  /\ listed \subseteq listed'
  /\ listed' \in SUBSET Issues
  /\ UNCHANGED <<stage, calls, inPlace, heap, copies, lost, freed, sent>>

Answer ==
  /\ stage = "reading"
  /\ stage' = "answered"
  /\ heap' = heap \union {"nodes"}
  /\ listed \subseteq listed'
  /\ listed' \in SUBSET Issues
  /\ sent' \in SUBSET listed'
  /\ UNCHANGED <<calls, inPlace, copies, lost, freed>>

NodePut ==
  /\ stage = "answered"
  /\ stage' = "put"
  /\ UNCHANGED <<calls, inPlace, heap, copies, lost, listed, freed, sent>>

\* CollectedIssuesNode::release deletes the issues; the lists still point to them.
ReleaseNode ==
  /\ stage = "put"
  /\ stage' = "released"
  /\ heap' = heap \ {"nodes"}
  /\ freed' = freed \union sent
  /\ sent' = {}
  /\ UNCHANGED <<calls, inPlace, copies, lost, listed>>

Deinit ==
  /\ stage = "released"
  /\ stage' = "deinited"
  /\ heap' = heap \ {"manager"}
  /\ copies' = copies \ Copied
  /\ UNCHANGED <<calls, inPlace, lost, listed, freed, sent>>

Return ==
  /\ stage = "deinited"
  /\ stage' = "idle"
  /\ heap' = heap \ {"arguments"}
  /\ UNCHANGED <<calls, inPlace, copies, lost, listed, freed, sent>>

Next ==
  \/ CreateParserSession
  \/ DestroyParserSession
  \/ Enter
  \/ Fail
  \/ FailInit
  \/ InitSession
  \/ Read
  \/ Answer
  \/ NodePut
  \/ ReleaseNode
  \/ Deinit
  \/ Return

Spec == Init /\ [][Next]_vars

----------------------------------------------------------------------------
(* Properties. *)

(* As long as something is read from the source, or a node with tokens of  *)
(* it lives, the bytes live, be they the caller's or the session's copy.   *)
SourceOutlivesNodes ==
  (stage \in {"reading", "answered"} \/ "nodes" \in heap) => SourceAllocated

(* An issue that addIssue compares with, or that is released, has not been *)
(* deleted by an earlier release.                                          *)
NoDanglingIssues ==
  /\ stage = "reading" => freed = {}
  /\ sent \intersect freed = {}

(* Between two calls the session is allocated, and the copies that init    *)
(* made of a source before it failed, one for each such call: an answered  *)
(* call, a refused one and one read in place leave nothing.  In a call     *)
(* nothing is missing that will be freed.                                  *)
OnlyLostCopiesLeft ==
  /\ stage = "none" => heap = {}
  /\ stage = "idle" => heap = {"session"}
  /\ stage \in {"none", "idle"} => copies = lost
  /\ stage = "released" => {"arguments", "manager"} \subseteq heap /\ SourceAllocated

=============================================================================
