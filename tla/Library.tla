------------------------------- MODULE Library -------------------------------
(***************************************************************************)
(* The library as the kernel sees it: a session is created once, and each  *)
(* call of a library function initialises it with a source, lets it look   *)
(* at the first line, reads, sends the nodes, releases them, and           *)
(* deinitialises the session, for the next call to use it again.  The user *)
(* can abort a call.  How the parser makes nodes of tokens is the subject  *)
(* of ParserSession; here concreteParse only takes the tokens.             *)
(***************************************************************************)
EXTENDS Readers

CONSTANTS LookBy,   \* the tokenizer: what a reader sees of a session
          Calls,    \* the calls that the kernel makes
          MaxCalls  \* bound: so many calls are made

ASSUME MaxCallsAssumption == MaxCalls \in Nat

Functions == {"ConcreteParse", "Tokenize", "ConcreteParseLeaf", "SafeString"}

\* The sentinel has been put behind the bytes by ScopedFileBuffer or by the kernel,
\* and the session reads them inPlace, or init puts it behind a copy.
\* A SourceConvention is an int, and a caller may "make up a bogus" one.
CallOf(fn, bytes, opts, inPlace, reader) ==
  [fn |-> fn, bytes |-> bytes, opts |-> opts, inPlace |-> inPlace, reader |-> reader]

ASSUME CallsAssumption == \A c \in Calls : c.fn \in Functions /\ c.inPlace \in BOOLEAN

VARIABLES session,  \* the session, which outlives the calls
          call,     \* the call, or the last one
          stage,    \* how far the call is
          taken,    \* who has taken what was read, in the first line too
          tokens,   \* the tokens that were taken
          node,     \* the answer, or NoNode
          heap,     \* what is allocated, the copies of sources apart
          copies,   \* the calls whose copy of the source is allocated
          lost,     \* history: the calls whose copy init has lost
          freed,    \* the issues in the session's lists that have been deleted
          aborted,  \* the user has aborted the call
          calls,    \* the number of calls
          tick      \* changes with each step in a call: a round without effect is one too

vars == <<session, call, stage, taken, tokens, node, heap, copies, lost, freed, aborted, calls, tick>>

NoNode == [exprs |-> <<>>, issues |-> {}]

Elements(s) == {s[i] : i \in DOMAIN s}

LookOf(reader, s) == LookBy[reader, s]

SkipPast(read) == skip(read.s, read.c)

Listed(s) == Elements(s.fatalIssues) \union Elements(s.nonFatalIssues)

----------------------------------------------------------------------------
(* ParserSession::init writes into the session that the last call left,    *)
(* member by member.                                                       *)

\* Mutant of Located: the flag of the last call stays.
Located_keepsFlag(s, c) ==
  [s EXCEPT !.bytes = Append(c.bytes, Sentinel),
            !.buffer = 0,
            !.opts = c.opts]

Located(s, c) ==
  [bytes |-> Append(c.bytes, Sentinel),
   buffer |-> 0,
   opts |-> c.opts,
   SrcLoc |-> s.SrcLoc,
   unsafeCharacterEncodingFlag |-> "OK",
   fatalIssues |-> s.fatalIssues,
   nonFatalIssues |-> s.nonFatalIssues,
   SimpleLineContinuations |-> s.SimpleLineContinuations,
   ComplexLineContinuations |-> s.ComplexLineContinuations,
   EmbeddedNewlines |-> s.EmbeddedNewlines,
   EmbeddedTabs |-> s.EmbeddedTabs]

\* Mutant of Cleared: the issues of the last call stay.
Cleared_notIssues(s) ==
  [s EXCEPT !.SrcLoc = newSourceLocation(s.opts),
            !.SimpleLineContinuations = {},
            !.ComplexLineContinuations = {},
            !.EmbeddedNewlines = {},
            !.EmbeddedTabs = {}]

Cleared(s) ==
  [bytes |-> s.bytes,
   buffer |-> s.buffer,
   opts |-> s.opts,
   SrcLoc |-> newSourceLocation(s.opts),
   unsafeCharacterEncodingFlag |-> s.unsafeCharacterEncodingFlag,
   fatalIssues |-> <<>>,
   nonFatalIssues |-> <<>>,
   SimpleLineContinuations |-> {},
   ComplexLineContinuations |-> {},
   EmbeddedNewlines |-> {},
   EmbeddedTabs |-> {}]

\* The call that has a copy of its source, if there is one.
Copied == IF call.inPlace THEN {} ELSE {calls}

----------------------------------------------------------------------------
(* Parser_handleFirstLine. *)

\* Up to the decision whether the first line is a shebang.  Where it is not, the
\* place that is reset to is that of the token looked at last.
handleFirstLine_second(second) ==
  IF second.c.Tok = "BANG" THEN [shebang |-> TRUE, s |-> SkipPast(second)]
                           ELSE [shebang |-> FALSE, s |-> second.s]

handleFirstLine_first(first) ==
  IF first.c.Tok = "HASH" THEN handleFirstLine_second(LookOf("TOPLEVEL", SkipPast(first)))
                          ELSE [shebang |-> FALSE, s |-> first.s]

handleFirstLine_look(s) ==
  IF s.opts.firstLineBehavior = "NOTSCRIPT" THEN [shebang |-> FALSE, s |-> s]
  ELSE handleFirstLine_first(LookOf("TOPLEVEL", s))

\* A round of the loop that skips the line.
\* Mutant: the token that is skipped is that of the scope outside the loop.
handleFirstLine_skipsOuter ==
  /\ stage = "firstLine"
  /\ \/ /\ aborted
        /\ stage' = "reading"
        /\ UNCHANGED session
     \/ /\ ~aborted
        /\ \E look \in {LookOf("TOPLEVEL", session)} :
             /\ session' = look.s
             /\ stage' = IF look.c.Tok \in {"ENDOFFILE", "TOPLEVELNEWLINE"} THEN "reading"
                                                                          ELSE "firstLine"
  /\ UNCHANGED taken
  /\ UNCHANGED <<call, tokens, node, heap, copies, lost, freed, aborted, calls>>

handleFirstLine ==
  /\ stage = "firstLine"
  /\ \/ /\ aborted
        /\ stage' = "reading"
        /\ UNCHANGED <<session, taken>>
     \/ /\ ~aborted
        /\ \E look \in {LookOf("TOPLEVEL", session)} :
             \/ /\ look.c.Tok = "ENDOFFILE"
                /\ stage' = "reading"
                /\ session' = look.s
                /\ taken' = Append(taken, "NOBODY")
             \/ /\ look.c.Tok # "ENDOFFILE"
                /\ stage' = IF look.c.Tok = "TOPLEVELNEWLINE" THEN "reading" ELSE "firstLine"
                /\ session' = SkipPast(look)
                /\ taken' = Append(taken, "TOPLEVEL")
  /\ UNCHANGED <<call, tokens, node, heap, copies, lost, freed, aborted, calls>>

----------------------------------------------------------------------------
(* A call of a library function. *)

CreateParserSession ==
  /\ stage = "none"
  /\ stage' = "idle"
  /\ session' = init(<<>>, FALSE, session.opts)
  /\ heap' = heap \union {"session"}
  /\ freed' = {}
  /\ UNCHANGED <<call, taken, tokens, node, copies, lost, aborted, calls>>

DestroyParserSession ==
  /\ stage = "idle"
  /\ stage' = "none"
  /\ heap' = heap \ {"session"}
  /\ UNCHANGED <<session, call, taken, tokens, node, copies, lost, freed, aborted, calls>>

Enter ==
  /\ stage = "idle"
  /\ calls < MaxCalls
  /\ call' \in Calls
  /\ calls' = calls + 1
  /\ stage' = "entered"
  /\ heap' = heap \union {"arguments"}
  /\ aborted' = FALSE
  /\ UNCHANGED <<session, taken, tokens, node, copies, lost, freed>>

\* Mutant of Refuse: an error path that does not free the arguments.
Refuse_keepsArguments ==
  /\ stage = "entered"
  /\ stage' = "idle"
  /\ UNCHANGED <<session, call, taken, tokens, node, heap, copies, lost, freed, aborted, calls>>

\* LIBRARY_FUNCTION_ERROR: the arguments are not what they should be, the path is
\* not allowed, or the file cannot be read.
Refuse ==
  /\ stage = "entered"
  /\ stage' = "idle"
  /\ heap' = heap \ {"arguments"}
  /\ UNCHANGED <<session, call, taken, tokens, node, copies, lost, freed, aborted, calls>>

\* PARSERSESSIONINIT_ERROR: the session has been given the source, a copy too, and
\* nothing else.  The function returns without deinit.
ParserSessionInit_error ==
  /\ stage = "entered"
  /\ call.opts.srcConvention \notin SourceConventions
  /\ session' = Located(session, call)
  /\ stage' = "idle"
  /\ heap' = heap \ {"arguments"}
  /\ copies' = copies \union Copied
  /\ lost' = lost \union Copied
  /\ UNCHANGED <<call, taken, tokens, node, freed, aborted, calls>>

ParserSessionInit ==
  LET cleared == Cleared(Located(session, call))
  IN /\ stage = "entered"
     /\ call.opts.srcConvention \in SourceConventions
     /\ \E firstLine \in {handleFirstLine_look(cleared)} :
          /\ session' = firstLine.s
          /\ stage' = IF firstLine.shebang THEN "firstLine" ELSE "reading"
     /\ freed' = freed \intersect Listed(cleared)
     /\ heap' = heap \union {"manager"}
     /\ copies' = copies \union Copied
     /\ taken' = <<>>
     /\ tokens' = <<>>
     /\ UNCHANGED <<call, node, lost, aborted, calls>>

\* The container with the expressions, or with the flag in their place, and what
\* is sent of the issues.
Answer(s, exprs, issues) ==
  /\ session' = s
  /\ node' = [exprs |-> IF s.unsafeCharacterEncodingFlag = "OK" THEN exprs
                        ELSE <<s.unsafeCharacterEncodingFlag>>,
              issues |-> issues]
  /\ heap' = heap \union {"nodes"}
  /\ stage' = "answered"
  /\ UNCHANGED <<call, taken, tokens, copies, lost, freed, aborted, calls>>

Sent(s) == Elements(CollectedIssues(s))

Push(read, reader) ==
  /\ session' = SkipPast(read)
  /\ taken' = Append(taken, reader)
  /\ tokens' = Append(tokens, [Tok |-> read.c.Tok, Buf |-> read.c.Buf])
  /\ UNCHANGED <<call, stage, node, heap, copies, lost, freed, aborted, calls>>

tokenize ==
  /\ stage = "reading"
  /\ call.fn = "Tokenize"
  /\ \/ /\ aborted
        /\ Answer(session, tokens, {})
     \/ /\ ~aborted
        /\ \E look \in {LookOf("TOPLEVEL", session)} :
             IF look.c.Tok = "ENDOFFILE" THEN Answer(look.s, tokens, {})
                                         ELSE Push(look, "TOPLEVEL")

\* When the call is aborted, parselets may take a token before the next check.
concreteParse ==
  /\ stage = "reading"
  /\ call.fn = "ConcreteParse"
  /\ \/ /\ aborted
        /\ Answer(session, tokens, Sent(session))
     \/ \E reader \in {ReaderBehind(tokens), "TOPLEVEL"} :
          \E look \in {LookOf(reader, session)} :
             \/ /\ ~aborted
                /\ reader = "TOPLEVEL"
                /\ look.c.Tok = "ENDOFFILE"
                /\ Answer(look.s, tokens, Sent(look.s))
             \/ /\ Keeps(reader, look.c.Tok)
                /\ Push(look, reader)

concreteParseLeaf ==
  /\ stage = "reading"
  /\ call.fn = "ConcreteParseLeaf"
  /\ \E read \in {LookOf(call.reader, session)} :
       Answer(SkipPast(read), <<read.c>>, Sent(read.s))

\* A round of the loop that reads all characters, to find the unsafe ones.
safeString ==
  /\ stage = "reading"
  /\ call.fn = "SafeString"
  /\ \E read \in {ByteDecoder_nextSourceCharacter(session, TOPLEVEL)} :
       \/ /\ read.c = CODEPOINT_ENDOFFILE
          /\ Answer(read.s, <<SubSeq(read.s.bytes, 1, end(read.s) - 1)>>, {})
       \/ /\ read.c # CODEPOINT_ENDOFFILE
          /\ session' = read.s
          /\ taken' = Append(taken, "CHARACTER")
          /\ UNCHANGED <<call, stage, tokens, node, heap, copies, lost, freed, aborted, calls>>

NodePut ==
  /\ stage = "answered"
  /\ stage' = "put"
  /\ UNCHANGED <<session, call, taken, tokens, node, heap, copies, lost, freed, aborted, calls>>

ReleaseNode ==
  /\ stage = "put"
  /\ stage' = "released"
  /\ heap' = heap \ {"nodes"}
  /\ freed' = freed \union node.issues
  /\ node' = NoNode
  /\ UNCHANGED <<session, call, taken, tokens, copies, lost, aborted, calls>>

\* Mutants of Deinit: before the nodes are released; without the copy of the source.
Deinit_beforeRelease ==
  /\ stage = "put"
  /\ stage' = "deinited"
  /\ heap' = heap \ {"manager"}
  /\ copies' = copies \ Copied
  /\ UNCHANGED <<session, call, taken, tokens, node, lost, freed, aborted, calls>>

Deinit_inPlace ==
  /\ stage = "released"
  /\ stage' = "deinited"
  /\ heap' = heap \ {"manager"}
  /\ UNCHANGED <<session, call, taken, tokens, node, copies, lost, freed, aborted, calls>>

Deinit ==
  /\ stage = "released"
  /\ stage' = "deinited"
  /\ heap' = heap \ {"manager"}
  /\ copies' = copies \ Copied
  /\ UNCHANGED <<session, call, taken, tokens, node, lost, freed, aborted, calls>>

\* The destructors of the function's scope.
Return ==
  /\ stage = "deinited"
  /\ stage' = "idle"
  /\ heap' = heap \ {"arguments"}
  /\ UNCHANGED <<session, call, taken, tokens, node, copies, lost, freed, aborted, calls>>

InCall == stage \notin {"none", "idle"}

Abort ==
  /\ InCall
  /\ ~aborted
  /\ aborted' = TRUE
  /\ UNCHANGED <<session, call, stage, taken, tokens, node, heap, copies, lost, freed, calls>>

----------------------------------------------------------------------------

\* ParserSession() has all its members empty; its options are not read before init.
Init ==
  /\ call \in Calls
  /\ call.opts.srcConvention \in SourceConventions
  /\ session = init(<<>>, FALSE, call.opts)
  /\ stage = "none"
  /\ taken = <<>>
  /\ tokens = <<>>
  /\ node = NoNode
  /\ heap = {}
  /\ copies = {}
  /\ lost = {}
  /\ freed = {}
  /\ aborted = FALSE
  /\ calls = 0
  /\ tick = FALSE

\* The thread of the kernel, in a function of the library.
InFunction ==
  \/ Refuse
  \/ ParserSessionInit_error
  \/ ParserSessionInit
  \/ handleFirstLine
  \/ tokenize
  \/ concreteParse
  \/ concreteParseLeaf
  \/ safeString
  \/ NodePut
  \/ ReleaseNode
  \/ Deinit
  \/ Return

Next ==
  \/ CreateParserSession /\ UNCHANGED tick
  \/ DestroyParserSession /\ UNCHANGED tick
  \/ Enter /\ tick' = FALSE
  \/ InFunction /\ tick' = ~tick
  \/ Abort /\ UNCHANGED tick

\* A function that is running goes on.  This is WF_vars(InFunction), if InFunction is
\* enabled as long as a call is under way; were it not, the user could abort, once, and
\* then TLC would find a deadlock.
Fairness == <>[]InCall => []<><<InFunction>>_vars

Spec == Init /\ [][Next]_vars /\ Fairness

----------------------------------------------------------------------------
(* Properties. *)

Memory == INSTANCE Lifecycle WITH
  stage <- IF stage = "firstLine" THEN "reading" ELSE stage,
  inPlace <- call.inPlace,
  listed <- Listed(session),
  sent <- node.issues

(* The library does with memory what Lifecycle says, whatever it reads.    *)
ImplementsLifecycle == Memory!Spec

(* Of Lifecycle: the bytes live as long as something points to them;       *)
(* issues that are compared or released have not been deleted; and between *)
(* two calls only the session and the copies that failing inits have lost  *)
(* are allocated.                                                          *)
SourceOutlivesNodes == Memory!SourceOutlivesNodes
NoDanglingIssues == Memory!NoDanglingIssues
OnlyLostCopiesLeft == Memory!OnlyLostCopiesLeft

\* The same read again, in a session s.
TakenAgain(taker, s) ==
  CASE taker = "CHARACTER" -> ByteDecoder_nextSourceCharacter(s, TOPLEVEL).s
    [] taker = "NOBODY" -> LookOf("TOPLEVEL", s).s
    [] OTHER -> SkipPast(LookOf(taker, s))

AllTakenAgain(takers, s) ==
  LET after[n \in 0..Len(takers)] ==
        IF n = 0 THEN s ELSE TakenAgain(takers[n], after[n - 1])
  IN after[Len(takers)]

ReadAgain(s) == AllTakenAgain(taken, handleFirstLine_look(s).s)

(* Nothing of an earlier call, be it aborted, refused by init or of an     *)
(* unsafe source, is seen by the next: the session is what a new session   *)
(* would be in which the same is read of the same source.                  *)
CallsAreIndependent ==
  stage \in {"firstLine", "reading"} => session = ReadAgain(init(call.bytes, FALSE, call.opts))

(* A call returns, with an answer or with an error, whatever is read and   *)
(* whether or not the user aborts it.                                      *)
EveryCallReturns == InCall ~> stage = "idle"

(* "#! may be present, or it might not": a first line that is checked and  *)
(* is not a shebang is read from its first character.                      *)
NotAShebangIsKept ==
  (/\ stage = "reading" /\ tokens = <<>>
   /\ call.opts.firstLineBehavior = "CHECK"
   /\ \A i \in 1..Len(call.bytes) : i = 2 => call.bytes[i] # Code["!"])
    => session.buffer = 0

=============================================================================
