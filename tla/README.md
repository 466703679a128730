# A TLA+ model of CodeParser

CodeParser turns Wolfram Language source into syntax trees. The core is a C++
library (`src/cpp`) that reads bytes and produces *concrete syntax*; a package
in Wolfram Language (`src/CodeParser/Kernel`) calls it and rewrites the concrete
syntax to *aggregate* and *abstract* syntax. This directory models the C++
library in TLA+, in three models that meet:

* **reading**: bytes to source characters, characters to Wolfram Language characters,
  those to tokens, with issues, source locations and marks
  (modules `Session` to `TokenStream`);
* **parsing**: token kinds to nodes, by an operator-precedence parser in continuation passing
  style, in the two builds of the library, with aborts (modules `TokenEnum` to `ParserSession`);
* **the library**: the life of a session, of its buffer, issues and nodes over the calls of the
  kernel, with errors and aborts (modules `Library` and `Lifecycle`).

`Spelling` joins the first two: the sequences of kinds that the parser is checked with are spelled
as bytes, and the tokenizer must read them as these kinds. `Library` joins the first and the third: its
calls read real bytes with the tokenizer. TLC checks the models on bounded inputs and TLAPS proves
the central invariants for all inputs.

Contents

1. The system: components, state, operations, interactions
2. What is hard about it
3. The modules and how they correspond to the code
4. The properties
5. The runs, their bounds, fairness
6. The proofs
7. What the model found
8. What is abstracted, and what is not modelled
9. Plan

## 1. The system

| component | state | operations |
| --- | --- | --- |
| Byte decoder (`ByteBuffer`, `ByteDecoder`, `Source`) | read position `buffer`, `SrcLoc`, `wasEOF`, the encoding flag | next and current source character: UTF-8 decoding, newline conventions, warnings for strange characters |
| Character decoder (`CharacterDecoder`, `WLCharacter`, `LongNames`) | none of its own; moves the read position | escapes, `\[Name]`, hex and octal characters |
| Tokenizer (`Tokenizer`, `TokenEnum`, `Token`) | none of its own; records line continuations and embedded newlines in the session | current and next token under a policy, the readers for tags (`a::b`) and file names (`a >> b`), `Token::reset`, `Token::skip` |
| Parser core (`Parser`) | `NodeStack`, `ContextStack`, `GroupStack`, `trivia1`, `trivia2` | `parseClimb`, `tryContinue`, `identity`, pushing and popping of the stacks, eating trivia, checks on the stacks, `handleFirstLine` |
| Parselets (`Parselet`, `UnderParselet`, `SemiSemiParselet`, `TimesParselet`, `IntegralParselet`) | `F` and `P` of the top context | `parsePrefix`, `parseInfix`, loops, continuations and reductions of some thirty classes |
| Registration (`CodeParser/Data`, `CodeParser/Generate`) | two constant tables | which parselet, precedence and operator each token has |
| Session (`ParserSession`, `Issue`) | all of the above, issues, continuations, options | `init`, `concreteParse`, `tokenize`, `concreteParseLeaf`, `safeString`, `abortQ`, `addIssue`, `deinit` |
| Nodes (`Node`) | trees of nodes and tokens | construction, extent, transfer to the kernel |
| Library API (`API`, `Library.wl`, `CodeParser.wl`) | the handle of a session | create, parse, release, destroy |
| Kernel stages (`Error`, `Abstract`, `AbstractCallNode`, `TopLevel`, `Scoping`, `Boxes`, ...) | none; rewriting of trees | concrete to aggregate to abstract syntax, scoping data, conversions |

How they interact. `ParserSession::concreteParse` peeks at a token and calls the
*prefix parselet* registered for it. From there the parser is written in
continuation passing style. A prefix parselet pushes nodes and calls
`Parser_parseClimb`, which peeks at the next operator: if it binds tighter than
the context at the top of `ContextStack` its *infix parselet* is called, else
`Parser_tryContinue` calls the function `F` that the top context names. An
operator that waits for an operand stores the function that is to go on in
`Ctxt.F` and calls the parselet of the operand.

The compiler option `USE_MUSTTAIL` decides how. With it every one of those calls
is a tail call. Without it, which is the default, a compiler might not make them
so: the operators of any number of operands (infix operators, `*`, `,`, `;` and
groups) call the operand *natively* from a `while` loop and set `F` to
`Parser_identity`, which returns to the loop. All other operators work alike in
the two builds. Thus two stacks, the contexts and the C++ stack, must agree on who
waits for what, though no line of the code relates them.

`GroupStack` is the third stack. The group parselets push and pop the closers
they wait for; the tokenizer reads it to decide whether a newline ends an
expression, and the parser to decide whose a closer is.

The tokenizer has no state that the parser could save: a parselet that has looked
past trivia gives it back by moving the read position to the start of the first
saved token.

A *session* is created once by the kernel and used by every call. Each call of a library function
initialises it with a source, lets it look for a `#!` line, reads, puts the answer on the link,
releases the nodes and deinitialises the session. The bytes of the source belong to the caller or to a
copy that `init` makes to put the sentinel byte behind it; tokens and nodes point into them. Issues belong to
the node that is sent; the lists of the session point to them too.

The *readers* of the tokenizer share one read position. Looking at a token is reading it and giving the
position back, so whatever else reading does (issues, line continuations, marks for embedded newlines and tabs) is
done again for a token that is looked at again.

Between any two steps the user may abort the evaluation; `abortQ()`, which every
parselet but the leaves asks first, is then true. A function that sees it pushes an
`AbortNode`, undoes its own part of the three stacks and continues its caller.

## 2. What is hard about it

`PROJECT.json` lists the hazards with their lines. In short:

* *Two stacks, one discipline.* `Parser_identity` returns to whichever loop called
  last. If a parselet leaves a context too many, or one too few, a loop resumes
  with the nodes of another.
* *Two builds.* A test suite runs one of them.
* *Aborts.* Each of some forty functions unwinds its own part of three
  stacks, at any step.
* *Bad source.* Closers of another group or of none, missing operands, the end of the file
  in the middle of anything. Each ends some operators and not others.
* *Peeking and giving back.* The product and span parselets look two or three tokens ahead,
  past trivia, and reset in the opposite order. The tokenizer reads a character too many for a
  dozen operators and for numbers, and backs up; the character decoder reads to the end of an escape that is
  none. Buffer and location must be given back together, to the right place.
* *Newlines.* A newline's meaning depends on the group stack when it is read, and the
  semicolon, product and span parselets each look past it or not. Behind a backslash
  it continues the token, at any of its characters.
* *Associativity in a bit.* Precedences are compared with the low bit set.
* *One byte that stops everything.* The decoder has no bound but the sentinel 255, which source may contain.
* *Places as identity.* Issues and marks are told apart by source location, which counts
  columns, tab stops and two-byte newlines in two conventions.
* *One session for all calls*, after aborts, unsafe sources and an `init` that failed half way.
* *Who frees what.* Bytes, nodes and issues are shared by pointers between the session, the answer and the
  caller.

What makes each component correct:

* *Parser and parselets*: the stacks are nested and in step; every assertion holds;
  no token is lost; every node has the children that its kind says; precedence and
  associativity decide who gets an operand; an abort leaves nothing behind;
  `concreteParse` returns; the two builds parse alike.
* *Decoders and tokenizer*: a character is what its bytes encode; the end is never passed; looking
  changes nothing; a token is what its text alone is; locations agree with bytes; what crosses
  lines is marked.
* *Session*: issues are a set in order with at most ten fatal ones; a call reads as the first call
  would.
* *Library*: the buffer lives as long as the nodes; nothing is freed twice or used after; every call returns.
* *Kernel stages*: rewriting keeps the source extents and covers every kind of node.

## 3. The modules

| module | models |
| --- | --- |
| `Session` | of `ParserSession`, `Source`, `Issue` and `ByteBuffer`: the record that everything reads from; read position, locations in two conventions, issues, flag, marks |
| `Characters` | `WLCharacter.cpp`, `Utils.cpp`: classes of characters; a part of the table of long names |
| `ByteDecoder` | `ByteDecoder.cpp`: UTF-8, newlines, tabs, the sentinel, unsafe sequences, warnings |
| `SafeString` | `ParserSession::safeString`, which drives the byte decoder over a whole source; properties of the decoder |
| `CharacterDecoder` | `CharacterDecoder.cpp`: escapes, long names, numbers of characters, linear syntax, line continuations |
| `TokenizerCharacters`, `NumberTokens`, `OperatorTokens`, `Tokenizer` | `Tokenizer.cpp`, `Token.cpp`: characters across line continuations; numbers; operators; the other handlers and the three readers |
| `Readers`, `CurrentToken`, `TokenStream` | `Token::skip` and the sessions that readers start from; the three readers as one function; `ParserSession::tokenize`, and the parselets of `#`, `##`, `%`, `::`, `<<`, `>>` that look with readers of their own; properties of the tokenizer |
| `Spelling` | the kinds of `TokenEnum` spelled as bytes |
| `TokenEnum` | `TokenEnum.wl`, `TokenEnum.h`: token kinds and their classes; and, from `Tokenizer.cpp`, which kinds can be neighbours (`Tokenizable`) |
| `ParseletRegistration` | `PrefixParselets.wl`, `InfixParselets.wl`, `Precedence.wl`: the two tables |
| `Parser` | `Parser.cpp`, and what the parser sees of `Tokenizer.cpp`, `Token.cpp` and `Node.cpp`; the variables |
| `PrefixParselets` | leaves, errors, closers, the end of the file, prefix operators |
| `OperatorParselets` | binary, postfix and infix operators, `*`, `,`, `;` |
| `GroupParselets` | groups and calls |
| `PatternParselets` | symbols, blanks, slots, `%` |
| `TernaryParselets` | `~`, `:`, `/:` with `=` and `:=`, `;;`, integrals |
| `StringifyParselets` | `::`, `>>`, `>>>`, `<<` |
| `ParserSession` | `concreteParse`, `abortQ`; `Init`, `Next`, `Spec`, `FairSpec` |
| `ParserProperties` | the properties of the parser |
| `ParserRefinement` | the default build implements the `USE_MUSTTAIL` build |
| `StackDiscipline` | the inductive invariant of the parser |
| `Library` | the calls of the library functions: `API.cpp`, `init`, `Parser_handleFirstLine`, the four entry points, release, `deinit` |
| `Lifecycle` | what `Library` promises about memory, whatever is read |
| `MCParser`, `MCSafeString`, `MCTokenStream`, `MCLibrary` | the inputs of the runs |
| `ParserProofs`, `LosslessProofs`, `ContextProofs`, `OperandProofs`, `ShapeProofs` | proofs about the parser |
| `SafeStringProofs`, `LifecycleProofs`, `LibraryProofs` | proofs about the byte decoder, about memory and about the library |

### Reading

A function of the library that reads from the session is an operator that takes a session and returns the
record `[c, s]`: what it read, and the session as it leaves it. The session `s` has the bytes with
their sentinel, the read position `buffer` (bytes before it), `SrcLoc`, the flag for unsafe encodings, the two
lists of issues, and the four sets of marked locations. A function that loops is a recursive
operator or function. A *policy* is the set of its bits. Tokens are
`[Tok, Buf, Len, Src]` as in `Token.h`.

Those operators are the body of three state machines: `SafeString` (a step is a character, as in the loop of
`safeString`), `TokenStream` (a step is a look by one of the readers that may look there, or the taking
of a token) and `Library` (a step is a stage of a call, a token or character taken, or the skipping of a token of the first
line).

`TokenStream` and `Library` take the tokenizer as a constant, `LookBy`, a function of which it needs only what a reader sees
at a session and the session it leaves. The configurations give it the value `CurrentTokenBy` of `CurrentToken`, which is
the tokenizer in full.

### Parsing

Each module of actions EXTENDS the one before it, as the files of the library
share one session object.

**State.** `NodeStack`, `ContextStack` and `GroupStack` are those of the session. A
context is `[F, P, Index, Prec]` as in `Parser.h`. `buffer` is the read position,
counted in tokens of `input`. `call` is the pending call: its function `fn`, the
parselet `P` and the token it is given. `frames` is the part of the C++
stack that has something left to do: the loops of the default build and, in both
builds, the calls in `SymbolParselet_parsePrefix`, `UnderParselet_parsePrefix` and
`UnderParselet_parseInfixContextSensitive` that are followed by a reduction. All
other calls are the last thing that a function does, and need no frame. `exprs` are
the expressions that `concreteParse` has collected, and `aborted` is what `abortQ()`
would answer.

**Actions.** An action is one function of the source, from its first line to the
call it ends with, and has its name: `call` selects it and its effect sets the
next `call`. Loops of the default build are actions that run once for each
round. Every function that asks `abortQ()` has an alternative for the answer yes
(`..._abort`), and every action that stands for the rest of the function has the guard
`~aborted`. A pending call whose function is behind `assert(false)` has no action: TLC
would report a deadlock. No run allows deadlock: the only stuttering end is
`Terminated`, after `concreteParse` has returned.

**Constants.** `Inputs` is the set of sources; `prefixParselets` and
`infixParselets` are the tables; `USE_MUSTTAIL` selects the build; `AbortAllowed` says
whether an abort can come. Their assumptions (`InputsAssumption`, `TablesAssumption`,
`EndOfFileAssumption`, `OperatorTablesAssumption`, `OperandTablesAssumption`, `OptionsAssumption` in `Parser`) say only that the tables give
every kind a parselet of a prefix and of an infix class (and no binary operator the meaning `Unset`), that `ENDOFFILE` is
registered as in the source, that openers, and they alone, start groups and calls and have their own closers,
that the loops for `,`, `;` and `*` are registered for these operators and no loop for a kind of trivia, that the
parselets that take their token as an operand are registered for operands (`OperandTokens`) and those that take it as an operator are not, that
the parselets for errors, closers and unhandled tokens are registered for those tokens, and that no operator binds tighter than
`HIGHEST`. TLC evaluates them in each run with the tables of
`ParseletRegistration`.

### The library

`session` is the record of `Session`, which outlives the calls. `stage` is how far a call is: `entered` (the
arguments have been read), `firstLine` (in the loop that skips a `#!` line), `reading`, `answered`, `put`,
`released`, `deinited`, and between calls `idle`. `heap` says what is allocated:
the session, the arguments of the call (a scoped buffer or string), the manager of locations, the nodes. The copies that
`init` makes of sources are apart, in `copies`, by the number of their call, because a copy can outlive its call: `lost` is
history, the calls whose `init` made a copy and then failed (7). `freed` are the issues in the session's lists that
`releaseNode` has deleted. `tokens` and
`taken` are history, for the property that compares with a new session: what was read, and by which reader each token
was taken. An abort may come at each
stage. `Lifecycle` has the same stages, heap and copies, and any issues and any sources: `Library` implements it
(`ImplementsLifecycle`), and its invariants are proved for all of them. `tick` changes with each step in a call (5).

### Mutants

Definitions whose name ends in what they get wrong (`LoopCall_lost`, `GivesBack_never`, ...) are deliberate
mistakes. They stand before the definition they vary; nothing uses them. Replacing that definition by the mistake must make TLC
find the property violated that `PROJECT.json` pairs it with, which shows that the
property depends on that line of the code.

## 4. The properties

The comments in `SafeString`, `TokenStream`, `Spelling`, `Library`, `Lifecycle`, `ParserProperties`,
`ParserRefinement` and `StackDiscipline` state each in full.

### Reading

*Bytes* (`SafeString`). `EndNeverPassed`: the read position stays before the end of the buffer until the sentinel is
read, and only the sentinel ends the source. `DecodingIsExact`: a character is the one that its bytes encode by the
definition of UTF-8, and where one is called unsafe none is encoded. `LocationsIncrease`: each character
has a place of its own. `UnsafeIsReported`: a result is withheld exactly when a character was unsafe, and
an issue says where. `ReadingAgainChangesNothing`.

*Tokens* (`TokenStream`). `LookingAgainChangesNothing`: a second look by any reader gives the same token and leaves the
same session. `PlaceIsKept`: position and location are moved and given back together. `TokensStandAlone`: the text
of a token, alone in a file, is that token, so no character that was given back had a part in it.
`ContinuationsAreTransparent`: a token that goes on in the next line is the token it would be on one
line. `CrossingsAreMarked`: tokens that cross lines or hold tabs are marked. `TokenAsserts`: the
assertions of the constructor of `Token`. `IssuesArePlaced`: issues point at characters of the source.

*Kinds* (`Spelling`). `ReadAsSpelled`: what `Tokenizable` lets the runs of the parser start from is
what the tokenizer reads. It holds the abstraction of the parser's input to the code.

### The library

`SourceOutlivesNodes`, `NoDanglingIssues`, `OnlyLostCopiesLeft` (`Lifecycle`): the bytes live as long as something points
to them; no deleted issue is compared or deleted again; between calls the session is allocated and, of the calls before,
the copies that failing `init`s have lost and nothing else; nothing that will be freed is missing. The last says how
far the leak of 7 goes: a call that is answered, aborted, refused before `init` or read in place has no part in it.
`ImplementsLifecycle`: the library does with memory what `Lifecycle`
says. `CallsAreIndependent`: while a call reads, the session is exactly what a new one would be that had
read the same, whatever call was before it and however that ended. `EveryCallReturns`.

### Parsing

*Stacks.* `ContextsNest`: contexts cut the node stack into nonempty operands.
`GroupsMatchContexts`: there are as many closers on the group stack as contexts of open groups, and the closer of a
group has the rank of its context.
`IdentityReturnsToOwner`: there are as many contexts with `Parser_identity` as loops (those on the C++ stack and
the running one), and the loop with the rank of a context has the operator that stands in it. `Quiescent`: all is empty
when `concreteParse` is at the head of its loop. `StackDiscipline`: for each function,
what it finds on the node stack, the contexts and the C++ stack.

*Assertions.* `ContinuationAsserts`: the assertions on `Ctxt.F` and `Ctxt.P` hold.
`AssertsHold`: no `assert(false)` is reached. `EndOfFileNotTaken`: `ENDOFFILE` never
reaches a function that would take it.

*Syntax.* `Lossless`: the nodes tile the source up to the read position at every step,
and the whole of it at the end. `WellFormed`: every node has the children that `Node.h`
and the later stages expect of its kind. `PrecedenceRespected`: each
operator has the operands that precedence and associativity give it, in sources without
tokens that are errors, after which whatever waits is reduced. `LinesDelimit`: juxtaposed factors and parts of a span are on
one line.

*Abort and end.* `AbortOnlyUnwinds` (an action property): after an abort no context is entered,
no group opened, no operand called natively, no expression begun. `Terminates`:
`concreteParse` returns.

*Builds.* `ImplementsMusttail`: under the mapping that gives every `Parser_identity` the
loop it returns to, removes the loops from `frames` and reads a return to a loop as a call of
`Parser_tryContinue`, each step of the default build is a step of the other
build, or stutters, and the fairness of the one implies that of the other.

`TypeOK` is the one type invariant. It also says that a call, a context
and a frame have a parselet of the class that the function casts it to.

## 5. The runs

| run | module | instance | what it shows |
| --- | --- | --- | --- |
| `operators` | `MCParser` | 4 of `x / ^ . * + - ! &`, 5 of `x && \[And] ^ !` and space, 5 of `x + \[ImplicitPlus] *`; 5 of `x ( ) [ ] ,`, 4 of <code>x { } ) &#124; ; ??</code> and an error, 5 of `x ; ;; * ( )` and newline | `PrecedenceRespected`, `AssertsHold`, `WellFormed`, `GroupsMatchContexts`, `ContextsNest`, `IdentityReturnsToOwner`, `LinesDelimit`: no order of operators, openers, closers and newlines gets the stacks out of step or an operand to the wrong operator |
| `parts` | `MCParser` | 5 of `x ~ : /: = .` and newline, and three longer ones; 5 of `x _ _. : # 1` and an error, 3 of the longer blanks and slots; 5 of `x :: >> << ( )` and newline, 4 of `x :: >> << (`, newline and space, 3 of `x >>> . 1 "s"`; 5 of `x \[Integral] \[DifferentialD] ^ ;; *` and newline | `WellFormed`, `ContinuationAsserts`, `AssertsHold`, `StackDiscipline`, `EndOfFileNotTaken`, `Lossless` |
| `aborts` | `MCParser` | 3 of `x _ + * , ; ;; ~ [ ] )`, four longer ones that visit every other operator; an abort at any step; default build | `TypeOK`, `Quiescent`, `AbortOnlyUnwinds`, `Terminates`, `ImplementsMusttail` |
| `musttail` | `MCParser` | the same in the `USE_MUSTTAIL` build | `Quiescent`, `StackDiscipline`, `Terminates` |
| `bytes` | `MCSafeString` | every sequence of up to 3 of 26 bytes, one on each side of each boundary in the table of legal UTF-8, newlines and tab included; of 4 of 8 bytes; two with more than ten errors; both conventions, sentinel put by the caller and by `init` | `EndNeverPassed`, `DecodingIsExact`, `LocationsIncrease`, `UnsafeIsReported`, `ReadingAgainChangesNothing` |
| `tokens` | `MCTokenStream` | sequences of up to 2 to 4 fragments for operators, numbers, strings and comments, escapes, and the readers for slots, tags and file names; numbers with a line continuation at each place; every pair of kinds of the parser, spelled | `LookingAgainChangesNothing`, `PlaceIsKept`, `IssuesArePlaced`, `TokenAsserts`, `CrossingsAreMarked`, `TokensStandAlone`, `ContinuationsAreTransparent`, `ReadAsSpelled` |
| `library` | `MCLibrary` | three calls, each any of 34 (four functions; sources with issues, marks, unsafe ones, with and without `#!`; both conventions, and a bogus one with a copy and in place; three behaviours of the first line; copy or in place), refused or not, with an abort at any stage | `SourceOutlivesNodes`, `NoDanglingIssues`, `OnlyLostCopiesLeft`, `CallsAreIndependent`, `ImplementsLifecycle`, `EveryCallReturns` |
| `sums` | `MCParser` | 5 of `x + \[ImplicitPlus]` | a page of the documentation that the code does not keep, see 7 |
| `compound_lines` | `MCParser` | 5 of `x ;` and newline | likewise a comment |
| `differential` | `MCParser` | two sources | likewise |
| `continued_base` | `MCTokenStream` | `1\`, newline, `6^^1` | likewise |
| `first_line` | `MCLibrary` | `#a`, checked for `#!` | likewise |

A run of `MCParser` parses *every* sequence of tokens, up to the given length, over
its alphabet that a source file could have (`Tokenizable`), and some longer ones by
name.

**Why these bounds are enough.** The parselets look at most three tokens ahead and decide by
the top context, the operand before it and the innermost groups. A sequence of five
tokens has two operators with their operands, so each pair of classes
meets in each order, with a missing operand, a newline or a foreign closer at
each place; in the alphabets above every parselet class occurs. The runs with aborts have the abort
at every step of every source. The byte decoder decides on at most four bytes and the one
behind them, by ranges whose ends are all in the alphabet of `bytes`. A handler of the tokenizer tells a few characters
apart, and all it does with more of them is to loop; the fragments of a family in `tokens` are these
characters, and long enough sequences for the longest exception that a handler knows (`a<-4`, `/.5`, <code>1&#96;&#96;+.</code>) and
a token behind it. An escape is one fragment, complete or cut off. Whatever a call leaves behind it
leaves to the next one, and to those after that if `init` fails in between, so three calls are enough for the
session's re-use. The passing runs have between 78,194 (`musttail`) and
1,374,811 (`parts`) distinct states, and together take every action. The only counter that needs a bound is that of calls, `MaxCalls`; each parse is finite.

**Fairness.** `FairSpec` of the parser is weak fairness of `Step`. The library has one thread, which
runs until `concreteParse` returns, so a step that is enabled is taken. `Abort` is the
user's, and not fair. In `Library` the same holds of `InFunction`, the disjunction of the steps within a call, and
of nothing else: the kernel need never call, and the user need never abort. It is stated as
`<>[]InCall => []<><<InFunction>>_vars`, which is weak fairness of `InFunction` if some step of it is enabled
throughout a call. Were none enabled, TLC would report a deadlock: only the user could do anything, and can
abort a call only once. (TLC takes too long to evaluate `ENABLED` of steps that read a source.) `tick` changes with
each step in a call, so that a round of a loop that changes nothing else is a step too. The other runs are of safety and
use `Spec`.

## 6. The proofs

TLAPS proves the theorems of `ParserProofs`, `LosslessProofs`, `ContextProofs` and `ShapeProofs` for every set of inputs of any length, every
table that satisfies the assumptions, both values of `USE_MUSTTAIL`, and with or without
aborts; those of `SafeStringProofs` for every set of sources and options of a session; those of
`LifecycleProofs` for every set of issues and any number of calls; those of `LibraryProofs` for every set of calls, any
number of them, and every tokenizer.

| theorem | says |
| --- | --- |
| `Invariance` | `Spec => []Inv` |
| `TypeCorrect` | `Spec => []TypeOK` |
| `StacksDisciplined` | `Spec => []StackDiscipline` |
| `ContextsAreNested` | `Spec => []ContextsNest` |
| `ContinuationsGiven` | the assertion of `Parser_tryContinue` never fails |
| `LoopsStayInPlace` | a loop finds its context as it left it, and no context has a function of the other build |
| `EndOfFileStays` | `Spec => []EndOfFileNotTaken` |
| `NothingIsLost` | `Spec => []Lossless` |
| `TokensAreCurrent` | a function that takes its token takes the one at the read position |
| `AbortsUnwind` | `Spec => AbortOnlyUnwinds`, an action property |
| `FitInvariance` | `Spec => [](Inv /\ Fitting)` |
| `ClosersMatch` | `Spec => []GroupsMatchContexts` |
| `ReturnsReachOwner` | `Spec => []IdentityReturnsToOwner` |
| `ContextsAsAsserted` | `Spec => []ContinuationAsserts` |
| `BetweenExpressions` | `Spec => []Quiescent` |
| `NodesWellFormed` | `Spec => []WellFormed` |
| `AssertionsHold` | `Spec => []AssertsHold` |
| `EndIsKept` | `Spec => []EndNeverPassed`, of the byte decoder |
| `LocationsAreOrdered` | `Spec => []LocationsIncrease`, of the byte decoder |
| `LookingIsHarmless` | `Spec => []ReadingAgainChangesNothing`, of the byte decoder |
| `UnsafeAlwaysReported` | `Spec => []UnsafeIsReported`, of the byte decoder |
| `DecodingExactly` | `Spec => []DecodingIsExact`, of the byte decoder |
| `HeapFollowsStage` | `Spec => [](TypeOK /\ HeapInv /\ CopiesInv)`, of `Lifecycle` |
| `SourceLives` | `Spec => []SourceOutlivesNodes`, of `Lifecycle` |
| `IssuesLive` | `Spec => []NoDanglingIssues`, of `Lifecycle` |
| `AllElseIsFreed` | `Spec => []OnlyLostCopiesLeft`, of `Lifecycle` |
| `SourceStays` | `Spec => []SourceOutlivesNodes`, of `Library` |
| `IssuesStay` | `Spec => []NoDanglingIssues`, of `Library` |
| `OnlyLostCopiesStay` | `Spec => []OnlyLostCopiesLeft`, of `Library` |
| `NothingStays` | `Spec => []CallsAreIndependent` |
| `LibraryImplementsLifecycle` | `Spec => ImplementsLifecycle`, a refinement, if reading keeps issues (below) |

### The parser

The invariant. `TypeOK` is not inductive: that a reduction finds a node to put in the place of its
operands depends on what each function before it left on the stacks. `Inv` of
`StackDiscipline` adds

* `StackDiscipline`: one case for each role a function can have. A function that parses an
  operand is called when the contexts are nested in the node stack (`Expecting`);
  `parseClimb` and `tryContinue` when there is an operand above the top context too
  (`Complete`); an infix parselet, loop or reduction when the top context is its own
  (`Running`); the functions that read the rest of a pattern, the reduction inside another and a native
  return each have their own case. All of them have a witness `g` that maps the frames to the
  contexts they will resume in, strictly increasing, and covering every context that
  names no continuation. Without `g` a native return could find the context of another.
* `LoopsInPlace`: which `F` a loop leaves in its context, per build. Without it
  the context of a running loop could lose its frame.
* `EndOfFileNotTaken`: a taken token lies inside the source, without which
  `buffer` could leave its range. It needs that `ENDOFFILE` binds like the lowest
  precedence and that `parseClimb` compares with the low bit set.

The argument. The first part of `ParserProofs` proves how pushing and popping leads from one case of
the discipline to another, knowing nothing of the parselets. The second proves what the operators of `Parser` return (positions,
tokens, nodes, contexts); trivia ends where it should by well-founded induction on the
read position. The third has a lemma for each *way of acting* (enter a
context, stay in it, take an operator and its operand, reduce, begin or end a pattern,
unwind): from `Inv` to `Inv'`. The rest has one
lemma for each action, that says which of those ways it is, and puts them together.

### Nothing is lost

`Lossless` is not inductive: a function like the parselet of a leaf puts the token it is called with on the node
stack and moves the read position behind it, and nothing in `Lossless` says that this token is the one at
the read position. Between the peek and the call lie trivia that is read, given back, or left in place, and an
implicit operator that is put where nothing is. `InPlace` of `LosslessProofs`, which is inductive together
with `Inv`, has

* `TokenInPlace`: the token in the hand of a function that takes it starts at the read position and
  ends there or one further;
* `Tiled`: the expressions reach to some place and the nodes on the stack from there to the read position, with no
  place named, because an expression that is finished moves the border;
* `AllIsRead`: without an abort the parser is done only when everything is read.

`TokenInPlace` needs no tiling but is not true by itself: it is what all callers must see to. The lemmas say what
appending, concatenating and reducing do to a span of nodes and what each reader of trivia leaves
(`TriviaSpan`); then one lemma per group of actions. TLC has checked `InPlace` as an invariant under the
constants of the runs `operators`, `parts`, `aborts` and `musttail` before it was proved.

`AbortsUnwind` needs it too, for `buffer' <= buffer + 1`: a function that was called before the abort
may still take its token, and only that one.

### Whose each context is

No context says which group or operator it belongs to: that `GroupStack`, the contexts and the C++ stack are in
step is seen only from the nodes at the bottoms of the contexts, which none of the functions that pop looks at.
`GroupsMatchContexts` and `IdentityReturnsToOwner` are therefore not inductive. `Fitting` of `ContextProofs` is, together
with `Inv`. It has

* `ContextsFit`: the context of a group can be told from all others by its precedence 0 and its `F`
  (`GroupMark`), and it is that exactly when an opener is at its bottom. Without it a reduction that pops a context
  would not be known to leave the groups alone, or to end one.
* `GroupsOpen`: a map `h` takes the closers of the group stack to the contexts of the groups they close, keeps their
  order and covers the contexts at whose bottom an opener is. A map, and not ranks, because a step changes it at the top only.
* `LoopsFit`: the map `g` of the stack discipline takes the frames to contexts; behind the operand at the bottom of that
  of a loop the first node that is no trivia is an operator of its loop (`Fits`). Without "first" an operator of an
  operand could be taken for it.
* `CallFits`: what the pending call finds. An infix parselet has an empty continuation and nothing but trivia behind
  the operand in its context, so that its operator will be the first; it is called with the parselet of its token, and a prefix
  parselet with a group for an opener only; a climb does not start at an opener, which would make a new context one of a group;
  a running function is in the context of a group exactly when it is one of a group's.

`OperatorTablesAssumption` says what this needs of the tables. TLC has checked `Fitting` as an invariant
under the constants of the runs `operators`, `parts`, `aborts` and `musttail` before it was proved.

Both properties are stated with ranks, which TLC can compute without guessing a map. A map that keeps the order and covers all
takes each place to the one of the same rank (`OrderedRank`), and there is one place of a rank (`RankUnique`), so
each of the two properties follows from its map. `Quiescent` follows because no context is left to map to;
`ContinuationAsserts` is in `CallFits`, with `ContinuationsGiven` for `Parser_tryContinue`. The proofs for the
actions follow the ways of acting of `ParserProofs`: push a context over the operand, stay in it with more
nodes, take an operator and call, reduce and pop.

### What the nodes are made of

`WellFormed` says that the children of a node are those of its kind, and is far from inductive: a reduction takes what it
finds above the start of its context, and what that is was put there by every function that has run among the
same contexts. `Shaped` of `OperandProofs` is inductive together with `Inv` and `Fitting`. The *parts* of a context are the
labels of its nodes that are no trivia (`PartsAre`). `Shaped` has, besides `WellFormed`,

* what each function needs of its parts when it runs (`Form`): how many there are (`Lengths`: an odd number for a chain, three
  for a binary operator, five for a ternary one, ...), which of them are operands (`Where`), and what the first and last are
  (`EndsFit`: an opener, its closer, a token, a group). While it waits for an operand, it has all but the last of them
  (`Awaits`);
* `LowerFits`: every context below the top waits for an operand at the place where the next one begins. Each context
  speaks of its own piece of the stack only, so a step has to be followed only where it writes (`PartsKept`);
* `TopWaits`, `CloserFits`: the top context waits while its operand is read (up to that operand once it is complete), is ready when its function
  runs, and a group is reduced with a closer only when this is the closer of the opener at its bottom;
* `CallWaits`, `TokenFits`: which functions can be called with what. An infix parselet has an operator for its token,
  never an operand or trivia, and is of a class that has an infix meaning; the function behind the head of a call is
  given a group.

A context with `Parser_identity` belongs to a loop on the C++ stack, one without a function to a name with a blank behind
it: `WaitingFn` says which function waits in them, from the opener at the bottom, and `Fitting` that this is the right one. The lemmas are of three layers: sequences
of parts (appending an operand or an operator, trivia in between); ways of acting (read an operand of a new context, wait on
in the same one, reduce: `WorksNext`, `LevelNext`, `PoppedShape`, `ReduceShape`); and one lemma for each action (in `OperandProofs` until a complete
operand meets the function that waits for it, in `ShapeProofs` from there on). That a
reduction makes a node of its kind is `Form` of its function compared with `WellFormedNode` (`Makes`).

`NodesWellFormed` is part of `Shaped`. For `AssertionsHold`, the classes of parselets that are called follow from the tables
(`TokenFits`, `ClimbFinds`); that a colon and a tilde have an operand to their left follows from the parts, in which an operand is the last
(`LastPart`). What both need of the tables is in `OperandTablesAssumption`. TLC has checked `Shaped` as an invariant under the constants of the
runs `operators`, `parts`, `aborts` and `musttail` before it was proved.

### The byte decoder

`EndNeverPassed` is not inductive: that a step stays before the end needs to know that the sentinel is the last
byte, and that no function reads on once it has seen it. The invariant adds that the bytes end with the sentinel
and are bytes, that nothing but the read position, location, flag and issues changes, and that columns begin
with 1. The lemmas follow the calls of the decoder. The functions that only add an issue or set the
flag leave a session that is the same for all others (`Same`); those that advance leave one
that is *further* by a number of bytes and by at least one column or line (`Further`); tab stops are
ahead of the column whatever the width. A sequence of several bytes takes a byte only after it has
compared it with a range within 128..191 (`Belongs`), so never the sentinel, 255
(`FoundBefore`); as first byte, 255 ends the source only when nothing is behind it (`IsSentinel`) and is an
unsafe character elsewhere. `NextCharacter` puts that together: a character that is read leaves
the position before the end, and `ENDOFFILE` is read exactly at the end. Both theorems follow from it.

*Reading again.* `NextOutcome` says that a read has an *outcome*: the character, the place and the location
where it ends, and silence, a warning or a fatal issue with its flag. It depends on the bytes, the
place, the location and the options, which are the same for all sessions that are `Alike`, and not on what was
reported before. `AfterTwice` says that an outcome that was given back and comes again adds nothing,
because its issue is known or there is no room for it. `ReadingAgainChangesNothing` follows without an induction.

*Reports.* An outcome is fatal exactly when the character is unsafe, and its issue is then at the place of the character
(`Reported`). `UnsafeIsReported` is inductive together with the invariant: an unsafe character adds its issue unless it is
known, and then it has this place, or unless the list is full; a safe one adds no fatal issue.

*Exactness.* Two lemmas compare the decoder's table with the encoder, in both directions: bytes that the table lists
stand for a point that is encoded in them (`TwoBytes`, `ThreeBytes`, `FourBytes`), and a point is encoded only in bytes that
the table lists (`EncodingShape`). The second bytes of E0, F0 and F4 make the first true: without them there would be overlong
sequences and points above U+10FFFF. `TwoFound`, `ThreeFound` and `FourFound` say that the bytes the decoder finds are
those of the table, so that at a first byte it finds all it wants when a safe character is encoded there, and decodes that
character (`WholeSequence`). The last `DecodingIsExact` says nothing of the characters read before, and needs to say
nothing: it follows from the invariant for each step by itself.

### Memory

The invariant says what is allocated at each stage (`HeapInv`), that the copies are the lost ones and, from `init` to
`deinit`, that of the call (`CopiesInv`), that nothing listed is deleted
before the release of the nodes, and that only nodes that are not released hold issues. `HeapFollowsStage` states the first
two for every reachable state. The properties say
less, and are not inductive: `OnlyLostCopiesLeft` speaks of the stages between calls, and what is freed by then depends on
what was allocated many steps before.

### The library

`Library` reads through the constant `LookBy`; its theorems hold whatever that function is. `LibraryInv` says what is
allocated at each stage, which copies are, and that from `init` to the release of the nodes no issue that the session lists is freed.
`SourceStays`, `IssuesStay` and `OnlyLostCopiesStay` follow from it.

*Independence.* `CallsAreIndependent` compares the session with what a recursive function (`AllTakenAgain`) makes of a session fresh from
`init` by doing again all that the history `taken` lists. It is inductive together with the type of `taken` (`Replayable`): `init` of the
next call writes every field of the old session (`InitWritesAll`, which would be false for a field that it forgot), and a step of
reading appends to the history what it did. For that the function must do to a longer history what it did to the shorter one,
and then the last (`LastTakenAgain`). A recursive function of TLA+ is whatever function satisfies its equation: that
there is one (`ReplayExists`) and that all of them agree (`ReplayUnique`) is proved from the least place at which they would not.

*Refinement.* That a step of the library is a step of `Lifecycle` has two premises: the issues of a session are issues
(`IssuesKnown`), and reading adds issues and removes none (`ReadingKeepsIssues`). They are about the tokenizer, which is
recursive and out of this prover's reach. TLC checks the refinement without them, on the tokenizer itself (`ImplementsLifecycle` of the run
`library`).

### Only model-checked

`PrecedenceRespected`, `LinesDelimit`, the safety part of the refinement of the builds; all properties of the tokenizer, whose
definitions recur over sessions. `Terminates`, `EveryCallReturns` and the fairness in the
refinement are liveness, beyond this prover. What a recursive definition computes for every input would need
induction over data, and the modules that declare recursive operators (`SafeString`'s do not) are out of
the prover's reach altogether.

## 7. What the model found

* **A sum in a sum.** `docs/stages.md:112` shows `InfixNode[Plus, { 1, +, 2, \[ImplicitPlus], 3 }]`, and a comment in
  `InfixOperatorParselet_parseLoop` (`Parselet.cpp:661`) wants "only a single Infix node created" for operators with one meaning.
  The loop compares meanings (`Parselet.cpp:667`), but `parseClimb` has compared precedences before it, and `\[ImplicitPlus]` binds tighter than `+`
  (`Precedence.wl:217`): the source makes a `Plus` node in a `Plus` node. In the other order, `1 \[ImplicitPlus] 2 + 3`,
  there is one node. Run `sums`. `PrecedenceRespected` therefore takes the level of a node from its own
  token: `Plus` nodes are made at two levels.
* **Compound expressions cross lines.** A comment in `SemiParselet_parseLoop`
  (`Parselet.cpp:1877`) says "CompoundExpression should not cross toplevel newlines". Before it
  looks for another semicolon the loop eats all trivia, toplevel newlines too
  (`Parselet.cpp:1852`), so `a; b`, a newline and `; c` make one CompoundExpression. Run
  `compound_lines`.
* **A product takes the differential.** In an integral, `\[DifferentialD]` should end the
  integrand (`IntegralParselet.cpp:144`). `getPrecedence` compares the precedence of the *top*
  context with that of integrals. When the integrand is itself a product or a span, that
  context is on top: in `\[Integral] x y \[DifferentialD] x` the differential becomes a
  third factor and the integral has none. Run `differential`.
* **A continued base is miscounted.** The base of a number is checked by its length, and the length is
  counted in bytes of the source (`Tokenizer.cpp:1747`). In `1\`, newline, `6^^1` the line
  continuation is between the digits of the base: four bytes, more than two, so the number is an error, though
  `16^^1` is 1. A comment on line continuations (`Tokenizer.cpp:575`) says "All whitespace after a
  line continuation can be ignored for the purposes of tokenization". Run `continued_base`.
* **A slot on the first line loses its `#`.** With `FIRSTLINEBEHAVIOR_CHECK` a first line that is no `#!` line
  must be given back. When the first token is `#` and the second is not `!`, the position is reset
  to the second token (`Parser.cpp:66`), so `#a` is parsed as `a`. Run `first_line`.

Seen on the way, and not findings (no text of the repository promises otherwise):

* <code>1&#96;&#96;+..</code> is read as a REAL <code>1&#96;&#96;</code>, whose accuracy is missing, though <code>1&#96;&#96;</code> alone is an error.
  It is the only token that depends on what follows it (`LacksAccuracy`).
* A peek has effects: issues and marks are recorded by it. Only line continuations at the next character are
  not (`Source.h:46`). `LookingAgainChangesNothing` shows that they do no harm, because the lists
  and sets have no duplicates.
* The policy for file names does not track line continuations.
* `\|110000`, a code point that is too large, is read as a backslash without an issue.
* `init` that fails leaks the copy of the source. It makes the copy (`ParserSession.cpp:45`) before it looks at the
  convention, and returns `PARSERSESSIONINIT_ERROR` (`:79`); the library functions then return without `deinit`, and the next
  `init` overwrites the only pointer to it. They could not call `deinit` there as it is: `srcConventionManager` is still
  the one that the last call's `deinit` deleted. A call in place has no copy to lose, and `Library.wl` only passes conventions
  that exist. The run `library` has such calls, and `OnlyLostCopiesLeft` says that exactly these copies stay.
* Issues that are not sent are never deleted: the duplicates, those behind the tenth fatal one, non-fatal ones when there
  are fatal ones, and all those of `tokenize` and `safeString`. So are nodes that are dropped because the source
  is unsafe, and the file handle when the size of a file cannot be found out.
* The first line is skipped token by token: a quote or a `(*` in it takes the following lines with it.

## 8. What is abstracted, and what is not modelled

* The parser's input is a sequence of token kinds, not of characters. `Tokenizable` excludes sequences
  that the tokenizer would read otherwise (`:` then `=` is `:=`); `ReadAsSpelled` checks it for pairs. One token stands for
  all that have the same parselet and play the same part: every parselet class has at least one.
* Two readers of the tokenizer are modelled in `Parser` by what they do to such a sequence: the reader for
  tags takes a symbol or a string, the one for file names a string or the longest run of
  kinds whose characters can be in a file name. Brackets in a file name, and a token of
  which only a part is a file name, are not; `Tokenizer` has the readers in full.
* A node has its kind, operator, extent and the kind and operator of each child. Deeper
  structure is no longer touched by the parser.
* `trivia1` and `trivia2` are empty between functions: each function that fills one pushes or
  resets it before it calls the next. They are values inside an action.
* Comments are trivia in every reader but that for file names, and are in no alphabet of `MCParser`: no
  function distinguishes them from whitespace.
* An abort stays: `abortQ()` answers yes from the first time on, as long as the evaluation lasts.
* The table of long names is the part of it that `Characters` lists, with a member of each class; suggestions for misspelt
  names, texts of issues and the actions they suggest are left out, as are counters of `Diagnostics`.
* The sessions of `Session` have no `GroupStack`: a reader is told whether it is in a group. The model of reading is
  that of the build with `CHECK_ISSUES`, `COMPUTE_OOB` and `COMPUTE_SOURCE`.
* In `Library`, `concreteParse` takes tokens and does not make nodes of them: it takes each with the loop's reader or
  with that of the parselet of the token before, if that keeps it. That an answer cut short by an abort is sent as `$Aborted`
  from some element on is not modelled; sending is one step.
* `heap` and `copies` have what the functions of the library allocate themselves. The issues that are never sent,
  the nodes that are dropped for an unsafe source and the file handle (7) are no part of them: they leak whatever the
  library does next.
* Not modelled: the packets of MathLink and the build without it; the stages in the kernel (`Error.wl`, `Abstract.wl`,
  `Scoping.wl`, ...), pure rewriting of trees that comes after the library and is in the plan; diagnostics, printing and
  transfer of nodes, the command line and the generation of tables, which are input and output or have no state.

## 9. Plan

1. *Done*: the parser, all parselets, both builds, aborts; the session and its entry points; the decoders and the
   tokenizer; the life of the library; the properties and theorems above.
2. `Error.wl` (reparse of unterminated groups), `Abstract.wl` and `TopLevel.wl` as recursive functions on
   small trees, against reference definitions.
3. Proofs, in this order: the levels of nested operators, for `PrecedenceRespected`, for which `Shaped` has the operands; the safety
   part of the refinement of the builds, for which `LoopsFit` has the map.
4. The parser over the tokenizer: `concreteParse` on bytes, with the state of `GroupStack` given to the
   readers, for short sources, in place of sequences of kinds.
