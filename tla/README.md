# OpenDarkBASIC in TLA+

OpenDarkBASIC compiles BASIC programs (DarkBASIC Pro dialect) to LLVM IR and
executables. These modules model the parts of it in which an order of events, a
table that is filled in two places, or a stack can go wrong, and check and prove
that they do not. Every definition is translated from the source under `src/`;
`PROJECT.json` names the lines of each.

## Inventory

The program is sequential: one process, no threads, nothing persisted. What is
hard about it is *ordering inside one run* (forward references, look-ahead,
dependency order of options), *ownership* of C strings and reference-counted
objects, *nested control flow* turned into a flat graph of blocks, and *numeric
edges* (widths, a fixed stack of 32 slots).

| component (source) | state it keeps | operations | interacts with | what makes it correct |
|---|---|---|---|---|
| option parser (`odb-cli/argdefgen/templates/cpp_postamble.cpp`) | list of actions, priority queue | parse options, add implicit actions, run handlers, meta actions | CLI handlers through callbacks; tables from argdefgen | an action runs after what it must run after; required options are there |
| argdefgen (`odb-cli/argdefgen/src`) | action table, dependency lists | resolve names, find cycles, priorities, reduce edges | writes the tables the option parser reads | cycles are found, priorities respect `runafter`, reduction keeps reachability |
| CLI handlers (`odb-cli/src`) | SDK type and root, command index, matcher, AST | one per option | called by the option parser, call the compiler | nothing is used before it was initialised |
| command loaders, `CommandIndex`, `CommandMatcher` (`odb-compiler/src/commands`) | list and table of commands; sorted names | load plugins, find conflicts, look up, longest match | Driver and ASTConverter | every loaded command can be found; conflicts are found |
| `Driver` (`odb-compiler/src/parsers/db/Driver.cpp`) | token queue, look-ahead text | scan, match commands, merge, push to bison | scanner, parser, `CommandMatcher` | no token lost, no string leaked or freed twice, a unique reading of a text |
| AST (`odb-compiler/src/ast`) | tree with parent links | build, swap a child, duplicate, visit | parser, astpost, ASTConverter | one parent per node, copies share nothing |
| astpost (`odb-compiler/src/astpost`) | - | three passes, in order | AST | a pass changes only what it says |
| `ASTConverter` (`odb-compiler/src/ir/semantic`) | labels, waiting jumps, functions, error flag | one per statement and expression | AST in, IR out, `CommandIndex` | jumps and exits get the right target |
| `CodeGenerator` (`odb-compiler/src/ir/codegen`) | blocks, label blocks, loop exits, return points | one per IR statement | IR in, LLVM out | the code does what the statements say |
| `RefCounted`, `Reference`, `WeakReference` (`odb-sdk`) | counts | take, drop, detach, lock | everywhere | nothing is used after it was deleted |
| `DynamicLibrary` (`odb-sdk/src`) | tables of a shared object | open, count, name its symbols | command loaders | every symbol is seen |
| IR types (`odb-compiler/src/ir/Node.cpp`) | scopes of variables | declare, look up, type of an expression | ASTConverter, CodeGenerator | both agree on types |
| logging, files (`odb-sdk/src`) | - | wrappers | - | plain I/O, not modelled |

The hazards this gives rise to are listed, each at its line, in `PROJECT.json`.

## The modules

### LabelResolution: `ASTConverter`, control flow

State: `labels` (`labels_`), `pendingGotos`, `pendingGosubs`, `bound`
(`Goto::label_`, `Gosub::label_`), `loopOf` (`Exit::loopToBreak_`), `loops` (the
`currentLoop` arguments on the recursion stack), `errorOccurred`, and where
conversion stands (`fn`, `pos`, `todo`). One action per case of
`convertStatement`; `NextFunction(f)` is one turn of the loop over
`functionMap_`, whose order is unspecified, so any function left may be next.
Conditionals, assignments and calls are `other`: they touch none of this state
except that a nested block is visited in place.

Checked (`label_resolution`: every main of up to three and user functions of up
to two and one of label/goto/gosub over two names, every well-nested main of up
to six brackets and exits; forward, backward, duplicate, missing and
cross-function labels all occur): a jump is bound to the *first* label of its name that
conversion meets (`BoundToFirstLabel`), and so never rebound, the
pending tables hold exactly the unbound ones (`PendingAreTheUnbound`), and an
exit leaves the innermost loop (`ExitsLeaveInnermostLoop`). As main is converted
first, it keeps its own labels in every order. What the checks also make plain:
`labels_` is not cleared between functions, so a jump of a user function may be
bound to a label of another function, and a jump without any label is no error;
BlockGenerator shows what becomes of both.

### BlockGenerator: `CodeGenerator::generateFunctionBody`, `generateBlock`

State: the basic blocks (`code`), which of them are in the function
(`inserted`), the insertion point (`cur`), the `SymbolTable` (`labelBlocks`,
`loopExit`, `returnPoints`, `dests`), and `frames`, the recursion stack of
`generateBlock`: a body is a sequence of statements in which nested blocks are
bracketed, and a closing item runs what follows the recursive call. One action per
case, in the code's order of `CreateBr`, `SetInsertPoint` and block creation;
expressions are one `exec` instruction. `GenCrash` is the null label or the
statement without a case (`while`, `repeat`, `select`); `Verify` is
`llvm::verifyModule` as far as this code can offend it.

Checked, with the next module (`generated_code`: every body of up to four items over 19 kinds and
longer ones around nested constructs): every return lists every gosub's return
point (`ReturnsReachEveryGosub`), a block has exactly one terminator and it is
last, as soon as nothing will be added to it, while a body without `exitfunction` is generated
(`TerminatedExactlyOnce`), and the verdict
is a function of the text (`VerdictIsExact`): a body crashes the generator exactly
if it has a jump without a label or a statement without a case, and otherwise is
accepted exactly if it has no jump into another function and no `exitfunction`.

### GeneratedCode and SourceSemantics: what the generated code does

`SourceSemantics` is the abstract specification: a walk over the statements with
a stack of gosub positions and the for counters, no blocks. `GeneratedCode` executes the
blocks BlockGenerator made, an instruction per step, with the two gosub helper
functions and their unchecked array. `Source == Semantics!Spec`, with the
refinement mapping `SourcePc`, `SourceCalls` (an instruction remembers the
statement it was made for; an address on the stack stands for the statement its block
begins with), says that the run implements the walk, including progress; all but progress
is proved for every body. A body that does not compile by its text (`Compiles`) has no meaning and is
refused (`Refuse`), which is the step at which the generator crashes or the verifier rejects.
A push beyond the array and a pop of an empty one are undefined behaviour,
`outcome = "undefined"`, and `UndefinedOnlyAtTheStackLimits` says there is no
other way to get there.

Checked (`generated_code`): both, on the bodies of BlockGenerator, those that are refused
included. Bounds: a stack of 2 instead of 32 slots (reached by nested gosubs), bodies of up to four
statements and nested ones of up to eleven; one body is left out, the goto back into a for that
has ended, whose counter grows for ever; one rising, one falling and one zero
step. The end and step of a for are constants of the loop object: the code
evaluates them anew in every round, which differs only when the body changes
their variables. Counters do not wrap here.

Fairness: `WF_vars(Next)`. A compiler run and a processor execute their next step;
nothing waits for anything.

### CommandLexer: `Driver::doParse`

State: `queue` (`tokens`), `text` (`possibleCommand`), `best`/`found`
(`result`), `lastInt`, and two histories: the tokens pushed to the parser, and how
often each string was freed. A string is named by what it was allocated for: the
token scanned at a place, or the command that begins there. Actions are the steps of the main loop: scan a head, scan ahead a
token at a time, merge, keyword, push, clean up; `dbpush_parse` may give up at
any token. Kinds of tokens matter, spellings are words of length one.

Checked (`command_lexer`: every file of up to four tokens over six, and of five
over three; commands of one to three words, with an integer inside, with an
annotation, equal to and starting with a keyword): strings have one owner
(`StringsHaveOneOwner`), the queue and the pushed tokens cover the source exactly
(`NoTokenLost`), what is pushed is a function of the source alone, not of how far
the scan had looked ahead before (`PushedAsSpelled`), and the loop ends
(`Terminates`, under weak fairness of the only process there is).

`command_lexer_integers` finds `CommandsMayStartWithIntegers` violated: a command
that *begins* with an integer is never matched, though the comments in the code
say it may (`findings`).

### ActionGraph and ActionTable: argdefgen, `action.c`

`ActionGraph` is the graph of dependencies as recursive functions: roots, what the
search for cycles sees, priorities, `is_indirectly_connected` with its order and
its recursion without marks (`"overflow"` where the C recurses forever), and the
definitions they are checked against (`Reached`, `Acyclic`, `Direct`).
`ActionTable` is `adg_action_table_from_nodes`, one action per pass (the specification is `TableSpec`); the last
one, `remove_indirect_dependencies`, is one action per dependency, as it changes
the lists that its later searches go through.

Checked (`action_table`: every `runafter` graph of four actions and every
`requires` graph of three with any of them implicit, each list in both orders;
definitions with ambiguous, unknown and repeated names): priorities order every
dependency of the file (`PrioritiesOrderRunafter`), the reduction in place ends at the unique
minimum with the same paths, in the order of the file (`ReducedToTheMinimum`), no requirement on an option
that cannot be given (`RequiredCanBeGiven`), and a rejected file has a defect
(`RejectedForCause`). The first three are stated for acyclic lists: the search for
cycles starts at the roots, so a cycle nothing leads to is accepted, and
`CyclesHaveNoEntry` says that no other is. (The check of names has a gap too: an
action defined before the section of the same name is accepted, action.c:368.)

### ArgDispatch: the generated parser, `parseCommandLine`

Over tables as ActionTable leaves them. State: the argument that is next (`pos`),
`list` (`ActionList`), `queue` (`ActionQueue`) and a history `ran` of the handlers
called. Actions: one per form of argument (full or assigned option, letters,
anything else), the check of requirements, the implicit actions, the attempt to
help, and then one per handler popped: a standard one succeeds or fails, a meta one
returns any action with any number of arguments. The queue gives any handler of
the best priority, as `std::priority_queue` promises no more. `pooled` is
whether the compiler makes equal string literals one object, which
`findActionId("help")` depends on.

It is checked as part of `OdbCli`, next.

### OdbCli: odbc's handlers under that parser

`OdbCli` runs the handlers of `src/odb-cli/src` in the place of the arbitrary ones. Their static
variables are one record, `session`; a handler is an operator from a call and a
session to the set of its outcomes, and `CliNext` is `ArgDispatch`'s step together with an outcome.
Words of the command line are named by their place; where a handler compares a
word with a text, every result is possible. `loadCommands`, `parseDBA` and
`output` stand here for what `CommandIndex`, `AstLifecycle`, `LabelResolution`, `BlockGenerator` and
`Expressions` model in full. They succeed or fail, and the first and the last may crash: for the
settings of an SDK that the loader does not survive (`FatalSettings`), and for the files and commands of
a program that the compiler does not (`FatalPrograms`: a jump to a label that is nowhere, a
function called with the wrong arguments, a statement without a case). Which settings and programs
those are is said in the other modules; here any may be one.

Checked (`odb_cli`: odbc's table, from `Actions.argdef` without the colours and two of the
dumps, and every command line of up to three of its options with their words; and
eight small tables with handlers that do anything: one from
argdefgen's README, two cut from `Actions.argdef`, and five with a chain of meta actions, a
late result, a result of a late result, meta actions that start each other, and requirements of requirements;
up to two arguments returned by a meta action):

* by the parser: implicit actions have run before whatever needs them, even if
  only a meta action's result does (`ImplicitRunFirst`); `runafter` orders execution if
  results, and results of results, do not come late (`OrderEnforcedInTime`); what options require is given,
  by the text alone (`RequiredAreGiven`); something meaningful runs
  (`SomethingMeaningful`); each option has the arguments behind it and no other's, and none is read
  twice (`ArgumentsBelongToOptions`); and it ends (`Returns`; fairness: `WF`
  of the one process, handlers return). That long options and meta actions give a handler as many arguments
  as it declares (`ArgumentsInRangeButShort`) is proved instead;
* by the whole: a setting works wherever it stands (`SettingsInTime`), although no
  `runafter` puts `--output` behind `--arch`, `--platform` and `--output-type`, only the
  number that its priority came to; what is written has every file of every `--dba`
  (`OutputIsComplete`); and odbc crashes only if no input file is given; for an option that reads an
  argument and got none: `--output` without a word behind it, `-o`, which never gets one,
  or `-W` without a name; for the settings of an SDK whose loading crashes; or for a program, the
  files parsed with the commands loaded, that crashes the compiler (`CrashesForCause`). In the run one setting and
  two programs are of these kinds.

What `Actions.argdef` says of these handlers is `HandlersAreOrdered` (who runs after
whom) and `HandlersTakeArguments` (which options may stand alone); TLC evaluates both
for the nine tables, odbc's among them.

What else the model shows, in no property of its own: where the compiler does not pool equal literals,
`findActionId` never finds the help action (gen_cpp.c:319), and `odbc` without options says nothing, so
`SomethingMeaningful` is about parsers whose help is found; handlers of equal priority
run in any order, so two `--dba` may change places (the comment at
cpp_postamble.cpp:479 expects the order of the list); a letter starts its action without counting its arguments
(`-W` alone crashes), and one with an optional argument never takes it, so `-o iced.exe` is
turned down; `--output` without a file, which its help says writes to stdout (Actions.argdef:220),
reads `args[0]` and crashes;
`--input` and `--dbpro` always fail, and so does `--dump-ast-json`; meta dependencies in a
cycle overflow the stack before anything runs (`"overflow"`); an action may run
before one it runs after, if a meta action starts that one late.

### CommandMatcher, DynamicLibrary, CommandIndex, CommandCalls: commands

`CommandMatcher` is the search for a command in a text: the sorted list of names,
halved letter by letter with `lower_bound` and `upper_bound` (`Narrowed`), and the
candidates remembered at the ends of words. `DynamicLibrary` is what `open` finds
in the dynamic section of a shared object and how many symbols it then counts.
`CommandIndex` is `loadCommands`: the directories that each loader searches
(`toLoad`), then library by library and symbol by symbol (`library`, `next`) into
`commands`, and `findConflicts`. The file system lists files in any order.
`CommandCalls` goes on to one call in a program: `initCommandMatcher`, the
lexer's question whether a text is a command, `lookup`, and the overload
resolution of `convertCommandCallExpression`, where `std::sort` may leave any of the best ones last.
Undefined behaviour (the second `args->emplace({})`, a symbol behind the table,
the front of an empty list, `tokens[2]` of two) is the status `"undefined"`.

Checked (`command_calls`: thirteen libraries, any two of nine of them in the SDK's directory
of ODB and the other four in those of DarkBASIC, on Linux and Windows, with
directories that do not exist, additional directories, libraries without a table, with commands in
capitals, with duplicates, and a broken typeinfo; 10 texts, arguments of up to two types):
an index that was loaded holds each command as often as the entries of its library and the directories
name it, the SDK's and the additional ones, whatever the order of the files, and nothing else
(`LoadedAsNamed`), unless ODB's loader is given an additional directory that exists (`LoadedExactly`); what is reported as a conflict is one
(`ConflictForCause`); the matcher accepts a text to its end exactly if it
is a command's name (`MatcherIsExact`); no other overload beats the one called
(`DominatedNeverCalled`); and a matched call is undefined behaviour exactly if
every command of the name has a capital (`CapitalsAreUndefined`).

`additional_plugins`, a finding: for each additional directory
`ODBCommandLoader` searches the SDK's again, never the additional one, so that `LoadedAsNamed` is
violated for ODB: the plugins are not loaded, and if the SDK's directory has any command, it becomes a conflict.
A conflict may also go unreported, and no property forbids that: each command is compared with the first of
its name only, whatever the comment above the comparison says (CommandIndex.cpp:33), so that a duplicate of
a second overload is kept; the library `Again` of the run has one.

### IrTypes, LlvmValues, Expressions and ExpressionMeaning: expressions

`IrTypes` has the types and their conversions, `LlvmValues` the types and values of LLVM:
integers of the width the code asks for, floats as numbers of halves,
instructions as sets of at most one result. `Expressions` has three phases.
*Conversion*: one action per kind of statement, with `variables` (the scopes),
`returnTypes` (which return expressions are set already) and `errorOccurred`;
expressions are converted by recursive operators that thread the scope, as they
declare variables. *Generation*: one step, in which an expression has the
type LLVM will see, no value (`Null`), and effects: a null operand crashes, wrong
types are for the verifier to reject. *The run*: a stack of frames, a statement or a
round of a loop per step, and an output of what was shown.

`ExpressionMeaning` is the reference: what is well typed by the text, and what a
program means with unbounded integers.

Checked (`expressions`: every operator between every two of eleven kinds of
operands, two levels of nesting, in an argument, an assignment or a condition; loops around
zero and at the limits; declarations before, after and between uses; functions with
parameters and results that call each other, or one that does not exist, and leave with or without a value; widths of 1, 4, 6, 8 and 10 bits for 1, 8, 16,
32 and 64, each narrower than the next so that every pair of types differs as in the code):
which programs are accepted, rejected and crash (`AcceptedIffWellTyped`); a
program whose values are small shows what it means, without undefined behaviour
(`SmallValuesAreExact`); and a run ends unless a for loop goes to the
limit of its counter (`Finishes`). Fairness is weak fairness of `Next`, written out in
`Fairness` as `[]<>~CanMove \/ []<><<TRUE>>_vars` with `CanMove` in the place of
`ENABLED <<Next>>_vars`, which TLC would have to find by trying every conversion: the compiler
and the processor take their next step.

`literals`, a finding: 200 is a `Byte` literal, and -56 in an integer variable, as all casts are
signed. Other behaviour of the code that the definitions record: a binary operator computes in the
type of its left operand; `and` and `or` of integers say Boolean and are
integers; `xor` ends the compiler, and so do a call of a function that is known to return one and an
`exitfunction` without a value, whose null the converter dereferences; a condition keeps the lowest bit, so `if 2` is
false; true is -1 in an integer; functions return nothing and never get their
arguments; whether a call knows what a function returns depends on which was
converted first.

### AstClasses, AstHeap and AstLifecycle: the AST from the parser to the exit

`AstClasses` is the table of node classes: which children a class owns, which may
be null, which swapChild finds and whether it sets their parent. `AstHeap` is memory:
a node is a record of class, children, `parent`, reference count and `live`, and
its operators are `addRef`, `releaseRef`, the constructors, append, `swapChild`,
`duplicate`. `AstLifecycle` is what happens to them in one run of odbc:

* a file is the sequence of its LALR reductions, and each semantic action of
  `Parser.y` is an action on bison's value `stack`, whose raw pointers count for
  no reference; a `SyntaxError` may follow any reduction, and `DiscardValue` is the
  `%destructor`;
* `Symbols` gives, for a file, the classes of what is on that stack before each
  reduction: what the states of the LALR parser know. `Reduces` and `Becomes` are
  what a rule of the grammar, with the `%type` declarations, pops and leaves;
  `IsParse` says that a file is such a sequence, and `InputsAreParses` that all are;
* `ReturnProgram`, `KeepFirst`, `MergeStatement` and `MergeEnds` are the handover
  `Driver` - `parseDBA` - `ast_`, a reference at a time;
* `ExecuteGroup` runs a `ProcessGroup`; `EliminateBitwiseNotRHS` is one action per
  visited node and per replaced operator, the other two change nothing;
* `ReleaseReference` drops one reference, and deletes, before anything else goes on.

Checked (`ast_lifecycle`: every expression of up to two levels of nested `..`
over a literal and a call, in an assignment and where `inc` copies it; a statement of
every class, with an operator in every place that takes an expression; up to three
files; four groups of processes, one running the pass twice): counts are exact in every state
(`CountsAreExact`), every child knows the one parent it has
and fits its class (`TreesAreWellFormed`), nothing is lost,
after syntax errors, missing files and failed passes too (`NothingIsLost`),
the pass never meets a dead or wrong parent, and replaces
exactly the operators or refuses for a cause (`RewritingIsExact`), and `inc` writes what it reads, before and after the pass
(`IncDecWritesWhatItReads`). The check for deadlocks shows that it ends in
`Terminated` only. `before` and `swapped` are histories for these statements.

Seven classes forget `setParent` in swapChild (UDTField.cpp:56 has a comma for a
semicolon); `AstClasses` has them with `adopts = FALSE`, and the runs show that no operator
of the grammar is a direct child of one, so nothing comes of it yet.

The model lets a syntax error follow every reduction; the LALR tables allow it after
most. Types without a `%destructor` are reduced further at once in consistent states
and so never on the stack at an error. An initializer in a `type` is set before the
declaration is appended, not in one reduction with it. The passes are run by the
repository's tests only, so any group is possible. A select without any
case makes `EnforceSingleDefaultCase` dereference null (`"crashed"`), and
`default_cases`, a finding, shows that one without a default case is rejected as having
several (EnforceSingleDefaultCase.cpp:24).

## Proofs

Eight modules hold theorems, `AstHeapProofs` the lemmas that those of `AstLifecycleProofs` rest
on; every leaf is checked by TLAPS. They speak of every value
of the constants: any program, body, file, definition, table or command line, of any
length. TLC has checked each property, and each inductive invariant, on the runs
below first (but for `Laid` and `Running`, which ask for a map from blocks to points, and
`ArgumentsInRangeButShort`, which no run of its own is spent on).

| theorem | property | rests on the invariant |
|---|---|---|
| `LabelResolutionProofs`: `FirstLabelBinds`, `PendingAreUnbound`, `ExitsLeaveInnermost` | `BoundToFirstLabel`, `PendingAreTheUnbound`, `ExitsLeaveInnermostLoop` | `Bindings` (and `Exits` for the last) |
| `GeneratedCodeProofs`: `TypeCorrect`, `ReturnsReach` | `TypeOK`, `ReturnsReachEveryGosub` | themselves |
| `GeneratedCodeProofs`: `TerminatedOnce`, `VerdictExact` | `TerminatedExactlyOnce`, `VerdictIsExact` | `Building` |
| `GeneratedCodeProofs`: `OnlyTheStackFails`; `CodeDoesWhatSourceSays`, `CodeIsLaid`, `RunStaysInFunction` | `UndefinedOnlyAtTheStackLimits`; the safety part of `Source` | `Laid`, `Running` |
| `CommandLexerProofs`: `OneOwner`, `NoneLost`, `ScannerStops` | `StringsHaveOneOwner`, `NoTokenLost` | `Lexing` |
| `CommandLexerProofs`: `PushesAsSpelled` | `PushedAsSpelled` | `Lexing`, `Spelling` |
| `ActionTableProofs`: `ReachedIsLeast`, `PrioritiesAscend`, `SearchIsRight`, `SameReachSamePriorities` | - | (about operators) |
| `ActionTableProofs`: `PrioritiesOrder`, `ReducedToMinimum`, `RequiredAreGivable`, `RejectedWithCause`, `CyclesAreClosed`, `PrioritiesOutliveReduction` | `PrioritiesOrderRunafter`, `ReducedToTheMinimum`, `RequiredCanBeGiven`, `RejectedForCause`, `CyclesHaveNoEntry` | `Making` |
| `OdbCliProofs`: `ImplicitFirst`, `OrderIsKept`, `RequirementsFirst`, `HelpIsShown`, `ArgumentsFit`; `CliRunsTheParser` | `ImplicitRunFirst`, `OrderEnforcedInTime`, `RequiredAreGiven`, `SomethingMeaningful`; - | `Dispatching` |
| `OdbCliProofs`: `SettingsAreInTime`, `CrashesHaveCause` | `SettingsInTime`, `CrashesForCause` | `Sessions`, `Dispatching` |
| `CommandCallsProofs`: `CommandsLoadExactly`, `ConflictsHaveCause` | `LoadedExactly`, `ConflictForCause` | `LoadInv` |
| `CommandCallsProofs`: `MatchingIsExact`, `CapitalsUndefined`, `BestIsCalled` | `MatcherIsExact`, `CapitalsAreUndefined`, `DominatedNeverCalled` | `LoadInv`, `CallInv` |
| `AstLifecycleProofs`: `CountsStayExact`, `TreesStayWellFormed`, `NothingIsEverLost`; `SwapsFindTheirChild`, `NothingStaysBehind` | `CountsAreExact`, `TreesAreWellFormed`, `NothingIsLost`; - | `IInv` |
| `AstLifecycleProofs`: `RewritesExactly` | `RewritingIsExact` | `IInv`, `Compares` |

The arguments, in a sentence or two each:

* **Bindings.** That a jump is bound to the first label is not inductive: nothing in it
  says what the table of labels holds while the label is still to come. `Bindings` adds
  that the table has the first label *met* of each name, that what was met and is
  not bound has no label, and that functions are converted once each, from their
  beginning (`Ordered`).
* **Building.** To know that a block has one terminator one must know who will still
  add to it: the builder, a suspended frame of `generateBlock`, or a label not met yet.
  `HeldOnce` says that no two of them hold the same block, `Ended` that all
  others are closed, once. For the verdict `JumpsAreThere` and `NothingElse` relate the branches in
  the blocks to the jumps met so far, in both directions, and `LabelsMet` the blocks in the
  function to the labels met. `LabelsStandOnce` is the assumption that a label stands at one place.
* **Laid, Running.** That the code does what the statements say is a refinement, and its proof has
  two halves. While the code is generated (`CodeIsLaid`), there is a map `start` from blocks to
  points of the source such that (`Traced`) each block begins at its point, each
  instruction begins where the one before it leaves the source (`Chain`), each does what its
  statement says and branches to blocks that begin where the source goes on (`Right`), and
  everything that will be continued, the builder, a suspended frame, a label or a loop exit, stands
  at the point it will be continued at (`FrameWaits`, `LabelWaits`, `ExitsLead`). `SourceSemantics` finds the
  end of a bracket by counting, the generator by recursion: `Nested` says that the frames are
  the brackets that are open, and the lemmas about `Open` that both find the same. When the
  code runs (`RunStaysInFunction`), the addresses on the stack were pushed by gosubs of the function
  (`PushedAll`), so that by `ReturnsReach` no return misses one; inside the two instructions of a gosub the last of them is
  that gosub's (`UnderWay`); and in the condition of a for loop the block says the sign of the step
  (`SignKnown`). Every instruction is then a step of the source or, for a push, the jumps into a
  condition and its first tests, none. It holds for accepted functions, whose brackets are closed and which have
  no `exitfunction`: `VerdictExact` is a step of the proof, and with it a function is refused exactly if it does not
  compile (`AcceptedCompiles`).
* **Lexing.** The tokens pushed and queued cover the file without a gap, the queue is in the phase
  that `doParse` is in and `end` is last. The string of every token that was scanned has exactly one
  owner. The string of a merged command has one owner at most, and none before the tokens
  up to its first have been pushed: that is what keeps a second merge at the same place from
  finding the string already there.
* **Spelling.** What is queued is raw: each token stands for one place and is as the scanner returned it, so
  that the text of the queue up to any of its tokens is what the source spells from the place of its head. From that, at each
  step of the look-ahead: the command found last is the longest among those tried (`Tried`), the text tried
  next is one token longer, and when the loop ends nothing longer can match, as no command is longer
  than the longest. That needs the index to be finite (`CommandsAreTexts`). A token kept from
  an earlier look-ahead is then treated as a token just scanned would be. The spelled text is a recursive function; that
  it exists and that two of them agree is again an induction over a set of numbers.
* **Graphs.** `Reached` is computed by as many rounds as there are actions. That this suffices is
  a pigeonhole argument (`ReachedIsLeast`): the sets grow until they stop, and cannot grow more
  often. That a child has a smaller priority than its parents follows for
  acyclic graphs by well-founded descent; `SearchIsRight` says that the search without marks
  answers what `Reached` says on every graph, if it ends, and that it ends on every acyclic one.
* **Making.** Each pass leaves what the next needs: resolved names, unique names, no cycle
  that the roots lead to, priorities, no implicit requirement. `Reducing` is for the pass that
  shortens the lists it searches: what was reached before is reached still, since a
  dependency is dropped only for a path that does not use it.
  `PrioritiesOutliveReduction` then gives `TablesAreGenerated`, the assumption of
  `ArgDispatch`, for every table that is accepted and has no hidden cycle: the two components are
  proved against the same interface.
* **Dispatching.** Per property, what has to be true of the handlers still queued: whatever is
  queued or has run brings its implicit actions along (`ImplicitTaken`), nothing that has run comes
  after what is queued or may still be started (`NothingTooEarly`), and so on.
  The attempt to prove `OrderEnforcedInTime` showed that the condition on meta actions has to be
  transitive: a result of a result may come late as well. TLC confirmed it
  with a table of its own, and the property says so now.
* **CliRunsTheParser.** A refinement: every behaviour of `CliSpec` satisfies `Init /\ [][Next]_vars`
  of `ArgDispatch`, as the outcomes of odbc's handlers are some of the arbitrary ones. The five
  theorems about the parser are therefore theorems about odbc too.
* **Sessions.** For each handler a lemma says what it may do to the session (`Effect`). The
  invariant relates the session to the history: what has run did not have to wait for a setter that is queued
  (`SettersAreDone`), so a setter that is called changes nothing that was already
  used (`CommandsInTime`, `OutputInTime`); a file that is given is parsed or still queued
  (`FilesAreParsed`), and a handler without arguments has an excuse in the text (`Excused`). What
  crashes a loader or the compiler is arbitrary in these proofs (`FatalSettings`, `FatalPrograms`).
  The attempt to prove `CrashesForCause` found a crash that the property had not allowed and no run had
  reached (`--dba f -oW name`: `-o` is called without the word); it is in the property and in the lines of the run now.

* **IInv.** First come the lemmas about memory, for every heap (`AstHeapProofs`). `Graph` says that the
  nodes form no cycle and that each count is the number of references, those held outside
  the heap included; `Forest`, that the nodes of the trees have one owner each, and know it;
  `AllFit`, that children are of the classes that their owner's constructor declares. Each
  operator of `AstHeap` has a lemma on what it needs and keeps of the three. `Holds` relates
  them to the run. Neither of the three properties is inductive alone: that a reduction may give a
  popped node to a new owner rests on the classes the grammar puts on the stack (`Parsing`), that
  it is in no other tree on `StackIsRaw`, and that the pass finds every operator under its parent on the pass having
  gathered each one once (`Gathering`) and on what has been replaced being in no tree any more
  (`Rewriting`, `Covered`). While releases are under way a node may be alive without
  being in a tree; `Covered` says when it may not. `NothingStaysBehind` is the corollary for the exit:
  whichever way `main` ends, no node of an AST is alive when it is over. The proof needs what the model first
  left to the sequences TLC was given, that files are derivations of the grammar: `Symbols` came in for it.

* **Compares.** Each node of the tree as it was has an image in the tree under rewriting: itself, or the complement
  that took its place. A node that was not replaced is as it was, with the images of
  its children for children; the complement of an operator has the image of its left
  operand (`Compared`). The images are closed under children, so they are the tree (`Images`), and that
  no other node comes into it rests on the forest of `IInv`: what swaps its child has no second one of that name. A
  refusal has a cause in the tree as it was *parsed*, though the pass looks at the tree as it is
  then: an operand has side effects now iff it had them before, because all that was
  discarded in it had none (`PurityKept`). That the operators are all of them comes from
  the traversal (`Looking`): what was visited has its children visited or to be visited.

* **LoadInv.** The books of the loader balance at every step (`Balanced`): a command is in the index as
  often as its library was opened, times the entries that say the same, but for those of the open
  library still to be read; and the library will be opened as often again as it is in `toLoad` or in a
  directory still to be searched. That the loop up to `getSymbolCount` leaves no command out is `AllAreSeen`.
  At the end every command is there `Total` times. For DarkBASIC this is what the directories name. For ODB it is
  what those of the SDK name (`Scanned`), and once more for each additional directory, but
  that never gets past `findConflicts`: the comparison is with the first command of a name
  only, but all of them are doubled, so the first command of all meets itself (`TwiceIsConflict`).
  What is `Scanned` is what is `Named` unless there is such a directory (`ScannedAsNamed`).
* **CallInv.** `MatchingIsExact` is about the search: `HalvingIsRight` says that one round keeps, of the names that
  agree with the text so far, exactly those that agree in one more character, which holds because
  the list is in the order of the same characters (`PartAscends`), the terminator included; and that a name
  that is a prefix of others is the first of its part. `Sort` is the list by ranks, which `RanksAreApart` shows to be
  a list. `BestIsCalled` needs the sum of the scores to grow with each of them (`BetterScoresMore`). Both
  are recursive functions: their existence is proved by induction over a set of numbers (`AllNumbers`).

Assumptions, all evaluated by TLC in the run of the module: what a program, body, file,
definition, table or command line is (`ProgramsAreBodies`, `BodiesAreItems`, `SourcesAreFiles`,
`DefinitionsAreTables`, `TablesAreGenerated`, `CommandsAreTexts`, `LinesAreArguments`, `InputsAreParses`, `GroupsAreProcesses`), that a label is one object, and a loop
(`LabelsStandOnce`, `LoopsStandOnce`), that the range of a for is integers (`RangesAreIntegers`), that null is none of the others (`NullIsNoName`, `NullIsNoStatement`, `NullIsNoArg`),
what a library, a setup, a text and an argument are (`LibrariesAreLibraries`, `SetupsAreSetups`, `TextsAreText`, `CallArgsAreTypes`: the names in
a table are C strings, and one without exported symbols has no commands),
how many arguments a meta action returns (`MetaArgsAreBounded`, `OneIsReturned`), and what
`Actions.argdef` says of odbc's handlers (`HandlersAreOrdered`, `HandlersTakeArguments`).

Model-checked only: liveness (`Terminates`, `Returns`, `Finishes`), and of the refinement `Source`
the fairness of its specification, that the run does not stop while the statements go on; `ArgumentsBelongToOptions`; `OutputIsComplete`, which counts what is in every file that is written; `IncDecWritesWhatItReads`, which compares a tree with a copy
of it, node by node; and the properties of `Expressions`, which uses
recursive operators and bit operations that the provers do not take.
A type invariant is kept in the run of the module whose
proofs rest on it; elsewhere it is part of the inductive invariant and the properties fail with it.

## The runs

| run | states | what bounds it |
|---|---|---|
| `label_resolution` | 144237 | two names, programs of three statements, six brackets |
| `generated_code` | 73164 | bodies of four items and longer nested ones, 2 stack slots |
| `command_lexer` | 56321 | files of four to five tokens |
| `action_table` | 171596 | four actions |
| `odb_cli` | 280198 | three options |
| `ast_lifecycle` | 50369 | two levels of operators, three files |
| `command_calls` | 64139 | thirteen libraries, two at a time, two arguments |
| `expressions` | 70360 | two levels of operators, 20 lines of output (`MaxShown`) |

`command_lexer_integers`, `default_cases`, `literals` and `additional_plugins` each refute one sentence of a comment, a message or a help text. Runs in which the system really stops say
`CHECK_DEADLOCK FALSE`; `ast_lifecycle` does not.

## Not modelled, and the plan

The grammar's tables, the scanner, LLVM's passes and the linker, the engine's entry
point and command thunks, copies of whole statements (nothing makes them),
weak references (nothing uses them), handlers and helpers that only print, the text of messages
with `SourceLocation`, the text argdefgen writes, and the vendored code under
`src/thirdparty` (googletest, gperf), which is not this project's program. The interpreter and the language server are
stubs. What is left to do:

1. Proofs: `IncDecWritesWhatItReads` from the invariant of `AstLifecycle`.
2. `Lowering`: LabelResolution and BlockGenerator composed, so that a label of
   another function goes all the way to the verifier.
3. The thunks of commands, with the C symbol in `CommandIndex`.
