----------------------------- MODULE ArgDispatch -----------------------------
(***************************************************************************)
(* The command line parser that argdefgen generates: parseCommandLine and  *)
(* what it calls (src/odb-cli/argdefgen/templates/cpp_postamble.cpp), over *)
(* the table of actions that ActionTable computes.                         *)
(*                                                                         *)
(* An argument is what the parser tells apart: an option, or a word that   *)
(* does not begin with a dash.  A handler in the list or the queue is an   *)
(* action and the number of its arguments, with the place in the list that *)
(* it comes from (0 for the result of a meta action).                      *)
(***************************************************************************)
EXTENDS ActionGraph, Integers, SequencesExt

CONSTANTS
  Tables,         \* the tables considered: sequences of actions
  Lines(_),       \* the command lines considered for a table
  MaxMetaArgs     \* bound: how many arguments a meta handler returns

Unlimited == -1
\* priority and the lists as ActionTable leaves them; short 0: no short option;
\* func is the handler's name, or empty.
Fields == {"func", "implicit", "meta", "help", "short", "lo", "hi", "priority",
           "runafter", "requires", "metadeps"}

ASSUME MetaArgsAreBounded == MaxMetaArgs \in Nat
ASSUME TablesAreGenerated ==
  \A t \in Tables :
    /\ Len(t) \in Nat /\ DOMAIN t = 1 .. Len(t)
    /\ \A a \in DOMAIN t :
         /\ DOMAIN t[a] = Fields
         /\ {t[a].implicit, t[a].meta, t[a].help} \subseteq BOOLEAN
         /\ t[a].lo \in Nat /\ t[a].hi \in Nat \cup {Unlimited}
         /\ t[a].hi = Unlimited \/ t[a].lo <= t[a].hi
         /\ {t[a].runafter, t[a].requires, t[a].metadeps} \subseteq Seq(DOMAIN t)
         /\ t[a].meta <=> t[a].metadeps # <<>>
    /\ LET runafter == [a \in DOMAIN t |-> t[a].runafter]
       IN Acyclic(runafter) /\ [a \in DOMAIN t |-> t[a].priority] = Priorities(runafter)

\* An argument is [kind, names, args]: "full", --name, or "assign",
\* --name=args,..., with one name and, as split makes no less, one argument; "short", -names; "word"; or "dash", a single
\* dash.  The name of "--" is 0, which is also how the table spells an implicit
\* action; no action is named -1.
Argument == [kind : {"full", "assign", "short", "word", "dash"}, names : Seq(Nat), args : Nat]
ASSUME LinesAreArguments ==
  \A t \in Tables : \A line \in Lines(t) :
    /\ line \in Seq(Argument)
    /\ \A k \in DOMAIN line :
         /\ line[k].kind \in {"full", "assign"} => Len(line[k].names) = 1
         /\ line[k].kind = "assign" => line[k].args >= 1
         /\ line[k].kind = "short" => line[k].names # <<>>
         /\ line[k].kind \in {"word", "dash"} => line[k].names = <<>>

VARIABLES
  actions,   \* actions_, the table (never changes)
  argv,      \* the arguments (never changes)
  pooled,    \* whether equal string literals are one object (never changes)
  pos,       \* i: the argument to parse next
  list,      \* the ActionList
  queue,     \* the ActionQueue
  ran,       \* the handlers called, in order (history)
  status     \* what is next; "ok" or "failed": returned; "crashed" or "overflow"

input == <<actions, argv, pooled>>
vars == <<input, pos, list, queue, ran, status>>

Graph(dependency) == [a \in DOMAIN actions |-> actions[a][dependency]]
Handler(a, args, place) == [action |-> a, args |-> args, place |-> place]
Is(h, property) == actions[h.action][property]
InRange(a, args) ==
  args >= actions[a].lo /\ (actions[a].hi = Unlimited \/ args <= actions[a].hi)

Init ==
  /\ actions \in Tables
  /\ argv \in Lines(actions)
  /\ pooled \in BOOLEAN
  /\ pos = 1
  /\ list = <<>>
  /\ queue = <<>>
  /\ ran = <<>>
  /\ status = "parse"

Fail == status' = "failed" /\ UNCHANGED <<input, pos, list, queue, ran>>

-----------------------------------------------------------------------------
LongOption(a) == IF actions[a].implicit THEN 0 ELSE a
Least(s) == CHOOSE x \in s : \A y \in s : x <= y
fromFullOption(name) ==
  LET named == {a \in DOMAIN actions : LongOption(a) = name}
  IN IF named = {} THEN 0 ELSE Least(named)
fromShortOption(letter) ==
  LET named == {a \in DOMAIN actions : letter # 0 /\ actions[a].short = letter}
  IN IF named = {} THEN 0 ELSE Least(named)

Arg == argv[pos]
AtArg(kind) == status = "parse" /\ pos <= Len(argv) /\ Arg.kind = kind

\* The words behind the option, up to the next one, but at most "limit".
WordsBehind(limit) ==
  LET words == {n \in 0 .. Len(argv) - pos :
                  \A k \in 1 .. n : argv[pos + k].kind = "word"}
      most == MaxOf(words)
  IN IF limit >= 0 /\ most > limit THEN limit ELSE most

Listed(handlers) == list' = list \o handlers
Parsed(n) == pos' = pos + n /\ UNCHANGED <<input, queue, ran, status>>

\* parseFullOption; the number of arguments is checked here.
ParseFullOption ==
  LET a == fromFullOption(Arg.names[1])
      args == IF Arg.kind = "assign" THEN Arg.args ELSE WordsBehind(actions[a].hi)
  IN /\ AtArg("full") \/ AtArg("assign")
     /\ \/ /\ a # 0 /\ InRange(a, args)
           /\ Listed(<<Handler(a, args, Len(list) + 1)>>)
           /\ Parsed(IF Arg.kind = "assign" THEN 1 ELSE args + 1)
        \/ ~(a # 0 /\ InRange(a, args)) /\ Fail

\* parseShortOptions: letters without required arguments one after the other,
\* up to one that has some: the rest of the letters is then its first argument,
\* and the words behind it the others.  No number of arguments is checked.
ShortActions == [k \in DOMAIN Arg.names |-> fromShortOption(Arg.names[k])]
TakesRest(a) == a # 0 /\ actions[a].lo > 0
ShortOptions ==
  LET last == {k \in DOMAIN ShortActions : TakesRest(ShortActions[k])}
  IN IF last = {} THEN ShortActions ELSE SubSeq(ShortActions, 1, Least(last))
ProcessedTwice(rest, words) == rest + words + 1    \* mutant: the rest of the letters counts as one more
\* How many arguments are processed: the rest of the letters is one of them.
Processed(rest, words) == words + 1
ParseShortOptions ==
  LET options == ShortOptions
      taker == options[Len(options)]
      rest == IF Len(options) < Len(Arg.names) THEN 1 ELSE 0
      words == IF ~TakesRest(taker) THEN 0
               ELSE WordsBehind(IF actions[taker].hi = Unlimited THEN Unlimited
                                ELSE actions[taker].hi - rest)
      args(k) == IF k = Len(options) THEN rest + words ELSE 0
  IN /\ AtArg("short")
     /\ \/ /\ \A k \in DOMAIN options : options[k] # 0
           /\ Listed([k \in DOMAIN options |-> Handler(options[k], args(k), Len(list) + k)])
           /\ Parsed(Processed(rest, words))
        \/ /\ \E k \in DOMAIN options : options[k] = 0
           /\ Fail

ParseUnrecognized == (AtArg("word") \/ AtArg("dash")) /\ Fail

-----------------------------------------------------------------------------
actionIsInList(handlers, a) == \E k \in DOMAIN handlers : handlers[k].action = a

\* Every action that one on the command line requires must be there too.
RequiresHoldForOne ==    \* mutant: one of several is enough
  \A k \in DOMAIN list :
    LET required == Children(Graph("requires"), list[k].action)
    IN required # {} => \E a \in required : actionIsInList(list, a)
RequiresHold ==
  \A k \in DOMAIN list : \A a \in Children(Graph("requires"), list[k].action) :
    actionIsInList(list, a)
CheckRequires ==
  /\ status = "parse" /\ pos > Len(argv)
  /\ \/ RequiresHold /\ status' = "implicit" /\ UNCHANGED <<input, pos, list, queue, ran>>
     \/ ~RequiresHold /\ Fail

\* addImplicitRunafterDependencies: the implicit actions it meets below an
\* action.  It follows both lists and marks nothing, so a cycle of the two
\* overflows the stack.
FollowedRunafterOnly(t) == [a \in DOMAIN t |-> t[a].runafter]    \* mutant: metadeps are forgotten
Followed(t) == [a \in DOMAIN t |-> t[a].runafter \o t[a].metadeps]
ReachedBy == [t \in Tables |-> Reached(Followed(t))]
ImplicitBelow(a) == {b \in ReachedBy[actions][a] : actions[b].implicit}
Endless(a) == \E b \in ReachedBy[actions][a] : b \in ReachedBy[actions][b]

\* addImplicitDependencies.  What it adds is met below one that it comes from,
\* so only the handlers that are in the list already have to be looked at; in
\* which order it adds them does not matter, the queue looks at priorities only.
WithImplicit(handlers) ==
  LET below == UNION {ImplicitBelow(handlers[k].action) : k \in DOMAIN handlers}
      added == SetToSeq({a \in below : ~actionIsInList(handlers, a)})
  IN handlers \o [k \in DOMAIN added |-> Handler(added[k], 0, Len(handlers) + k)]
Overflows(handlers) == \E k \in DOMAIN handlers : Endless(handlers[k].action)

AddImplicit ==
  /\ status = "implicit"
  /\ IF Overflows(list) THEN status' = "overflow" /\ UNCHANGED list
     ELSE status' = "help" /\ list' = WithImplicit(list)
  /\ UNCHANGED <<input, pos, queue, ran>>

\* tryToHelp; findActionId compares the addresses of two string literals.
helpActionId ==
  LET named == {a \in DOMAIN actions : pooled /\ actions[a].help}
  IN IF named = {} THEN 0 ELSE Least(named)
PriorityOf(a) == IF a = 0 THEN 0 ELSE actions[a].priority
Meaningful(h) == Is(h, "priority") >= PriorityOf(helpActionId) \/ Is(h, "meta")
NeedsHelpIfEmpty == list = <<>>    \* mutant
NeedsHelp == list = <<>> \/ \A k \in DOMAIN list : ~Meaningful(list[k])
Helped(handlers) ==
  IF NeedsHelp /\ helpActionId # 0
  THEN WithImplicit(Append(handlers, Handler(helpActionId, 0, Len(handlers) + 1)))
  ELSE handlers

TryToHelp ==
  /\ status = "help"
  /\ list' = Helped(list)
  /\ queue' = list'
  /\ status' = IF Overflows(list') THEN "overflow" ELSE "run"
  /\ UNCHANGED <<input, pos, ran>>

-----------------------------------------------------------------------------
\* The queue gives some handler whose priority no other's comes before; which of
\* several is not specified.
TopsReversed == {k \in DOMAIN queue :    \* mutant: the comparison is turned around
  \A j \in DOMAIN queue : Is(queue[k], "priority") >= Is(queue[j], "priority")}
TopsStrict == {k \in DOMAIN queue :    \* mutant: nothing is taken if two are equal
  \A j \in DOMAIN queue \ {k} : Is(queue[k], "priority") < Is(queue[j], "priority")}
Tops == {k \in DOMAIN queue :
  \A j \in DOMAIN queue : Is(queue[k], "priority") <= Is(queue[j], "priority")}
Popped(k) == RemoveAt(queue, k)

\* A standard handler: it may fail, or crash the program.
RunStandard(k, outcome) ==
  /\ status = "run" /\ k \in Tops /\ ~Is(queue[k], "meta")
  /\ ran' = Append(ran, queue[k])
  /\ queue' = Popped(k)
  /\ status' = outcome
  /\ UNCHANGED <<input, pos, list>>

\* A meta handler: the action and the number of arguments it returns (0 is a
\* handler without an action) are queued if they may be.
Allowed(h, result) ==
  /\ result.action \in Children(Graph("metadeps"), h.action)
  /\ InRange(result.action, result.args)
AnyResult == [action : DOMAIN actions \cup {0}, args : 0 .. MaxMetaArgs, place : {0}]
RunMeta(k, result) ==
  /\ status = "run" /\ k \in Tops /\ Is(queue[k], "meta")
  /\ ran' = Append(ran, queue[k])
  /\ IF Allowed(queue[k], result)
     THEN queue' = Append(Popped(k), result) /\ UNCHANGED status
     ELSE queue' = Popped(k) /\ status' = "failed"
  /\ UNCHANGED <<input, pos, list>>
CrashMeta(k) ==
  /\ status = "run" /\ k \in Tops /\ Is(queue[k], "meta")
  /\ ran' = Append(ran, queue[k])
  /\ queue' = Popped(k)
  /\ status' = "crashed"
  /\ UNCHANGED <<input, pos, list>>

Return ==
  /\ status = "run" /\ queue = <<>>
  /\ status' = "ok"
  /\ UNCHANGED <<input, pos, list, queue, ran>>

\* Everything before the first handler is called.
Prepare ==
  \/ ParseFullOption \/ ParseShortOptions \/ ParseUnrecognized
  \/ CheckRequires \/ AddImplicit \/ TryToHelp

Next ==
  \/ Prepare
  \/ \E k \in DOMAIN queue :
       \/ \E outcome \in {"run", "failed", "crashed"} : RunStandard(k, outcome)
       \/ \E result \in AnyResult : RunMeta(k, result)
       \/ CrashMeta(k)
  \/ Return

\* parseCommandLine runs to its end, if its handlers do.
Spec == Init /\ [][Next]_vars /\ WF_vars(Next)

-----------------------------------------------------------------------------
\* What runs before an action: the actions that it runs after, also through others.
Before == [t \in Tables |-> Reached([a \in DOMAIN t |-> t[a].runafter])]
RunsAfter(a, b) == b \in Before[actions][a]

\* "All implicit actions are always automatically (recursively) executed if an
\* action has a runafter dependency on it" (argdefgen/README.md:222), and before
\* that action: also if it is started by a meta action that is started by
\* another, long after the implicit actions were collected.
ImplicitRunFirst ==
  \A k \in DOMAIN ran : \A a \in DOMAIN actions :
    RunsAfter(ran[k].action, a) /\ actions[a].implicit =>
      \E j \in 1 .. k - 1 : ran[j].action = a

\* "Runafter dependencies between explicit actions let you enforce an order of
\* execution of actions, regardless of how they appear on the command line"
\* (argdefgen/README.md:230).
OrderEnforced ==
  \A j, k \in DOMAIN ran : j < k => ~RunsAfter(ran[j].action, ran[k].action)

\* It is enforced in every table in which what runs after the result of a meta
\* action, or after the result of such a result, comes later than the meta
\* action itself.
Started(t) == [a \in DOMAIN t |-> t[a].metadeps]
ResultsOf == [t \in Tables |-> Reached(Started(t))]
ResultsInTime ==
  \A m \in DOMAIN actions : \A r \in ResultsOf[actions][m] : \A a \in DOMAIN actions :
    RunsAfter(a, r) => actions[a].priority > actions[m].priority
OrderEnforcedInTime == ResultsInTime => OrderEnforced

\* The options of the command line, by its text alone.
OptionsOf(arg) ==
  LET options == [k \in DOMAIN arg.names |-> IF arg.kind = "short" THEN fromShortOption(arg.names[k])
                                              ELSE fromFullOption(arg.names[k])]
  IN {options[k] : k \in {j \in DOMAIN options : \A i \in 1 .. j - 1 :
                             arg.kind = "short" => ~TakesRest(options[i])}}
Given == UNION {OptionsOf(argv[k]) : k \in DOMAIN argv}

\* Nothing runs unless everything that an option requires, directly or through
\* others, is on the command line, wherever it stands there.
RequiredAreGiven ==
  ran # <<>> => \A a \in Given : Reached(Graph("requires"))[a] \subseteq Given

\* "Be nice and show help if no meaningful actions are going to be run"
\* (cpp_postamble.cpp:421): a parse that succeeds has run an action that comes
\* after the help, or the help.
SomethingMeaningful ==
  status = "ok" /\ helpActionId # 0 => \E k \in DOMAIN ran : Meaningful(ran[k])

\* The handlers that an argument of the command line starts, by the text alone: one
\* for each option it spells, up to the first letter whose action has to have
\* arguments.  The last of them gets what is attached to the argument, letters
\* left over are one, and all words behind it; nothing else gets any.
Spells(k) ==
  LET letters == argv[k].kind = "short"
      option(n) == IF letters THEN fromShortOption(argv[k].names[n]) ELSE fromFullOption(argv[k].names[n])
      spelled == {n \in DOMAIN argv[k].names :
                    letters => \A i \in 1 .. n - 1 : ~TakesRest(option(i))}
  IN [n \in spelled |-> option(n)]
Attached(k) ==
  IF argv[k].kind = "assign" THEN argv[k].args
  ELSE IF Len(Spells(k)) < Len(argv[k].names) THEN 1 ELSE 0
Behind(k) == Cardinality({j \in k + 1 .. Len(argv) : \A i \in k + 1 .. j : argv[i].kind = "word"})
StartedBy(k) ==
  [n \in DOMAIN Spells(k) |->
     [action |-> Spells(k)[n], args |-> IF n = Len(Spells(k)) THEN Attached(k) + Behind(k) ELSE 0]]

\* Once the command line is parsed, its options are in the list in their order, each
\* with the arguments that stand behind it and no other's: none is skipped, and
\* none is read twice.
ArgumentsBelongToOptions ==
  status = "implicit" =>
    [k \in DOMAIN list |-> [action |-> list[k].action, args |-> list[k].args]]
      = FlattenSeq([k \in DOMAIN argv |-> StartedBy(k)])

\* A handler reads the arguments its declaration promises: their number is in
\* range, however the action was started; unless a short option started it, or
\* the parser does by itself, without arguments, what has to have some.
ArgumentsInRange == \A k \in DOMAIN ran : InRange(ran[k].action, ran[k].args)
NoShort == \A k \in DOMAIN argv : argv[k].kind # "short"
AddedTakeNone ==
  \A a \in DOMAIN actions : actions[a].implicit \/ actions[a].help => actions[a].lo = 0
ArgumentsInRangeButShort == NoShort /\ AddedTakeNone => ArgumentsInRange

\* Whatever the meta actions start, and although their results are queued like
\* any other handler, the parser returns, or a handler crashes, or the implicit
\* actions overflow the stack.
Returns == <>(status \in {"ok", "failed", "crashed", "overflow"})
=============================================================================
