----------------------------- MODULE CommandCalls -----------------------------
(***************************************************************************)
(* From the plugins on the disk to the command that a program calls:       *)
(* CommandIndex loads, CommandMatcher tells the lexer which texts are      *)
(* commands, and convertCommandCallExpression of                           *)
(* src/odb-compiler/src/ir/semantic/ASTConverter.cpp looks the text up and *)
(* picks an overload.  One call is followed, with any text and arguments.  *)
(***************************************************************************)
EXTENDS CommandIndex, IrTypes

CONSTANTS
  Texts,      \* texts a program may contain
  CallArgs    \* sequences of types of arguments
ASSUME TextsAreText == Texts \subseteq Text \ {<<>>}
ASSUME CallArgsAreTypes == CallArgs \subseteq Seq(Types)

VARIABLES
  matcher,    \* CommandMatcher::commands_
  text, args, \* the call
  candidates, \* what is left of the overloads, as places in commands
  command     \* the command called, a place in commands

callVars == <<matcher, text, args, candidates, command>>
vars == <<indexVars, callVars>>

CallInit ==
  /\ Init
  /\ matcher = <<>>
  /\ text = <<>> /\ args = <<>>
  /\ candidates = {}
  /\ command = 0

LoadIndex == Load /\ UNCHANGED callVars

\* initCommandMatcher
UpdateMatcher ==
  /\ status = "loaded"
  /\ status' = "matcher"
  /\ matcher' = updateFromIndex([k \in DOMAIN commands |-> commands[k].name])
  /\ UNCHANGED <<setup, toLoad, dirs, library, next, commands>>
  /\ UNCHANGED <<text, args, candidates, command>>

\* What the lexer takes for a command: a text that is matched to its end.
IsCommand(t) ==
  findLongestCommandMatching(matcher, t) = [matchedLength |-> Len(t), found |-> TRUE]

\* Mutant: the text is looked up as it is written.
lookupAsWritten(name) == {k \in DOMAIN commands : commands[k].name = name}
\* lookup: the table has the names as the plugin spells them.
lookup(name) == {k \in DOMAIN commands : commands[k].name = toLower(name)}

LookUp ==
  /\ status = "matcher"
  /\ \E t \in Texts, types \in CallArgs :
       /\ text' = t /\ args' = types
       /\ \/ IsCommand(t) /\ status' = "overloads" /\ candidates' = lookup(t)
          \/ ~IsCommand(t) /\ status' = "no command" /\ candidates' = {}
  /\ UNCHANGED <<setup, toLoad, dirs, library, next, commands, matcher, command>>

\* candidates.front() comes first, in every case.
FrontOfNone ==
  /\ status = "overloads" /\ candidates = {}
  /\ status' = "undefined"
  /\ UNCHANGED <<setup, toLoad, dirs, library, next, commands, callVars>>

\* A letter that stands for no type of the IR is fatal here too.
Call(c) ==
  /\ command' = c
  /\ status' = IF KnownLetter(commands[c].ret) THEN "called" ELSE "fatal"
  /\ UNCHANGED <<setup, toLoad, dirs, library, next, commands, matcher, text, args, candidates>>

\* Without arguments any overload may be in front.
CallWithoutArguments ==
  /\ status = "overloads" /\ args = <<>>
  /\ \E c \in candidates : Call(c)

Takes(c) == commands[c].args
ConvertsTo(k, letter) ==
  /\ letter \notin {"X", "A"}
  /\ KnownLetter(letter) => isTypeConvertible(args[k], getTypeFromCommandType(letter))
convertArgumentsPossible(c) == \A k \in DOMAIN args : ConvertsTo(k, Takes(c)[k])
\* getTypeFromCommandType of another letter is fatal, if it comes so far.
UnknownLetter(c) ==
  \E k \in DOMAIN args :
    /\ Takes(c)[k] \notin {"X", "A"} /\ ~KnownLetter(Takes(c)[k])
    /\ \A j \in 1 .. k - 1 : ConvertsTo(j, Takes(c)[j])

OfTheRightLength == {c \in candidates : Len(Takes(c)) = Len(args)}
RemoveUnsuitable ==
  /\ status = "overloads" /\ args # <<>> /\ candidates # {}
  /\ LET suitable == {c \in OfTheRightLength : convertArgumentsPossible(c)}
     IN /\ candidates' = suitable
        /\ status' = IF suitable = {} \/ \E c \in OfTheRightLength : UnknownLetter(c)
                     THEN "fatal" ELSE "sort"
  /\ UNCHANGED <<setup, toLoad, dirs, library, next, commands, matcher, text, args, command>>

SameArchetype(s, t) ==
  \/ isIntegralType(s) /\ isIntegralType(t)
  \/ isFloatingPointType(s) /\ isFloatingPointType(t)
ArgScore(type, given) ==
  IF type = given THEN 10 ELSE IF SameArchetype(type, given) THEN 1 ELSE 0
scoreCandidate(c) ==
  LET total[k \in 0 .. Len(args)] ==
        IF k = 0 THEN 0
        ELSE total[k - 1] + ArgScore(getTypeFromCommandType(Takes(c)[k]), args[k])
  IN total[Len(args)]

\* std::sort puts one of those with the highest score to the end, any of them.
WorstFirst == {c \in candidates : \A d \in candidates : scoreCandidate(c) <= scoreCandidate(d)}
Best == {c \in candidates : \A d \in candidates : scoreCandidate(d) <= scoreCandidate(c)}
CallBest ==
  /\ status = "sort"
  /\ \E c \in Best : Call(c)

Next ==
  \/ LoadIndex \/ UpdateMatcher \/ LookUp
  \/ FrontOfNone \/ CallWithoutArguments \/ RemoveUnsuitable \/ CallBest

Spec == CallInit /\ [][Next]_vars /\ WF_vars(Next)

-----------------------------------------------------------------------------
(* Properties *)

\* The search by halving finds a text to its end exactly if the text is the name
\* of a command, in any spelling of either: what Driver::doParse relies on.
MatcherIsExact ==
  status = "matcher" =>
    \A t \in Texts : IsCommand(t) <=> \E k \in DOMAIN commands : toLower(commands[k].name) = toLower(t)

\* The command called is none that another one of its overloads beats: as good
\* for every argument (the same type, the same kind of number, convertible), and
\* better for one.  Which of several such is called is up to std::sort.
Fit(k, letter) ==
  LET type == getTypeFromCommandType(letter)
  IN IF type = args[k] THEN 2 ELSE IF SameArchetype(type, args[k]) THEN 1 ELSE 0
Beats(c, d) ==
  /\ Len(Takes(c)) = Len(args) /\ convertArgumentsPossible(c)
  /\ \A k \in DOMAIN args : Fit(k, Takes(c)[k]) >= Fit(k, Takes(d)[k])
  /\ \E k \in DOMAIN args : Fit(k, Takes(c)[k]) > Fit(k, Takes(d)[k])
DominatedNeverCalled ==
  status = "called" /\ args # <<>> => \A c \in lookup(text) : ~Beats(c, command)

\* Commands are stored as they are spelled and looked up in lower case: a call
\* that the lexer has matched has undefined behaviour exactly if every command of
\* its name is spelled with a capital.
CapitalsAreUndefined ==
  text # <<>> /\ status \in {"undefined", "sort", "called", "fatal"} =>
    (status = "undefined" <=>
       \A k \in DOMAIN commands :
         toLower(commands[k].name) = toLower(text) => commands[k].name # toLower(commands[k].name))
=============================================================================
