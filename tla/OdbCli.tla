-------------------------------- MODULE OdbCli --------------------------------
(***************************************************************************)
(* odbc: what the handlers of src/odb-cli/src do, run by the parser of     *)
(* ArgDispatch.  They share the static variables of their files, here one  *)
(* record, "session".  A word of the command line is named by the option   *)
(* it belongs to and its place behind it: <<place in the list, k>>; what   *)
(* it says is chosen when a handler compares it with something.            *)
(***************************************************************************)
EXTENDS ArgDispatch

\* What the directories and the files hold decides whether odbc gets through the
\* loaders and through the compiler.  Neither looks at anything else of the session.
CONSTANTS
  FatalSettings,   \* the SDK's settings for which loading the commands ends odbc
  FatalPrograms    \* the programs that end the compiler

\* A meta handler of odbc returns one argument.
ASSUME OneIsReturned == MaxMetaArgs >= 1

Calling(t, funcs) == {a \in DOMAIN t : t[a].func \in funcs}
SdkHandlers == {"setSDKRootDir", "setSDKType", "setAdditionalPluginsDir", "initSDK"}
TargetHandlers == {"setOutputType", "setArch", "setPlatform"}

\* What Actions.argdef says of its handlers.  Commands are loaded, and the output
\* written, after the SDK's settings, and the output after the files are parsed;
\* it comes after the target's settings only by its priority.  No meta action
\* starts one of these late.  An implicit action loads the commands before the
\* matcher gets them, and one sets up the matcher before a file is parsed.
ASSUME HandlersAreOrdered ==
  \A t \in Tables :
    /\ \A b \in Calling(t, {"loadCommands", "output"}) : Calling(t, SdkHandlers) \subseteq Before[t][b]
    /\ \A b \in Calling(t, {"output"}) :
         /\ Calling(t, {"parseDBA"}) \subseteq Before[t][b]
         /\ \A a \in Calling(t, TargetHandlers) : t[a].priority < t[b].priority
    /\ \A a \in Calling(t, SdkHandlers \cup TargetHandlers \cup {"warn", "output"}) :
         \A m \in DOMAIN t : a \notin Children(Started(t), m)
    /\ \A a \in Calling(t, {"initCommandMatcher"}) :
         \E b \in Calling(t, {"loadCommands"}) \cap Before[t][a] : t[b].implicit
    /\ \A a \in Calling(t, {"parseDBA"}) :
         \E b \in Calling(t, {"initCommandMatcher"}) \cap Before[t][a] : t[b].implicit

\* Files are given by a long option that has to have some, --output may stand
\* alone, and the help starts none of these.
ASSUME HandlersTakeArguments ==
  \A t \in Tables :
    /\ \A a \in Calling(t, {"parseDBA", "output", "warn"}) : ~t[a].implicit /\ ~t[a].help /\ t[a].hi # 0
    /\ \A a \in Calling(t, {"parseDBA"}) : t[a].lo > 0 /\ t[a].short = 0
    /\ \A a \in Calling(t, {"warn"}) : t[a].lo > 0
    /\ \A a \in Calling(t, {"loadCommands", "initCommandMatcher", "parseDBA"}) : ~t[a].meta

VARIABLE session
cliVars == <<vars, session>>

Unset == <<>>
InitialSession ==
  [sdkRoot |-> Unset, sdkType |-> "ODB", pluginDirs |-> <<>>,   \* SDK.cpp
   cmdIndex |-> Unset,        \* the settings that commands were loaded with
   cmdMatcher |-> Unset,      \* the index that it was updated from
   ast |-> <<>>,              \* null, or the files that have been parsed into it
   parsedWith |-> {},         \* the matchers that they were parsed with (history)
   outputType |-> "obj", arch |-> "", platform |-> "",
   written |-> <<>>]          \* what output has written (history)

Words(h) == [k \in 1 .. h.args |-> <<h.place, k>>]
Done(s) == {[status |-> "run", session |-> s]}
FailedWith(s) == {[status |-> "failed", session |-> s]}
CrashedWith(s) == {[status |-> "crashed", session |-> s]}
SdkSettings(s) == [root |-> s.sdkRoot, type |-> s.sdkType, plugins |-> s.pluginDirs]
Program(s) == [ast |-> s.ast, commands |-> s.cmdIndex]

-----------------------------------------------------------------------------
(* The standard handlers: h is the call, s the session, the result the set *)
(* of what may come of it.                                                 *)

setSDKRootDir(h, s) ==
  IF s.sdkRoot # Unset THEN FailedWith(s) ELSE Done([s EXCEPT !.sdkRoot = Words(h)[1]])

setSDKType(h, s) ==
  FailedWith(s) \cup UNION {Done([s EXCEPT !.sdkType = type]) : type \in {"DarkBASIC", "ODB"}}

setAdditionalPluginsDir(h, s) == Done([s EXCEPT !.pluginDirs = @ \o Words(h)])

initSDK(h, s) ==
  IF s.sdkRoot # Unset THEN Done(s)
  ELSE IF s.sdkType = "ODB" THEN Done([s EXCEPT !.sdkRoot = <<"default">>])
  ELSE FailedWith(s)

\* The libraries may be unreadable or have conflicts.  A directory that cannot be
\* read throws what nobody catches, and a library that is never closed, or one that
\* is not what it seems, has no defined behaviour; see CommandIndex.
loadCommands(h, s) ==
  FailedWith(s) \cup (IF SdkSettings(s) \in FatalSettings THEN CrashedWith(s)
                      ELSE Done([s EXCEPT !.cmdIndex = <<SdkSettings(s)>>]))

initCommandMatcher(h, s) == Done([s EXCEPT !.cmdMatcher = s.cmdIndex])

\* Mutant: every file starts a new tree.
parseDBAAnew(h, s) ==
  {[status |-> IF n = h.args THEN "run" ELSE "failed",
    session |-> [s EXCEPT !.ast = SubSeq(Words(h), 1, n), !.parsedWith = @ \cup {s.cmdMatcher}]] : n \in 0 .. h.args}
\* The first file that cannot be parsed ends it.
parseDBA(h, s) ==
  {[status |-> IF n = h.args THEN "run" ELSE "failed",
    session |-> [s EXCEPT !.ast = @ \o SubSeq(Words(h), 1, n), !.parsedWith = @ \cup {s.cmdMatcher}]] : n \in 0 .. h.args}

\* Without DOT support it fails, as it does if the file cannot be opened.
dumpASTDOT(h, s) == FailedWith(s) \cup (IF s.ast = <<>> THEN {} ELSE Done(s))
dumpASTJSON(h, s) == FailedWith(s)

\* One value other than the default stands for all; an unknown name changes nothing.
setOutputType(h, s) == Done([s EXCEPT !.outputType = "llvm-ir"]) \cup Done(s)
setArch(h, s) == Done([s EXCEPT !.arch = "aarch64"]) \cup Done(s)
setPlatform(h, s) == Done([s EXCEPT !.platform = "macos"]) \cup Done(s)

WithTarget(s) ==
  [s EXCEPT !.arch = IF @ # "" THEN @ ELSE IF s.sdkType = "DarkBASIC" THEN "i386" ELSE "x86_64",
            !.platform = IF @ # "" THEN @ ELSE IF s.sdkType = "DarkBASIC" THEN "windows" ELSE "host"]
\* Only i386 on Windows makes object code for DarkBASIC.
Supported(s) ==
  s.sdkType = "DarkBASIC" /\ s.outputType # "llvm-ir" => s.arch = "i386" /\ s.platform = "windows"
Written(s) ==
  [ast |-> s.ast, sdk |-> SdkSettings(s), type |-> s.outputType, arch |-> s.arch, platform |-> s.platform]
\* args[0] is read without a test, and so is the tree, once the file is open.  A
\* program may be turned down, or end the compiler: it terminates for a label that
\* is not found, it generates code from a null pointer for a gosub to one, and
\* more; see BlockGenerator and Expressions.  The target is looked at later.
output(h, s) ==
  LET target == WithTarget(s)
  IN IF h.args = 0 THEN CrashedWith(s)
     ELSE FailedWith(s)
            \cup (IF s.ast = <<>> \/ Program(s) \in FatalPrograms THEN CrashedWith(target)
                  ELSE FailedWith(target)
                         \cup {o \in Done([target EXCEPT !.written = Append(@, Written(target))]) : Supported(target)})

printHelp(h, s) == FailedWith(s)    \* it has nothing else to do

\* What the handlers behind the functions of a table may do; the others print
\* something, or are those of another program.
Outcomes(h, s) ==
  LET func == actions[h.action].func
  IN CASE func = "setSDKRootDir" -> setSDKRootDir(h, s)
       [] func = "setSDKType" -> setSDKType(h, s)
       [] func = "setAdditionalPluginsDir" -> setAdditionalPluginsDir(h, s)
       [] func = "initSDK" -> initSDK(h, s)
       [] func = "loadCommands" -> loadCommands(h, s)
       [] func = "initCommandMatcher" -> initCommandMatcher(h, s)
       [] func = "parseDBA" -> parseDBA(h, s)
       [] func = "dumpASTDOT" -> dumpASTDOT(h, s)
       [] func = "dumpASTJSON" -> dumpASTJSON(h, s)
       [] func = "setOutputType" -> setOutputType(h, s)
       [] func = "setArch" -> setArch(h, s)
       [] func = "setPlatform" -> setPlatform(h, s)
       [] func = "output" -> output(h, s)
       [] func = "prints" -> Done(s)
       [] func = "printHelp" -> printHelp(h, s)
       [] OTHER -> Done(s) \cup FailedWith(s)

\* warn starts the action that is called "warn-" and its argument; the two that
\* would find out what an input is start none.
NoAction == Handler(0, 0, 0)
Results(h) ==
  CASE actions[h.action].func = "warn" ->
         {NoAction} \cup {Handler(a, 1, 0) : a \in {b \in DOMAIN actions : actions[b].func = "warnTest"}}
    [] actions[h.action].func \in {"parseDBPro", "autoDetectInput"} -> {NoAction}
    [] OTHER -> AnyResult
CrashesWithoutArgs(h) == h.args = 0 /\ actions[h.action].func = "warn"

-----------------------------------------------------------------------------

CliInit == Init /\ session = InitialSession
CliNext ==
  \/ Prepare /\ UNCHANGED session
  \/ \E k \in DOMAIN queue : ~Is(queue[k], "meta") /\ \E o \in Outcomes(queue[k], session) :
       RunStandard(k, o.status) /\ session' = o.session
  \/ \E k \in DOMAIN queue : /\ Is(queue[k], "meta") /\ ~CrashesWithoutArgs(queue[k])
                             /\ \E result \in Results(queue[k]) : RunMeta(k, result)
                             /\ UNCHANGED session
  \/ \E k \in DOMAIN queue : Is(queue[k], "meta") /\ CrashesWithoutArgs(queue[k])
                             /\ CrashMeta(k) /\ UNCHANGED session
  \/ Return /\ UNCHANGED session

CliSpec == CliInit /\ [][CliNext]_cliVars /\ WF_cliVars(CliNext)

-----------------------------------------------------------------------------
\* The handlers of the list that call a function.
Listing(func) == {k \in DOMAIN list : actions[list[k].action].func = func}

\* A setting works wherever it stands on the command line: commands are loaded
\* with the SDK's final settings, every file is parsed with a matcher that knows
\* these commands, and what is written has the final type, architecture and
\* platform, although --output does not run after --arch, --platform or
\* --output-type by the table.
SettingsInTime ==
  /\ session.cmdIndex \in {Unset, <<SdkSettings(session)>>}
  /\ session.parsedWith \subseteq {<<SdkSettings(session)>>}
  /\ \A k \in DOMAIN session.written :
       session.written[k] = [Written(session) EXCEPT !.ast = session.written[k].ast]

\* odbc only crashes for a cause that can be named: no input file is given; an option
\* that reads an argument got none, which is --output without a file, -o, which
\* never gets one, or -W without a name; the settings it was given are those of an
\* SDK whose loading ends it; or the files that were parsed, with the commands that
\* were loaded, make a program that ends the compiler.
GivenFuncs == {actions[a].func : a \in Given \ {0}}
WithoutWord(k) == k = Len(argv) \/ argv[k + 1].kind # "word"
ReadsNothing(k) ==
  \E a \in OptionsOf(argv[k]) \ {0} :
    \/ actions[a].func = "output" /\ (argv[k].kind = "short" \/ WithoutWord(k))
    \/ actions[a].func = "warn" /\ argv[k].kind = "short" /\ WithoutWord(k)
CrashesForCause ==
  status = "crashed" =>
    \/ "parseDBA" \notin GivenFuncs
    \/ \E k \in DOMAIN argv : ReadsNothing(k)
    \/ SdkSettings(session) \in FatalSettings
    \/ Program(session) \in FatalPrograms

\* A command line that succeeds has written, for each --output, all the files of
\* all --dba, those of one option in their order.
FilesOf(k) == ToSet(Words(list[k]))
OutputIsComplete ==
  status = "ok" =>
    /\ Len(session.written) = Cardinality(Listing("output"))
    /\ \A j \in DOMAIN session.written :
         /\ ToSet(session.written[j].ast) = UNION {FilesOf(k) : k \in Listing("parseDBA")}
         /\ \A k \in Listing("parseDBA") :
              SelectSeq(session.written[j].ast, LAMBDA file : file \in FilesOf(k)) = Words(list[k])
=============================================================================
