----------------------------- MODULE CommandIndex -----------------------------
(***************************************************************************)
(* The commands of the plugins: loadCommands of odb-cli, the two command   *)
(* loaders and CommandIndex of odb-compiler/src/commands.  Directories are *)
(* searched for libraries, which are opened one after the other, in an     *)
(* order the file system chooses; every symbol of a library that has a     *)
(* _name and a _typeinfo becomes a command, and at the end the index is    *)
(* searched for conflicts.                                                 *)
(***************************************************************************)
EXTENDS CommandMatcher, DynamicLibrary

CONSTANTS
  Setups,     \* what is on the disk and on the command line
  Libraries,  \* [library name -> library]
  NONE        \* a directory, library, name or typeinfo that does not exist

Text == Seq(Chars \ {Nul})
Directory == (SUBSET DOMAIN Libraries) \cup {NONE}
\* Entries of a table without names or typeinfos are symbols of other kinds; a
\* library that exports nothing has no others.
ASSUME LibrariesAreLibraries ==
  /\ NONE \notin DOMAIN Libraries
  /\ \A l \in DOMAIN Libraries :
       LET lib == Libraries[l]
       IN /\ lib.symbols \in Seq([name : Text \cup {NONE}, typeinfo : Seq(STRING) \cup {NONE}])
          /\ lib.strings \in Seq([name : Text, returns : BOOLEAN, types : Seq(STRING),
                                  tokens : Nat, keyword : BOOLEAN])
          /\ lib.symoffset \in Nat
          /\ "GNU_HASH" \in Found(lib) /\ ~lib.exports =>
               \A k \in DOMAIN lib.symbols : NONE \in {lib.symbols[k].name, lib.symbols[k].typeinfo}
ASSUME SetupsAreSetups ==
  \A s \in Setups :
    /\ s.sdk \in {"ODB", "DarkBASIC"} /\ s.win32 \in BOOLEAN /\ s.root \in BOOLEAN
    /\ s.sdkDirs \in Seq(Directory) /\ s.sdkDirs # <<>>
    /\ s.pluginDirs \in Seq(Directory)

VARIABLES
  setup,      \* the setup of this run (never changes)
  status,     \* where loadCommands stands, or how it ended
  toLoad,     \* pluginsToLoad: for each directory searched, what is left of it
  dirs,       \* the additional directories still to be searched
  library, next,    \* the library being read, and its next symbol
  commands    \* CommandIndex::commands_

indexVars == <<setup, status, toLoad, dirs, library, next, commands>>

\* Type of Command.hpp; other letters are in the string tables of DBPro.
TypeLetters == {"L", "F", "S", "O", "R", "D", "0"}
Final == {"failed", "threw", "undefined", "conflict"}

Init ==
  /\ setup \in Setups
  /\ status = "start"
  /\ toLoad = <<>>
  /\ dirs = setup.pluginDirs
  /\ library = NONE /\ next = 0
  /\ commands = <<>>

-----------------------------------------------------------------------------
(* populateIndex: which files there are to load. *)

Fail(why) == status' = why /\ UNCHANGED <<setup, toLoad, dirs, library, next, commands>>

\* The DBPro loader is compiled for Windows only; neither does without a root.
NoRoot ==
  /\ status = "start"
  /\ (setup.sdk = "DarkBASIC" /\ ~setup.win32) \/ ~setup.root
  /\ Fail("failed")

\* ODB searches "plugins", DBPro "plugins-licensed" and "plugins-user" too.
SdkDirs == IF setup.sdk = "ODB" THEN <<setup.sdkDirs[1]>> ELSE setup.sdkDirs
Files(dir) == IF dir = NONE THEN {} ELSE dir
ScanSdk ==
  /\ status = "start" /\ setup.root
  /\ ~(setup.sdk = "DarkBASIC" /\ ~setup.win32)
  /\ toLoad' = [k \in DOMAIN SdkDirs |-> Files(SdkDirs[k])]
  /\ status' = "scan"
  /\ UNCHANGED <<setup, dirs, library, next, commands>>

SearchedTheSdk(dir) == setup.sdkDirs[1]    \* mutant: DBPro's loader goes through the SDK's too
\* ODBCommandLoader goes through the SDK's directory again here, not "dir".
Searched(dir) == IF setup.sdk = "ODB" THEN setup.sdkDirs[1] ELSE dir
ScanAdditional ==
  /\ status = "scan" /\ dirs # <<>>
  /\ dirs' = Tail(dirs)
  /\ LET dir == Head(dirs)
     IN \/ /\ dir = NONE
           /\ UNCHANGED <<toLoad, status>>
        \/ /\ dir # NONE /\ Searched(dir) # NONE
           /\ toLoad' = Append(toLoad, Searched(dir))
           /\ UNCHANGED status
        \/ \* recursive_directory_iterator throws, and nobody catches.
           /\ dir # NONE /\ Searched(dir) = NONE
           /\ status' = "threw"
           /\ UNCHANGED toLoad
  /\ UNCHANGED <<setup, library, next, commands>>

-----------------------------------------------------------------------------
(* populateIndexFromLibrary: the commands of one library. *)

\* The files of a directory come in any order; one that is no library is skipped.
OpenLibrary ==
  /\ status = "scan" /\ dirs = <<>> /\ toLoad # <<>> /\ library = NONE
  /\ \/ /\ Head(toLoad) = {}
        /\ toLoad' = Tail(toLoad)
        /\ UNCHANGED <<library, next>>
     \/ \E l \in Head(toLoad) :
          /\ toLoad' = [toLoad EXCEPT ![1] = @ \ {l}]
          /\ library' = IF setup.win32 \/ open(Libraries[l]) THEN l ELSE NONE
          /\ next' = 0
  /\ UNCHANGED <<setup, status, dirs, commands>>

\* On Windows a library has the symbols of its string table; getSymbolCount
\* and getSymbolAt are there for Linux only.
SymbolCount ==
  IF ~setup.win32 THEN getSymbolCount(Libraries[library])
  ELSE IF setup.sdk = "ODB" THEN 0 ELSE Len(Libraries[library].strings)

\* parseTypeinfoString reads up to the first ")".  args->emplace({}) inserts in
\* front of a null iterator, which is the end of an empty vector and of no other.
ArgLetters(typeinfo) ==
  {k \in 3 .. Len(typeinfo) : \A j \in 3 .. k : typeinfo[j] \in TypeLetters}
Starts(typeinfo) ==
  /\ Len(typeinfo) >= 3 /\ typeinfo[1] \in TypeLetters /\ typeinfo[2] = "("
WellFormed(typeinfo) ==
  /\ Starts(typeinfo)
  /\ At(typeinfo, 3 + Cardinality(ArgLetters(typeinfo))) = ")"
SecondArg(typeinfo) ==
  /\ Starts(typeinfo) /\ Len(typeinfo) >= 4
  /\ typeinfo[3] \in TypeLetters /\ typeinfo[4] # ")"
Args(typeinfo) == SubSeq(typeinfo, 3, 2 + Cardinality(ArgLetters(typeinfo)))

SymbolCommand(l, symbol) ==
  [name |-> symbol.name, ret |-> symbol.typeinfo[1], args |-> Args(symbol.typeinfo), library |-> l]

\* Mutant: a typeinfo that cannot be parsed is skipped.
AddSymbolLeniently(symbol) ==
  /\ next' = next + 1
  /\ commands' = IF symbol.name = NONE \/ symbol.typeinfo = NONE \/ ~WellFormed(symbol.typeinfo)
                 THEN commands
                 ELSE Append(commands, SymbolCommand(library, symbol))
  /\ UNCHANGED status

AddSymbol(symbol) ==
  \/ /\ symbol.name = NONE \/ symbol.typeinfo = NONE
     /\ next' = next + 1
     /\ UNCHANGED <<status, commands>>
  \/ /\ symbol.name # NONE /\ symbol.typeinfo # NONE /\ SecondArg(symbol.typeinfo)
     /\ status' = "undefined"
     /\ UNCHANGED <<next, commands>>
  \/ /\ symbol.name # NONE /\ symbol.typeinfo # NONE
     /\ ~SecondArg(symbol.typeinfo) /\ ~WellFormed(symbol.typeinfo)
     /\ status' = "failed"
     /\ UNCHANGED <<next, commands>>
  \/ /\ symbol.name # NONE /\ symbol.typeinfo # NONE
     /\ ~SecondArg(symbol.typeinfo) /\ WellFormed(symbol.typeinfo)
     /\ commands' = Append(commands, SymbolCommand(library, symbol))
     /\ next' = next + 1
     /\ UNCHANGED status

ReadSymbol ==
  /\ status = "scan" /\ library # NONE /\ setup.sdk = "ODB" /\ next < SymbolCount
  /\ \/ /\ InTable(Libraries[library], next)
        /\ AddSymbol(getSymbolAt(Libraries[library], next))
     \/ \* behind the table: a name nobody has, or anything
        /\ ~InTable(Libraries[library], next)
        /\ \/ AddSymbol([name |-> NONE, typeinfo |-> NONE])
           \/ status' = "undefined" /\ UNCHANGED <<next, commands>>
  /\ UNCHANGED <<setup, toLoad, dirs, library>>

\* An entry "name[%types%symbol%..." of a DBPro string table: returns says
\* whether the name ended in "[", tokens into how many parts it splits.
StringCommand(l, entry) ==
  [name |-> toLower(entry.name),
   ret |-> IF entry.returns THEN entry.types[1] ELSE "0",
   args |-> SelectSeq(IF entry.returns THEN Tail(entry.types) ELSE entry.types,
                      LAMBDA letter : letter # "0"),
   library |-> l]

ReadString ==
  /\ status = "scan" /\ library # NONE /\ setup.sdk = "DarkBASIC" /\ next < SymbolCount
  /\ LET entry == Libraries[library].strings[next + 1]
     IN \/ /\ entry.tokens < 2 \/ (entry.tokens > 2 /\ entry.keyword)
           /\ next' = next + 1
           /\ UNCHANGED <<status, commands>>
        \/ \* tokens[2] of two
           /\ entry.tokens = 2
           /\ status' = "undefined"
           /\ UNCHANGED <<next, commands>>
        \/ /\ entry.tokens > 2 /\ ~entry.keyword
           /\ commands' = Append(commands, StringCommand(library, entry))
           /\ next' = next + 1
           /\ UNCHANGED status
  /\ UNCHANGED <<setup, toLoad, dirs, library>>

LibraryDone ==
  /\ status = "scan" /\ library # NONE /\ next = SymbolCount
  /\ library' = NONE
  /\ UNCHANGED <<setup, status, toLoad, dirs, next, commands>>

-----------------------------------------------------------------------------
(* findConflicts *)

SameName(c, d) == toLower(c.name) = toLower(d.name)
\* Mutant: arguments are compared up to the shorter list only.
compareCommonArgs(c, d) ==
  /\ \A k \in DOMAIN c.args \cap DOMAIN d.args : c.args[k] = d.args[k]
  /\ c.ret = d.ret
compare(c, d) == c.args = d.args /\ c.ret = d.ret

\* A later command is compared with the first of its name: the list of the
\* name's overloads is made for the first and never gets another.
FirstOf(c) == CHOOSE k \in DOMAIN commands :
                /\ SameName(commands[k], c)
                /\ \A j \in 1 .. k - 1 : ~SameName(commands[j], c)
Conflict ==
  \E k \in DOMAIN commands :
    FirstOf(commands[k]) # k /\ compare(commands[k], commands[FirstOf(commands[k])])

findConflicts ==
  /\ status = "scan" /\ dirs = <<>> /\ toLoad = <<>> /\ library = NONE
  /\ status' = IF Conflict THEN "conflict" ELSE "loaded"
  /\ UNCHANGED <<setup, toLoad, dirs, library, next, commands>>

Load ==
  \/ NoRoot \/ ScanSdk \/ ScanAdditional
  \/ OpenLibrary \/ ReadSymbol \/ ReadString \/ LibraryDone
  \/ findConflicts

-----------------------------------------------------------------------------
(* What loading promises. *)

\* The entries of a library that are commands, and what they say.
Entries(l) ==
  LET lib == Libraries[l]
      usable(symbol) == symbol.name # NONE /\ symbol.typeinfo # NONE
      kept(entry) == entry.tokens > 2 /\ ~entry.keyword
  IN IF setup.sdk = "ODB"
     THEN IF setup.win32 THEN {} ELSE {k \in DOMAIN lib.symbols : usable(lib.symbols[k])}
     ELSE {k \in DOMAIN lib.strings : kept(lib.strings[k])}
CommandOf(l, k) ==
  IF setup.sdk = "ODB" THEN SymbolCommand(l, Libraries[l].symbols[k])
  ELSE StringCommand(l, Libraries[l].strings[k])
Alike(l, c) == {k \in Entries(l) : CommandOf(l, k) = c}
Copies(c) == {k \in DOMAIN commands : commands[k] = c}

\* The directories whose commands are wanted: those of the SDK, and the additional
\* ones; and the libraries in them that can be opened.
Named == SdkDirs \o setup.pluginDirs
Times(l) == Cardinality({k \in DOMAIN Named : l \in Files(Named[k])})
Openable(l) == setup.win32 \/ open(Libraries[l])
Wanted == {l \in DOMAIN Libraries : Times(l) > 0 /\ Openable(l)}

\* An index that was loaded holds every command of every library as often as the
\* library's entries and the directories name it, in whatever order the files
\* came; and nothing else.  The option --plugins is there to "Add additional
\* directories to scan for thirdparty plugins" (Actions.argdef:112).
LoadedAsNamed ==
  status \notin Final \cup {"start", "scan"} =>
    /\ \A l \in Wanted : \A k \in Entries(l) :
         LET c == CommandOf(l, k)
         IN Cardinality(Copies(c)) = Cardinality(Alike(l, c)) * Times(l)
    /\ \A j \in DOMAIN commands :
         \E l \in Wanted : \E k \in Entries(l) : commands[j] = CommandOf(l, k)

\* That is so unless ODB's loader finds an additional directory: it does not search
\* it.
NotSearched == setup.sdk = "ODB" /\ \E k \in DOMAIN setup.pluginDirs : setup.pluginDirs[k] # NONE
LoadedExactly == ~NotSearched => LoadedAsNamed

\* Loading is turned down as a conflict only if two commands, from any two
\* files, agree in their names, their arguments and what they return.
ConflictForCause ==
  status = "conflict" =>
    \E j, k \in DOMAIN commands :
      /\ j # k
      /\ toLower(commands[j].name) = toLower(commands[k].name)
      /\ <<commands[j].ret, commands[j].args>> = <<commands[k].ret, commands[k].args>>
=============================================================================
