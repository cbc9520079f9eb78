------------------------------- MODULE MCOdbCli -------------------------------
(***************************************************************************)
(* OdbCli for odbc's own table, src/odb-cli/src/Actions.argdef without the *)
(* options for colours and two of the dumps, and command lines of up to    *)
(* three of its options with their words; and the tables and lines of      *)
(* MCArgDispatch, with handlers that do anything.                          *)
(***************************************************************************)
EXTENDS OdbCli, MCArgDispatch

For(func, action) == [action EXCEPT !.func = func]
Global == <<1, 2, 3, 4, 5>>
OdbcTable ==
  <<For("prints", Explicit(1, 0, 0, <<>>)),                             \* 1 no-banner
    For("prints", Implicit(<<1>>)),                                     \* 2 print-banner
    For("printHelp", Help(Explicit(2, 0, 1, <<2>>))),                   \* 3 help
    For("prints", Explicit(0, 0, 0, <<3>>)),                            \* 4 version
    For("prints", Requires(Explicit(0, 0, 0, <<3>>), <<4>>)),           \* 5 commit-hash
    For("warn", Meta(Explicit(3, 1, 1, <<>>), <<7>>)),                  \* 6 warn
    For("warnTest", Explicit(0, 1, 1, Global)),                         \* 7 warn-test
    For("setSDKRootDir", Explicit(0, 1, 1, Global)),                    \* 8 sdk-root
    For("setSDKType", Explicit(0, 1, 1, <<8>>)),                        \* 9 sdk-type
    For("setAdditionalPluginsDir", Explicit(0, 1, Unlimited, Global)),  \* 10 plugins
    For("initSDK", Implicit(<<8, 9, 10>>)),                             \* 11 init-sdk
    For("prints", Explicit(0, 0, 0, <<11>>)),                           \* 12 print-sdk-root
    For("loadCommands", Implicit(<<11>>)),                              \* 13 load-commands
    For("prints", Explicit(0, 0, 1, <<13>>)),                           \* 14 dump-commands
    For("initCommandMatcher", Implicit(<<13>>)),                        \* 15 init-command-matcher
    For("parseDBA", Explicit(0, 1, Unlimited, <<15>>)),                 \* 16 dba
    For("parseDBPro", Meta(Explicit(0, 1, 1, <<15>>), <<16>>)),         \* 17 dbpro
    For("autoDetectInput", Meta(Explicit(4, 1, Unlimited, <<15>>), <<16, 17>>)),  \* 18 input
    For("dumpASTDOT", Explicit(0, 0, 1, <<16, 17, 18>>)),               \* 19 dump-ast-dot
    For("dumpASTJSON", Explicit(0, 0, 1, <<16, 17, 18>>)),              \* 20 dump-ast-json
    For("setArch", Explicit(0, 1, 1, Global)),                          \* 21 arch
    For("setPlatform", Explicit(0, 1, 1, Global)),                      \* 22 platform
    For("setOutputType", Explicit(0, 1, 1, Global)),                    \* 23 output-type
    For("output", Explicit(5, 0, 1, <<15, 16, 17, 18, 19, 20>>))>>      \* 24 output
Odbc == Generated(OdbcTable)

CliTables == MCTables \cup {Odbc}

Option(a, words) == <<Spelled("full", <<a>>, 0)>> \o [k \in 1 .. words |-> Word]
Letter(l, words) == <<Spelled("short", <<l>>, 0)>> \o [k \in 1 .. words |-> Word]
Settings ==
  {Option(1, 0), Option(8, 1), Option(9, 1), Option(10, 2), Option(21, 1), Option(22, 1), Option(23, 1)}
Works == {Option(16, 1), Option(16, 2), Option(24, 1), Letter(5, 1), Letter(5, 0)}
Others ==
  {Option(12, 0), Option(14, 0), Option(17, 1), Letter(4, 1), Letter(4, 0), Option(6, 1),
   Letter(3, 0), <<Spelled("short", <<5, 3>>, 0), Word>>, Option(19, 0), Option(20, 1), Option(24, 0), Option(3, 0), Option(5, 0)}
OdbcLines ==
  {<<>>} \cup Settings \cup Works \cup Others
    \cup {o \o p : o, p \in Settings \cup Works \cup Others}
    \cup {o \o p \o q : o, p, q \in Settings \cup Works}

\* Fatal are an SDK with two additional directories of which the first comes first on
\* the command line, one file on its own, and a first file followed by a second.
CliFatalSettings ==
  {[root |-> <<"default">>, type |-> "ODB", plugins |-> << <<1, 1>>, <<1, 2>> >>]}
CliFatalPrograms ==
  [ast : {<< <<1, 1>> >>, << <<1, 1>>, <<2, 1>> >>},
   commands : {<<[root |-> <<"default">>, type |-> "ODB", plugins |-> <<>>]>>}]
CliLines(t) == IF t = Odbc THEN OdbcLines ELSE MCLines(t)
=============================================================================
