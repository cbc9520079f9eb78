---------------------------- MODULE MCArgDispatch ----------------------------
(***************************************************************************)
(* ArgDispatch for tables of up to nine actions and every command line of  *)
(* up to three arguments.  The tables are cut from odbc's own definition   *)
(* (src/odb-cli/src/Actions.argdef) and the example of argdefgen's README, *)
(* or make the parser meet a shape of dependencies that neither has.       *)
(***************************************************************************)
EXTENDS ArgDispatch

\* An action of the definition; section names are expanded by hand.
Explicit(short, lo, hi, runafter) ==
  [func |-> "", implicit |-> FALSE, help |-> FALSE, short |-> short, lo |-> lo, hi |-> hi,
   runafter |-> runafter, requires |-> <<>>, metadeps |-> <<>>]
Implicit(runafter) == [Explicit(0, 0, 0, runafter) EXCEPT !.implicit = TRUE]
Help(action) == [action EXCEPT !.help = TRUE]
Meta(action, metadeps) == [action EXCEPT !.metadeps = metadeps]
Requires(action, requires) == [action EXCEPT !.requires = requires]

\* What argdefgen makes of it.
Generated(t) ==
  LET graph == [a \in DOMAIN t |-> t[a].runafter]
      priorities == Priorities(graph)
      direct == Direct(graph)
      reduced == [a \in DOMAIN t |-> SelectSeq(graph[a], LAMBDA b : b \in direct[a])]
  IN [a \in DOMAIN t |->
        [func |-> t[a].func, implicit |-> t[a].implicit, meta |-> t[a].metadeps # <<>>, help |-> t[a].help,
         short |-> t[a].short, lo |-> t[a].lo, hi |-> t[a].hi, priority |-> priorities[a],
         runafter |-> reduced[a], requires |-> t[a].requires, metadeps |-> t[a].metadeps]]

\* no-banner, print-banner, help, version, commit-hash, warn and warn-test.
GlobalTable ==
  <<Explicit(1, 0, 0, <<>>), Implicit(<<1>>), Help(Explicit(2, 0, 1, <<2>>)),
    Explicit(0, 0, 0, <<3>>), Requires(Explicit(0, 0, 0, <<3>>), <<4>>),
    Meta(Explicit(3, 1, 1, <<>>), <<7>>), Explicit(0, 1, 1, <<1, 2, 3, 4, 5>>)>>

\* help, sdk-root, init-sdk, init-command-matcher, dba, dbpro, input, dump-ast-dot
\* and output.
ParserTable ==
  <<Help(Explicit(1, 0, 1, <<>>)), Explicit(0, 1, 1, <<1>>), Implicit(<<2>>), Implicit(<<3>>),
    Explicit(0, 1, Unlimited, <<4>>), Meta(Explicit(0, 1, 1, <<4>>), <<5>>),
    Meta(Explicit(2, 1, Unlimited, <<4>>), <<5, 6>>), Explicit(0, 0, 1, <<5, 6, 7>>),
    Explicit(3, 0, 1, <<4, 5, 6, 7, 8>>)>>

\* license, echo-args, echo-file and echo.
EchoTable ==
  <<Implicit(<<>>), Explicit(0, 1, Unlimited, <<1, 3>>), Explicit(0, 1, 1, <<1>>),
    Meta(Explicit(1, 1, Unlimited, <<1>>), <<2, 3>>)>>

\* Two requirements, one of which has its own.
RequiresTable ==
  <<Explicit(0, 0, 0, <<>>), Requires(Explicit(1, 0, 0, <<>>), <<1>>), Explicit(0, 0, 0, <<>>),
    Requires(Explicit(2, 0, 0, <<1>>), <<2, 3>>)>>

\* A meta action starts one that starts one that needs an implicit action.
ChainTable ==
  <<Implicit(<<>>), Explicit(0, 0, 0, <<1>>), Meta(Implicit(<<>>), <<2>>),
    Meta(Explicit(1, 0, 0, <<>>), <<3>>)>>

\* 2 runs after 1, which the meta action 5 starts later than that.
LateTable ==
  <<Explicit(0, 0, 0, <<>>), Explicit(1, 0, 0, <<1>>), Explicit(0, 0, 0, <<>>),
    Explicit(0, 0, 0, <<3>>), Meta(Explicit(2, 0, 0, <<4>>), <<1>>)>>

\* Two meta actions that start each other; one that starts what runs after it.
MutualTable ==
  <<Explicit(0, 0, 0, <<>>), Meta(Explicit(1, 0, 0, <<>>), <<3, 1>>),
    Meta(Explicit(2, 0, 0, <<>>), <<2, 1>>), Explicit(0, 0, 0, <<6>>), Implicit(<<>>),
    Meta(Explicit(3, 0, 0, <<5>>), <<4>>)>>

\* 2 runs after 1, which the meta action 4 starts, by way of the meta action 3,
\* later than that; but what runs after 3 comes after 4.
LaterTable ==
  <<Explicit(0, 0, 0, <<>>), Explicit(1, 0, 0, <<1>>), Meta(Explicit(0, 0, 0, <<>>), <<1>>),
    Meta(Explicit(2, 0, 0, <<2>>), <<3>>)>>

MCTables ==
  {Generated(t) : t \in {GlobalTable, ParserTable, EchoTable, RequiresTable, ChainTable,
                         LateTable, LaterTable, MutualTable}}

\* The command lines: one argument, which is any option of the table, an unknown
\* one, "--", an option with two arguments assigned, one or two letters, a word or a
\* dash; two of them, but for the two letters; three options or words.
Spelled(kind, names, args) == [kind |-> kind, names |-> names, args |-> args]
Options(t) == {a \in DOMAIN t : ~t[a].implicit}
Letters(t) == {t[a].short : a \in DOMAIN t} \ {0}
Word == Spelled("word", <<>>, 0)
Full(names) == {Spelled("full", <<a>>, 0) : a \in names}
Short(first, second) == {Spelled("short", <<l, m>>, 0) : l \in first, m \in second}
Arguments(t) ==
  Full(Options(t) \cup {0, Len(t) + 1})
  \cup {Spelled("assign", <<a>>, 2) : a \in {b \in Options(t) : t[b].hi # 0}}
  \cup {Spelled("short", <<l>>, 0) : l \in Letters(t)}
  \cup Short(Letters(t), {99})
  \cup {Word, Spelled("dash", <<>>, 0)}
MCLines(t) ==
  {<<>>}
  \cup [1 .. 1 -> Arguments(t) \cup Short(Letters(t), Letters(t))]
  \cup [1 .. 2 -> Arguments(t)]
  \cup [1 .. 3 -> Full(Options(t)) \cup {Word}]
=============================================================================
