---------------------------- MODULE MCActionTable ----------------------------
(***************************************************************************)
(* ActionTable for every runafter graph of four actions and every requires *)
(* graph of three, listed in either order, and for definitions with        *)
(* ambiguous, unknown and repeated names and names of sections.            *)
(***************************************************************************)
EXTENDS ActionTable

N == 4
Name == <<"a", "b", "c", "d">>

Action(name, section, short, implicit, runafter, requires, metadeps) ==
  [name |-> name, section |-> section, short |-> short, implicit |-> implicit,
   runafter |-> runafter, requires |-> requires, metadeps |-> metadeps]

\* The names of the actions in s, in ascending or descending order.
Listed(s, descending) ==
  LET up == Ascending(s)
  IN [k \in 1 .. Len(up) |-> Name[up[IF descending THEN Len(up) + 1 - k ELSE k]]]

RunafterGraphs ==
  {[a \in 1 .. N |-> Action(Name[a], "s", 0, FALSE, Listed(g[a], descending), <<>>, <<>>)] :
     g \in {h \in [1 .. N -> SUBSET (1 .. N)] : \A a \in 1 .. N : a \notin h[a]},
     descending \in {TRUE, FALSE}}

RequiresGraphs ==
  {[a \in 1 .. 3 |-> Action(Name[a], "s", 0, a \in implicit, <<>>, Listed(g[a], TRUE), <<>>)] :
     g \in [1 .. 3 -> SUBSET (1 .. 3)], implicit \in SUBSET (1 .. 3)}

\* Two sections of two actions each; the first action of the second section and
\* the lists of the last action vary.
SomeLists == {<<>>, <<"a">>, <<"s">>, <<"t">>, <<"s", "b">>, <<"a", "b">>, <<"none">>}
NamedTables ==
  {<<Action("a", "s", 1, FALSE, <<>>, <<>>, <<>>), Action(name, "s", short, FALSE, <<>>, <<>>, <<>>),
     Action("c", "t", 2, FALSE, first, <<>>, <<>>),
     Action("d", "t", 0, FALSE, <<>>, second, meta)>> :
     name \in {"b", "a", "s", "t"}, short \in {0, 1}, first \in SomeLists, second \in SomeLists,
     meta \in {<<>>, <<"b", "a">>, <<"none">>}}

MCDefinitions == RunafterGraphs \cup RequiresGraphs \cup NamedTables
=============================================================================
