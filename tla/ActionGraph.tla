----------------------------- MODULE ActionGraph -----------------------------
(***************************************************************************)
(* The graph of the dependencies between the actions of an argument        *)
(* definition, as argdefgen and the parser it generates walk it            *)
(* (src/odb-cli/argdefgen).  A graph g gives every action, a number from 1 *)
(* on, the list of the actions it depends on.                              *)
(***************************************************************************)
EXTENDS Naturals, Sequences, FiniteSets

Children(g, a) == {g[a][k] : k \in DOMAIN g[a]}

\* What a leads to, in one step or more.
Reached(g) ==
  [a \in DOMAIN g |->
     LET reach[n \in Nat] ==
           IF n = 0 THEN Children(g, a)
           ELSE LET shorter == reach[n - 1] IN shorter \cup UNION {Children(g, b) : b \in shorter}
     IN reach[Cardinality(DOMAIN g)]]

Acyclic(g) == LET reached == Reached(g) IN \A a \in DOMAIN g : a \notin reached[a]

\* find_action_table_root_nodes: no other action depends on a root.
Roots(g) == {a \in DOMAIN g : \A b \in DOMAIN g \ {a} : a \notin Children(g, b)}
\* What the passes that start at the roots get to see.
Visited(g) == LET reached == Reached(g) IN Roots(g) \cup UNION {reached[r] : r \in Roots(g)}

\* find_cycle, called for every root.
RootedCycle(g) == LET reached == Reached(g) IN \E a \in Visited(g) : a \in reached[a]

MaxOf(s) == CHOOSE x \in s : \A y \in s : y <= x

\* Mutant: the priority of the last child counts.
PrioritiesOfLast(g) ==
  LET depth[n \in Nat] ==
        [a \in DOMAIN g |->
           IF n = 0 \/ g[a] = <<>> THEN 0 ELSE 1 + depth[n - 1][g[a][Len(g[a])]]]
  IN depth[Cardinality(DOMAIN g)]

\* assign_priorities: one more than the greatest of the children.  It is called
\* for the roots; an action it does not get to keeps the priority 0.
Above(g, smaller, a) ==
  IF g[a] = <<>> THEN 0 ELSE 1 + MaxOf({smaller[b] : b \in Children(g, a)})
Priorities(g) ==
  LET depth[n \in Nat] ==
        LET smaller == IF n = 0 THEN [a \in DOMAIN g |-> 0] ELSE depth[n - 1]
        IN [a \in DOMAIN g |-> Above(g, smaller, a)]
      longest == depth[Cardinality(DOMAIN g)]
      visited == Visited(g)
  IN [a \in DOMAIN g |-> IF a \in visited THEN longest[a] ELSE 0]

\* is_indirectly_connected: a depth first search without marks.  It takes the
\* children in order and stops at the first that leads to the target; in a
\* cycle it recurses until the stack is full.
FirstAnswer(answers) ==
  LET found == {k \in DOMAIN answers : answers[k] # "no"} IN
  IF found = {} THEN "no" ELSE answers[CHOOSE k \in found : \A j \in found : k <= j]
Search(g, from, target) ==
  LET search[n \in Nat] ==
        [a \in DOMAIN g |->
           IF a = target THEN "yes"
           ELSE IF n = 0 THEN "overflow"
           ELSE FirstAnswer([k \in DOMAIN g[a] |-> search[n - 1][g[a][k]]])]
  IN search[Cardinality(DOMAIN g)][from]

\* The dependencies that are not implied by others of the same action.
Direct(g) ==
  LET reached == Reached(g) IN
  [a \in DOMAIN g |-> {b \in Children(g, a) : \A c \in Children(g, a) \ {b} : b \notin reached[c]}]
=============================================================================
