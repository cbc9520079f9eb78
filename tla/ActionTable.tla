----------------------------- MODULE ActionTable -----------------------------
(***************************************************************************)
(* How argdefgen turns the actions of a definition file into the table the *)
(* generated parser uses: adg_action_table_from_nodes of                   *)
(* src/odb-cli/argdefgen/src/action.c, one action per pass.                *)
(***************************************************************************)
EXTENDS ActionGraph, SequencesExt

CONSTANT
  Definitions   \* the action tables considered, each a sequence of actions

\* An action as it is parsed: its name, the name of its section, its short
\* option (0 for none), and three lists of names of actions or sections.
Dependencies == {"runafter", "requires", "metadeps"}
IsList(s) == Len(s) \in Nat /\ DOMAIN s = 1 .. Len(s)

ASSUME DefinitionsAreTables ==
  \A d \in Definitions :
    /\ IsList(d)
    /\ \A a \in DOMAIN d :
         /\ DOMAIN d[a] = {"name", "section", "short", "implicit"} \cup Dependencies
         /\ d[a].implicit \in BOOLEAN
         /\ \A dep \in Dependencies : IsList(d[a][dep])

VARIABLES
  defs,       \* the actions of the file (never changes)
  pass,       \* the pass that is next; or "accepted", "rejected", "overflow"
  deps,       \* runafter, requires and metadeps of every action, resolved
  priority,   \* of every action
  kind, at, child   \* the dependency remove_indirect_dependencies is at

cursor == <<kind, at, child>>
tableVars == <<defs, pass, deps, priority, cursor>>

Named(name) == {b \in DOMAIN defs : defs[b].name = name \/ defs[b].section = name}

TableInit ==
  /\ defs \in Definitions
  /\ pass = "names"
  /\ deps = [d \in Dependencies |-> [a \in DOMAIN defs |-> <<>>]]
  /\ priority = [a \in DOMAIN defs |-> 0]
  /\ kind = "runafter" /\ at = 1 /\ child = 1

-----------------------------------------------------------------------------
\* verify_actions_and_sections_are_unique: the second loop compares a section
\* with the actions from its own on, not with those before it.
UnambiguousEvenUnset ==    \* mutant: actions without a short option clash
  \A a, b \in DOMAIN defs :
    a < b => defs[a].name # defs[b].name /\ defs[a].short # defs[b].short
Unambiguous ==
  /\ \A a, b \in DOMAIN defs :
       a < b => /\ defs[a].name # defs[b].name
                /\ defs[a].short = defs[b].short => defs[a].short = 0
  /\ \A a, b \in DOMAIN defs : a <= b => defs[a].section # defs[b].name

VerifyNames ==
  /\ pass = "names"
  /\ pass' = IF Unambiguous THEN "resolve" ELSE "rejected"
  /\ UNCHANGED <<defs, deps, priority, cursor>>

\* init_action_table_dependencies: every name of a list stands for the actions
\* that have it or are in the section that has it, in the order of the table.
Smaller(s, x) == {y \in s : y < x}
Ascending(s) ==
  [k \in 1 .. Cardinality(s) |-> CHOOSE x \in s : Cardinality(Smaller(s, x)) = k - 1]
Resolved(names) ==
  LET upTo[k \in 0 .. Len(names)] ==
        IF k = 0 THEN <<>> ELSE upTo[k - 1] \o Ascending(Named(names[k]))
  IN upTo[Len(names)]
Resolution == [d \in Dependencies |-> [a \in DOMAIN defs |-> Resolved(defs[a][d])]]

Resolve ==
  /\ pass = "resolve"
  /\ IF \A a \in DOMAIN defs : \A d \in Dependencies : \A k \in DOMAIN defs[a][d] :
          Named(defs[a][d][k]) # {}
     THEN pass' = "unique" /\ deps' = Resolution
     ELSE pass' = "rejected" /\ UNCHANGED deps
  /\ UNCHANGED <<defs, priority, cursor>>

\* verify_action_table_dependencies_are_unique
VerifyUnique ==
  /\ pass = "unique"
  /\ pass' = IF \A d \in Dependencies : \A a \in DOMAIN defs :
                  Cardinality(Children(deps[d], a)) = Len(deps[d][a])
             THEN "cycles" ELSE "rejected"
  /\ UNCHANGED <<defs, deps, priority, cursor>>

\* Mutant: the required actions are not looked at.
VerifyRunafterAcyclic ==
  /\ pass = "cycles"
  /\ pass' = IF RootedCycle(deps["runafter"]) THEN "rejected" ELSE "priorities"
  /\ UNCHANGED <<defs, deps, priority, cursor>>
\* verify_action_table_dependencies_are_acyclic; metadeps are not looked at.
VerifyAcyclic ==
  /\ pass = "cycles"
  /\ pass' = IF RootedCycle(deps["runafter"]) \/ RootedCycle(deps["requires"])
             THEN "rejected" ELSE "priorities"
  /\ UNCHANGED <<defs, deps, priority, cursor>>

CalculatePriorities ==
  /\ pass = "priorities"
  /\ priority' = Priorities(deps["runafter"])
  /\ pass' = "implicit"
  /\ UNCHANGED <<defs, deps, cursor>>

\* verify_requires_dont_depend_on_implicit_actions, from the roots down
RequiredByRoots(g) == UNION {Children(g, r) : r \in Roots(g)}    \* mutant
Required(g) == UNION {Reached(g)[r] : r \in Roots(g)}
VerifyRequires ==
  /\ pass = "implicit"
  /\ pass' = IF \E a \in Required(deps["requires"]) : defs[a].implicit
             THEN "rejected" ELSE "reduce"
  /\ UNCHANGED <<defs, deps, priority, cursor>>

\* remove_indirect_dependencies: one dependency after the other is dropped if
\* another one of the same action leads there, by what is left of the lists.
Lists == deps[kind]
Target == Lists[at][child]
Others == {k \in DOMAIN Lists[at] : Lists[at][k] # Target}
Answer == FirstAnswer([k \in Others |-> Search(Lists, Lists[at][k], Target)])
\* The next to look at is the one that moved up; the mutant skips it.
SkippedAfterRemoval == child + 1
NextAfterRemoval == child

Reduce ==
  /\ pass = "reduce" /\ at <= Len(defs) /\ child <= Len(Lists[at])
  /\ \/ /\ Answer = "yes"
        /\ deps' = [deps EXCEPT ![kind][at] = RemoveAt(@, child)]
        /\ child' = NextAfterRemoval
        /\ UNCHANGED pass
     \/ /\ Answer = "no"
        /\ child' = child + 1
        /\ UNCHANGED <<pass, deps>>
     \/ /\ Answer = "overflow"
        /\ pass' = "overflow"
        /\ UNCHANGED <<deps, child>>
  /\ UNCHANGED <<defs, priority, kind, at>>

ReduceNext ==
  /\ pass = "reduce" /\ at <= Len(defs) /\ child > Len(Lists[at])
  /\ at' = at + 1 /\ child' = 1
  /\ UNCHANGED <<defs, pass, deps, priority, kind>>

ReduceRequires ==
  /\ pass = "reduce" /\ at > Len(defs) /\ kind = "runafter"
  /\ kind' = "requires" /\ at' = 1 /\ child' = 1
  /\ UNCHANGED <<defs, pass, deps, priority>>

Accept ==
  /\ pass = "reduce" /\ at > Len(defs) /\ kind = "requires"
  /\ pass' = "accepted"
  /\ UNCHANGED <<defs, deps, priority, cursor>>

TableNext ==
  \/ VerifyNames \/ Resolve \/ VerifyUnique \/ VerifyAcyclic \/ CalculatePriorities
  \/ VerifyRequires \/ Reduce \/ ReduceNext \/ ReduceRequires \/ Accept

TableSpec == TableInit /\ [][TableNext]_tableVars

-----------------------------------------------------------------------------
Declared(d) == Resolution[d]
Sound(d) == pass = "accepted" /\ Acyclic(Declared(d))

\* The parser runs actions by their priority alone: whatever an action runs
\* after, in the file and not only in the reduced lists, has a smaller one.
PrioritiesOrderRunafter ==
  Sound("runafter") =>
    \A a \in DOMAIN defs : \A b \in Children(Declared("runafter"), a) : priority[b] < priority[a]

\* Dropping indirect dependencies one by one in place, while later searches go
\* through the same lists, leaves those that are not implied by others and no
\* more, in the order of the file.
InOrder(s, t) ==
  \A i, j \in DOMAIN s : i < j => \E k, l \in DOMAIN t : k < l /\ s[i] = t[k] /\ s[j] = t[l]
ReducedToTheMinimum ==
  \A d \in {"runafter", "requires"} : Sound(d) =>
    LET direct == Direct(Declared(d)) IN
    \A a \in DOMAIN defs :
      /\ Children(deps[d], a) = direct[a]
      /\ InOrder(deps[d][a], Declared(d)[a])

\* An option that must be on the command line can be given there.
RequiredCanBeGiven ==
  Sound("requires") =>
    \A a \in DOMAIN defs : \A b \in Children(Declared("requires"), a) : ~defs[b].implicit

\* A definition is turned down for a reason that is in it, never for the order
\* in which it lists its actions and dependencies.
Defect ==
  \/ \E a, b \in DOMAIN defs :
       \/ a # b /\ defs[a].name = defs[b].name
       \/ a # b /\ defs[a].short # 0 /\ defs[a].short = defs[b].short
       \/ defs[a].section = defs[b].name
  \/ \E a \in DOMAIN defs : \E d \in Dependencies : \E j, k \in DOMAIN defs[a][d] :
       \/ Named(defs[a][d][k]) = {}
       \/ j # k /\ Named(defs[a][d][j]) \cap Named(defs[a][d][k]) # {}
  \/ \E d \in {"runafter", "requires"} : ~Acyclic(Declared(d))
  \/ \E a \in DOMAIN defs : \E b \in Children(Declared("requires"), a) : defs[b].implicit
RejectedForCause == pass = "rejected" => Defect

\* verify_action_table_dependencies_are_acyclic starts at the roots, so it misses
\* cycles; but only those that none of the actions outside of them, or outside
\* of what they lead to, can get into.  In the others assign_priorities, which
\* starts at the roots too, would not end.
CyclesHaveNoEntry ==
  pass \in {"accepted", "overflow"} =>
    \A d \in {"runafter", "requires"} :
      LET reached == Reached(Declared(d))
          circular == {a \in DOMAIN defs : a \in reached[a]}
      IN \A a \in DOMAIN defs :
           reached[a] \cap circular # {} => \E c \in circular : a \in reached[c]
=============================================================================
