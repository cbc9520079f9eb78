--------------------------- MODULE LabelResolution ---------------------------
(***************************************************************************)
(* How ir::ASTConverter binds jumps to labels and exits to loops while it  *)
(* turns the AST into the IR (src/odb-compiler/src/ir/semantic/            *)
(* ASTConverter.cpp).  A program is a main function and user functions,    *)
(* each a sequence of statements in the preorder in which convertBlock and *)
(* convertStatement visit them; a loop is bracketed by the items "loop"    *)
(* and "endloop".  main is converted first, the others in the unspecified  *)
(* order in which the std::unordered_map functionMap_ is iterated.         *)
(***************************************************************************)
EXTENDS Naturals, Sequences, FiniteSets

CONSTANTS
  Names,     \* label names
  Programs,  \* the programs considered: [function name -> Seq of items]
  Main,      \* the main function
  NULL       \* nullptr

Ops == {"label", "goto", "gosub", "loop", "endloop", "exit", "other"}
Items == [op : Ops, name : Names \cup {NULL}]

ASSUME NullIsNoName == NULL \notin Names
ASSUME ProgramsAreBodies ==
  \A p \in Programs :
    /\ Main \in DOMAIN p
    /\ \A f \in DOMAIN p :
         /\ p[f] \in Seq(Items)
         /\ \A k \in DOMAIN p[f] :
              p[f][k].op \in {"label", "goto", "gosub"} => p[f][k].name \in Names
ASSUME NullIsNoStatement ==
  \A p \in Programs : \A f \in DOMAIN p : \A k \in DOMAIN p[f] : <<f, k>> # NULL

VARIABLES
  prog,            \* the AST being converted (never changes)
  fn,              \* currentFunction_
  pos,             \* next statement of fn
  todo,            \* functions of functionMap_ the loop has not reached
  order,           \* the functions in the order they were reached (history)
  loops,           \* the currentLoop arguments on the recursion stack
  labels,          \* labels_: name -> label statement
  pendingGotos,    \* pendingGotoStatements_
  pendingGosubs,   \* pendingGosubStatements_
  bound,           \* Goto::label_ and Gosub::label_ of the jumps
  loopOf,          \* Exit::loopToBreak_ of the exits
  errorOccurred,   \* errorOccurred_
  result           \* what generateProgram has returned

tables == <<labels, pendingGotos, pendingGosubs, bound>>
vars == <<prog, fn, pos, todo, order, loops, tables, loopOf, errorOccurred, result>>

\* A statement is identified by its function and its place there.
Stmts == UNION {{f} \X DOMAIN prog[f] : f \in DOMAIN prog}
Op(s) == prog[s[1]][s[2]].op
NameOf(s) == prog[s[1]][s[2]].name
Jumps == {s \in Stmts : Op(s) \in {"goto", "gosub"}}
Labels == {s \in Stmts : Op(s) = "label"}

Here == <<fn, pos>>
AtEnd == pos > Len(prog[fn])
At(op) == result = "converting" /\ ~AtEnd /\ Op(Here) = op

\* Which function is converted first.
FirstFunction == {Main}

Init ==
  /\ prog \in Programs
  /\ fn \in FirstFunction
  /\ pos = 1
  /\ todo = DOMAIN prog \ {fn}
  /\ order = <<fn>>
  /\ loops = <<>>
  /\ labels = [n \in Names |-> NULL]
  /\ pendingGotos = {}
  /\ pendingGosubs = {}
  /\ bound = [s \in Stmts |-> NULL]
  /\ loopOf = [s \in Stmts |-> NULL]
  /\ errorOccurred = FALSE
  /\ result = "converting"

-----------------------------------------------------------------------------
Advance == pos' = pos + 1 /\ UNCHANGED <<prog, fn, todo, order, result>>

Named(pending, n) == {s \in pending : NameOf(s) = n}

\* The pending tables without the jumps to n; the mutant erases nothing.
NothingErased(pending, n) == pending
Erased(pending, n) == pending \ Named(pending, n)

\* emplace() keeps an entry that is already there; the mutant replaces it.
Replaced(n, l) == [labels EXCEPT ![n] = l]
Emplaced(n, l) == [labels EXCEPT ![n] = IF @ = NULL THEN l ELSE @]

\* A label is given to every jump that waits for its name, then entered in
\* the table.
ConvertLabel ==
  LET n == NameOf(Here)
      waiting == Named(pendingGotos, n) \cup Named(pendingGosubs, n)
  IN /\ At("label")
     /\ bound' = [s \in Stmts |-> IF s \in waiting THEN Here ELSE bound[s]]
     /\ pendingGotos' = Erased(pendingGotos, n)
     /\ pendingGosubs' = Erased(pendingGosubs, n)
     /\ labels' = Emplaced(n, Here)
     /\ Advance
     /\ UNCHANGED <<loops, loopOf, errorOccurred>>

ConvertGoto ==
  LET target == labels[NameOf(Here)]
  IN /\ At("goto")
     /\ bound' = [bound EXCEPT ![Here] = target]
     /\ pendingGotos' = IF target = NULL THEN pendingGotos \cup {Here} ELSE pendingGotos
     /\ Advance
     /\ UNCHANGED <<labels, pendingGosubs, loops, loopOf, errorOccurred>>

ConvertSubCall ==
  LET target == labels[NameOf(Here)]
  IN /\ At("gosub")
     /\ bound' = [bound EXCEPT ![Here] = target]
     /\ pendingGosubs' = IF target = NULL THEN pendingGosubs \cup {Here} ELSE pendingGosubs
     /\ Advance
     /\ UNCHANGED <<labels, pendingGotos, loops, loopOf, errorOccurred>>

\* The body of a loop is converted with the new loop as currentLoop ...
EnterLoop ==
  /\ At("loop")
  /\ loops' = Append(loops, Here)
  /\ Advance
  /\ UNCHANGED <<tables, loopOf, errorOccurred>>

\* Mutant: the loop stays the current one after its end.
LeaveLoopKeepingIt ==
  /\ At("endloop")
  /\ Advance
  /\ UNCHANGED <<tables, loops, loopOf, errorOccurred>>

\* ... and the statements after it with the loop around it.
LeaveLoop ==
  /\ At("endloop")
  /\ loops' = SubSeq(loops, 1, Len(loops) - 1)
  /\ Advance
  /\ UNCHANGED <<tables, loopOf, errorOccurred>>

ConvertExit ==
  /\ At("exit")
  /\ \/ /\ loops # <<>>
        /\ loopOf' = [loopOf EXCEPT ![Here] = loops[Len(loops)]]
        /\ UNCHANGED errorOccurred
     \/ /\ loops = <<>>
        /\ errorOccurred' = TRUE
        /\ UNCHANGED loopOf
  /\ Advance
  /\ UNCHANGED <<tables, loops>>

ConvertOther ==
  /\ At("other")
  /\ Advance
  /\ UNCHANGED <<tables, loops, loopOf, errorOccurred>>

\* The range-for over functionMap_: any function that is left comes next.
NextFunction(f) ==
  /\ result = "converting" /\ AtEnd
  /\ f \in todo
  /\ fn' = f
  /\ pos' = 1
  /\ todo' = todo \ {f}
  /\ order' = Append(order, f)
  /\ loops' = <<>>
  /\ UNCHANGED <<prog, tables, loopOf, errorOccurred, result>>

Finish ==
  /\ result = "converting" /\ AtEnd /\ todo = {}
  /\ result' = IF errorOccurred THEN "null" ELSE "program"
  /\ UNCHANGED <<prog, fn, pos, todo, order, loops, tables, loopOf, errorOccurred>>

Next ==
  \/ ConvertLabel
  \/ ConvertGoto
  \/ ConvertSubCall
  \/ EnterLoop
  \/ LeaveLoop
  \/ ConvertExit
  \/ ConvertOther
  \/ \E f \in todo : NextFunction(f)
  \/ Finish

Spec == Init /\ [][Next]_vars

-----------------------------------------------------------------------------
Reached(s) ==
  \E k \in DOMAIN order :
    order[k] = s[1] /\ (k = Len(order) => s[2] < pos)

\* s was reached before t: an earlier function, or earlier in the same one.
Before(s, t) ==
  \/ s[1] = t[1] /\ s[2] < t[2]
  \/ \E j, k \in DOMAIN order : j < k /\ order[j] = s[1] /\ order[k] = t[1]

\* The labels named n that conversion met first: a set of at most one.
FirstLabel(n) ==
  {l \in Labels : /\ Reached(l) /\ NameOf(l) = n
                  /\ \A m \in Labels : Reached(m) /\ NameOf(m) = n => ~Before(m, l)}

\* Forward or backward, a converted jump is bound to the first label of its
\* name the conversion met, and to none as long as none was met: however the
\* pending tables and labels_ share the work, a second label of the same name
\* changes nothing.
BoundToFirstLabel ==
  \A j \in Jumps : Reached(j) =>
    IF bound[j] = NULL THEN FirstLabel(NameOf(j)) = {}
                       ELSE FirstLabel(NameOf(j)) = {bound[j]}

\* The pending tables hold exactly the converted jumps without a label, each
\* in the table of its kind: what is left there at the end is what the code
\* generator will find with a null label.
PendingAreTheUnbound ==
  /\ pendingGotos = {j \in Jumps : Op(j) = "goto" /\ Reached(j) /\ bound[j] = NULL}
  /\ pendingGosubs = {j \in Jumps : Op(j) = "gosub" /\ Reached(j) /\ bound[j] = NULL}

\* A program is returned only if every exit stands in a loop, and then each
\* exit leaves the innermost loop around it, in its own function.
Occurrences(op, f, i, j) == Cardinality({k \in i .. j : prog[f][k].op = op})
Encloses(l, s) ==
  /\ l[1] = s[1] /\ l[2] < s[2] /\ Op(l) = "loop"
  /\ \A k \in l[2] .. s[2] :
       Occurrences("endloop", s[1], l[2], k) < Occurrences("loop", s[1], l[2], k)
ExitsLeaveInnermostLoop ==
  result = "program" =>
    \A s \in Stmts : Op(s) = "exit" =>
      /\ loopOf[s] # NULL
      /\ Encloses(loopOf[s], s)
      /\ \A l \in Stmts : Encloses(l, s) => l[2] <= loopOf[s][2]
=============================================================================
