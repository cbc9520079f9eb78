------------------------- MODULE LabelResolutionProofs -------------------------
(***************************************************************************)
(* Theorems about LabelResolution, for every set of programs: a jump that  *)
(* has been converted is bound to the first label of its name that was met,*)
(* the pending tables hold the others, and a program that is returned has  *)
(* every exit bound to the innermost loop around it.                       *)
(***************************************************************************)
EXTENDS LabelResolution, TLAPS, FiniteSetTheorems

\* Conversion goes through the functions one after the other, each once, and
\* through the statements of one in their order.
Ordered ==
  /\ prog \in Programs
  /\ order \in Seq(DOMAIN prog) /\ order # <<>>
  /\ fn = order[Len(order)]
  /\ \A j, k \in DOMAIN order : order[j] = order[k] => j = k
  /\ \A k \in DOMAIN order : order[k] \notin todo
  /\ DOMAIN prog = todo \cup {order[k] : k \in DOMAIN order}
  /\ pos \in 1 .. Len(prog[fn]) + 1

\* labels_ has the first of the labels of a name that were met ...
LabelsAreFirst ==
  /\ labels \in [Names -> Labels \cup {NULL}]
  /\ \A n \in Names : labels[n] # NULL => Reached(labels[n]) /\ NameOf(labels[n]) = n
  /\ \A m \in Labels : Reached(m) =>
       /\ labels[NameOf(m)] # NULL
       /\ m = labels[NameOf(m)] \/ Before(labels[NameOf(m)], m)

\* ... and the jumps that were met are bound by it, those that came before the
\* label too.
BoundByTable ==
  /\ DOMAIN bound = Stmts
  /\ \A j \in Jumps : Reached(j) => bound[j] = labels[NameOf(j)]
  /\ PendingAreTheUnbound

Bindings == Ordered /\ LabelsAreFirst /\ BoundByTable

-----------------------------------------------------------------------------
\* A statement is a place in a function.
LEMMA StmtIsPlace ==
  ASSUME NEW s
  PROVE  s \in Stmts <=> \E f \in DOMAIN prog : \E k \in DOMAIN prog[f] : s = <<f, k>>
BY DEF Stmts

\* The functions of a program are sequences of statements, none of which is NULL.
LEMMA ProgramType ==
  ASSUME prog \in Programs
  PROVE  /\ \A f \in DOMAIN prog : prog[f] \in Seq(Items)
         /\ \A s \in Stmts : /\ s # NULL /\ prog[s[1]][s[2]] \in Items
                             /\ s[1] \in DOMAIN prog /\ s[2] \in 1 .. Len(prog[s[1]])
                             /\ s = <<s[1], s[2]>>
         /\ \A s \in Labels \cup Jumps : s \in Stmts /\ NameOf(s) \in Names
<1>1. \A f \in DOMAIN prog : prog[f] \in Seq(Items)
  BY ProgramsAreBodies
<1>2. ASSUME NEW s \in Stmts
      PROVE  /\ s # NULL /\ prog[s[1]][s[2]] \in Items
             /\ s[1] \in DOMAIN prog /\ s[2] \in DOMAIN prog[s[1]]
             /\ s[2] \in 1 .. Len(prog[s[1]]) /\ s = <<s[1], s[2]>>
  <2>1. PICK f \in DOMAIN prog : \E k \in DOMAIN prog[f] : s = <<f, k>>
    BY StmtIsPlace
  <2>2. PICK k \in DOMAIN prog[f] : s = <<f, k>>
    BY <2>1
  <2> QED
    BY <1>1, <2>2, NullIsNoStatement
<1>3. ASSUME NEW s \in Labels \cup Jumps
      PROVE  s \in Stmts /\ NameOf(s) \in Names
  BY <1>2, ProgramsAreBodies DEF Labels, Jumps, Op, NameOf
<1> QED
  BY <1>1, <1>2, <1>3

\* Where conversion stands.
LEMMA HereType ==
  ASSUME Ordered
  PROVE  /\ fn \in DOMAIN prog /\ prog[fn] \in Seq(Items)
         /\ Len(order) \in DOMAIN order /\ Len(order) \in Nat
         /\ ~AtEnd => Here \in Stmts
<1>1. order \in Seq(DOMAIN prog) /\ order # <<>> /\ fn = order[Len(order)]
  BY DEF Ordered
<1>2. Len(order) \in DOMAIN order /\ Len(order) \in Nat /\ fn \in DOMAIN prog
  BY <1>1
<1>3. prog[fn] \in Seq(Items)
  BY <1>2, ProgramsAreBodies DEF Ordered
<1>4. ~AtEnd => pos \in DOMAIN prog[fn]
  BY <1>3 DEF AtEnd, Ordered
<1> QED
  BY <1>2, <1>3, <1>4, StmtIsPlace DEF Here

\* Of two statements only one is before the other.
LEMMA BeforeIsAsymmetric ==
  ASSUME Ordered, NEW s \in Stmts, NEW t \in Stmts, Before(s, t)
  PROVE  ~Before(t, s)
<1>1. s[2] \in Nat /\ t[2] \in Nat
  BY ProgramType DEF Ordered
<1>2. DOMAIN order \subseteq Nat
  BY DEF Ordered
<1>3. \A j, k \in DOMAIN order : order[j] = order[k] => j = k
  BY DEF Ordered
<1> QED
  BY <1>1, <1>2, <1>3 DEF Before

-----------------------------------------------------------------------------
\* A step to the next statement reaches the one it was at and no other; what
\* was reached is before it.
LEMMA OneMore ==
  ASSUME Ordered, ~AtEnd, Advance
  PROVE  /\ Ordered'
         /\ Here \in Stmts /\ ~Reached(Here)
         /\ \A s \in Stmts : Reached(s)' <=> Reached(s) \/ s = Here
         /\ \A s \in Stmts : Reached(s) => Before(s, Here)
         /\ \A s, t : Before(s, t)' <=> Before(s, t)
<1> USE DEF Advance
<1>0. /\ fn \in DOMAIN prog /\ prog[fn] \in Seq(Items) /\ Here \in Stmts
      /\ Len(order) \in DOMAIN order /\ Len(order) \in Nat
      /\ pos \in Nat /\ pos <= Len(prog[fn]) /\ fn = order[Len(order)]
  <2>1. /\ fn \in DOMAIN prog /\ prog[fn] \in Seq(Items) /\ Here \in Stmts
        /\ Len(order) \in DOMAIN order /\ Len(order) \in Nat
    BY HereType
  <2> QED
    BY <2>1 DEF AtEnd, Ordered
<1>1. Ordered'
  BY <1>0 DEF Ordered
<1>2. ~Reached(Here)
  <2>1. \A k \in DOMAIN order : order[k] = fn => k = Len(order)
    BY <1>0 DEF Ordered
  <2> QED
    BY <1>0, <2>1 DEF Reached, Here
<1>3. ASSUME NEW s \in Stmts
      PROVE  Reached(s)' <=> Reached(s) \/ s = Here
  <2>1. s = <<s[1], s[2]>> /\ s[2] \in Nat
    BY ProgramType DEF Ordered
  <2>2. s = Here <=> s[1] = order[Len(order)] /\ s[2] = pos
    BY <1>0, <2>1 DEF Here
  <2> QED
    BY <1>0, <2>1, <2>2 DEF Reached
<1>4. ASSUME NEW s \in Stmts, Reached(s)
      PROVE  Before(s, Here)
  <2>1. PICK k \in DOMAIN order : order[k] = s[1] /\ (k = Len(order) => s[2] < pos)
    BY <1>4 DEF Reached
  <2>2. k <= Len(order) /\ k \in Nat
    BY DEF Ordered
  <2> QED
    BY <1>0, <2>1, <2>2 DEF Before, Here
<1>5. \A s, t : Before(s, t)' <=> Before(s, t)
  BY DEF Before
<1> QED
  BY <1>0, <1>1, <1>2, <1>3, <1>4, <1>5

\* A step to the next function reaches nothing: the one before was at its end.
LEMMA NoneMore ==
  ASSUME Ordered, NEW f \in todo, NextFunction(f)
  PROVE  /\ Ordered'
         /\ \A s \in Stmts : Reached(s)' <=> Reached(s)
         /\ \A s, t \in Stmts : Before(s, t) => Before(s, t)'
<1> DEFINE n == Len(order)
<1>0. /\ fn \in DOMAIN prog /\ prog[fn] \in Seq(Items)
      /\ n \in DOMAIN order /\ n \in Nat /\ DOMAIN order = 1 .. n /\ fn = order[n]
      /\ f \in DOMAIN prog /\ prog[f] \in Seq(Items) /\ order \in Seq(DOMAIN prog)
      /\ pos \in Nat
  <2>1. f \in DOMAIN prog /\ order \in Seq(DOMAIN prog) /\ fn = order[n]
    BY DEF Ordered
  <2>2. pos \in Nat
    BY HereType DEF Ordered
  <2> QED
    BY <2>1, <2>2, HereType, ProgramType DEF Ordered
<1>1. /\ prog' = prog /\ fn' = f /\ pos' = 1 /\ todo' = todo \ {f} /\ order' = Append(order, f)
      /\ pos > Len(prog[fn])
  BY DEF NextFunction, AtEnd
<1>2. /\ order' \in Seq(DOMAIN prog) /\ Len(order') = n + 1 /\ DOMAIN order' = 1 .. n + 1
      /\ order'[n + 1] = f /\ \A k \in 1 .. n : order'[k] = order[k]
  BY <1>0, <1>1
<1>3. Ordered'
  <2>1. \A j, k \in 1 .. n + 1 : order'[j] = order'[k] => j = k
    <3>1. \A k \in 1 .. n : order[k] # f
      BY <1>0 DEF Ordered
    <3>2. \A j, k \in 1 .. n : order[j] = order[k] => j = k
      BY <1>0 DEF Ordered
    <3>3. \A k \in 1 .. n + 1 : k = n + 1 \/ k \in 1 .. n
      BY <1>0
    <3> QED
      BY <1>2, <3>1, <3>2, <3>3
  <2>2. \A k \in 1 .. n + 1 : order'[k] \notin todo'
    BY <1>0, <1>1, <1>2 DEF Ordered
  <2>3. DOMAIN prog' = todo' \cup {order'[k] : k \in 1 .. n + 1}
    <3>1. DOMAIN prog = todo \cup {order[k] : k \in 1 .. n}
      BY <1>0 DEF Ordered
    <3>2. {order'[k] : k \in 1 .. n + 1} = {order[k] : k \in 1 .. n} \cup {f}
      <4>1. 1 .. n + 1 = 1 .. n \cup {n + 1} /\ n + 1 \notin 1 .. n
        BY <1>0
      <4> QED
        BY ONLY <1>2, <4>1
    <3> QED
      BY <1>1, <3>1, <3>2
  <2>4. order' # <<>> /\ fn' = order'[Len(order')] /\ pos' \in 1 .. Len(prog'[fn']) + 1
    BY <1>0, <1>1, <1>2
  <2> QED
    BY <1>1, <1>2, <2>1, <2>2, <2>3, <2>4 DEF Ordered
<1>4. ASSUME NEW s \in Stmts
      PROVE  Reached(s)' <=> Reached(s)
  <2>1. s[2] \in 1 .. Len(prog[s[1]])
    BY ProgramType DEF Ordered
  <2>2. s[1] = fn => s[2] < pos
    BY <1>0, <1>1, <2>1
  <2>3. s[1] = f => s[2] >= 1
    BY <1>0, <2>1
  <2>4. ~(s[1] = f /\ s[2] < 1)
    BY <1>0, <2>1
  <2>5. Reached(s) <=> \E k \in 1 .. n : order[k] = s[1]
    BY <1>0, <2>2 DEF Reached
  <2>6. Reached(s)' <=> \E k \in 1 .. n : order[k] = s[1]
    <3>1. Reached(s)' <=> \E k \in 1 .. n + 1 : order'[k] = s[1] /\ (k = n + 1 => s[2] < 1)
      BY <1>1, <1>2 DEF Reached
    <3>2. \A k \in 1 .. n + 1 : k = n + 1 \/ (k \in 1 .. n /\ k # n + 1)
      BY <1>0
    <3>3. \A k \in 1 .. n : k \in 1 .. n + 1 /\ k # n + 1
      BY <1>0
    <3> QED
      BY <1>2, <2>4, <3>1, <3>2, <3>3
  <2> QED
    BY <2>5, <2>6
<1>5. ASSUME NEW s \in Stmts, NEW t \in Stmts, Before(s, t)
      PROVE  Before(s, t)'
  BY <1>0, <1>2, <1>5 DEF Before
<1> QED
  BY <1>3, <1>4, <1>5

-----------------------------------------------------------------------------
\* The statements are those of the program, which stays the same.
LEMMA SameStatements ==
  ASSUME prog' = prog
  PROVE  /\ Stmts' = Stmts /\ Labels' = Labels /\ Jumps' = Jumps
         /\ \A s : Op(s)' = Op(s) /\ NameOf(s)' = NameOf(s)
BY DEF Stmts, Labels, Jumps, Op, NameOf

\* A label is bound to the jumps that wait for it; the table keeps the first.
LEMMA LabelKeeps ==
  ASSUME Bindings, ConvertLabel
  PROVE  Bindings'
<1> DEFINE n == NameOf(Here)
           waiting == Named(pendingGotos, n) \cup Named(pendingGosubs, n)
<1>1. /\ ~AtEnd /\ Advance /\ Op(Here) = "label"
      /\ bound' = [s \in Stmts |-> IF s \in waiting THEN Here ELSE bound[s]]
      /\ pendingGotos' = pendingGotos \ Named(pendingGotos, n)
      /\ pendingGosubs' = pendingGosubs \ Named(pendingGosubs, n)
      /\ labels' = [labels EXCEPT ![n] = IF @ = NULL THEN Here ELSE @]
  BY DEF ConvertLabel, At, Erased, Emplaced
<1>2. /\ Ordered' /\ Here \in Stmts /\ ~Reached(Here)
      /\ \A s \in Stmts : Reached(s)' <=> Reached(s) \/ s = Here
      /\ \A s \in Stmts : Reached(s) => Before(s, Here)
      /\ \A s, t : Before(s, t)' <=> Before(s, t)
  BY <1>1, OneMore DEF Bindings
<1>3. /\ Stmts' = Stmts /\ Labels' = Labels /\ Jumps' = Jumps
      /\ \A s : Op(s)' = Op(s) /\ NameOf(s)' = NameOf(s)
  BY <1>1, SameStatements DEF Advance
<1>4. /\ Here \in Labels /\ Here \notin Jumps /\ Here # NULL /\ n \in Names
      /\ \A s \in Labels \cup Jumps : s \in Stmts /\ s # NULL /\ NameOf(s) \in Names
  <2>1. Here \in Labels /\ Here \notin Jumps
    BY <1>1, <1>2 DEF Labels, Jumps
  <2> QED
    BY <2>1, ProgramType DEF Bindings, Ordered
<1>5. LabelsAreFirst'
  <2>1. labels' \in [Names -> Labels \cup {NULL}]
    BY <1>1, <1>4 DEF Bindings, LabelsAreFirst
  <2>2. ASSUME NEW m \in Names, labels'[m] # NULL
        PROVE  (Reached(labels[m]) /\ NameOf(labels[m]) = m)'
    <3>1. PICK l : l = labels'[m]
      OBVIOUS
    <3>2. CASE m = n /\ labels[n] = NULL
      <4>1. l = Here
        BY <1>1, <1>4, <3>1, <3>2 DEF Bindings, LabelsAreFirst
      <4> QED
        BY <1>2, <1>3, <3>1, <3>2, <4>1 DEF Reached, NameOf
    <3>3. CASE ~(m = n /\ labels[n] = NULL)
      <4>1. l = labels[m] /\ l \in Labels
        BY <1>1, <1>4, <2>2, <3>1, <3>3 DEF Bindings, LabelsAreFirst
      <4>2. Reached(l)' /\ NameOf(l)' = m
        BY <1>2, <1>3, <1>4, <2>2, <3>1, <4>1 DEF Bindings, LabelsAreFirst
      <4> QED
        BY <3>1, <4>2 DEF Reached, NameOf
    <3> QED
      BY <3>2, <3>3
  <2>3. ASSUME NEW m \in Labels, Reached(m)'
        PROVE  /\ labels'[NameOf(m)] # NULL
               /\ m = labels'[NameOf(m)] \/ Before(labels'[NameOf(m)], m)
    <3>1. CASE Reached(m)
      <4>1. labels[NameOf(m)] # NULL
        BY <3>1 DEF Bindings, LabelsAreFirst
      <4>2. labels'[NameOf(m)] = labels[NameOf(m)]
        BY <1>1, <1>4, <4>1 DEF Bindings, LabelsAreFirst
      <4> QED
        BY <3>1, <4>1, <4>2 DEF Bindings, LabelsAreFirst
    <3>2. CASE m = Here
      <4>1. CASE labels[n] = NULL
        BY <1>1, <1>4, <3>2, <4>1 DEF Bindings, LabelsAreFirst
      <4>2. CASE labels[n] # NULL
        <5>1. labels'[n] = labels[n] /\ labels[n] \in Labels /\ Reached(labels[n])
          BY <1>1, <1>4, <4>2 DEF Bindings, LabelsAreFirst
        <5> QED
          BY <1>2, <1>4, <3>2, <4>2, <5>1
      <4> QED
        BY <4>1, <4>2
    <3> QED
      BY <1>2, <1>4, <2>3, <3>1, <3>2
  <2> QED
    BY <1>2, <1>3, <2>1, <2>2, <2>3 DEF LabelsAreFirst
<1>6. ASSUME NEW j \in Jumps
      PROVE  /\ Reached(j)' <=> Reached(j)
             /\ Reached(j) => bound'[j] = labels'[NameOf(j)]
             /\ Reached(j) =>
                  (bound'[j] = NULL <=> bound[j] = NULL /\ NameOf(j) # n)
  <2>1. j \in Stmts /\ (Reached(j)' <=> Reached(j)) /\ NameOf(j) \in Names
    BY <1>2, <1>4
  <2>2. Op(j) \in {"goto", "gosub"}
    BY DEF Jumps
  <2>3. ASSUME Reached(j)
        PROVE  /\ bound[j] = labels[NameOf(j)]
               /\ j \in waiting <=> NameOf(j) = n /\ bound[j] = NULL
    BY <2>2, <2>3 DEF Bindings, BoundByTable, PendingAreTheUnbound, Named
  <2>4. bound'[j] = IF j \in waiting THEN Here ELSE bound[j]
    BY <1>1, <2>1
  <2>5. labels'[NameOf(j)] = IF NameOf(j) = n /\ labels[n] = NULL THEN Here ELSE labels[NameOf(j)]
    BY <1>1, <1>4, <2>1 DEF Bindings, LabelsAreFirst
  <2> HIDE DEF n, waiting
  <2> QED
    BY <1>4, <2>1, <2>3, <2>4, <2>5
<1>7. PendingAreTheUnbound'
  <2>1. pendingGotos' = {j \in Jumps : Op(j) = "goto" /\ Reached(j)' /\ bound'[j] = NULL}
    <3>1. pendingGotos = {j \in Jumps : Op(j) = "goto" /\ Reached(j) /\ bound[j] = NULL}
      BY DEF Bindings, BoundByTable, PendingAreTheUnbound
    <3>2. pendingGotos' = {j \in pendingGotos : NameOf(j) # n}
      BY <1>1 DEF Named
    <3> HIDE DEF n
    <3> QED
      BY <1>6, <3>1, <3>2
  <2>2. pendingGosubs' = {j \in Jumps : Op(j) = "gosub" /\ Reached(j)' /\ bound'[j] = NULL}
    <3>1. pendingGosubs = {j \in Jumps : Op(j) = "gosub" /\ Reached(j) /\ bound[j] = NULL}
      BY DEF Bindings, BoundByTable, PendingAreTheUnbound
    <3>2. pendingGosubs' = {j \in pendingGosubs : NameOf(j) # n}
      BY <1>1 DEF Named
    <3> HIDE DEF n
    <3> QED
      BY <1>6, <3>1, <3>2
  <2> QED
    BY <1>3, <2>1, <2>2 DEF PendingAreTheUnbound
<1>8. BoundByTable'
  <2>1. DOMAIN bound' = Stmts'
    BY <1>1, <1>3
  <2> QED
    BY <1>3, <1>6, <1>7, <2>1 DEF BoundByTable
<1> QED
  BY <1>2, <1>5, <1>8 DEF Bindings

\* A jump is bound by the table, or waits.
LEMMA JumpKeeps ==
  ASSUME Bindings, ~AtEnd, Advance, Op(Here) \in {"goto", "gosub"},
         bound' = [bound EXCEPT ![Here] = labels[NameOf(Here)]],
         pendingGotos' = IF Op(Here) = "goto" /\ labels[NameOf(Here)] = NULL
                         THEN pendingGotos \cup {Here} ELSE pendingGotos,
         pendingGosubs' = IF Op(Here) = "gosub" /\ labels[NameOf(Here)] = NULL
                          THEN pendingGosubs \cup {Here} ELSE pendingGosubs,
         labels' = labels
  PROVE  Bindings'
<1>2. /\ Ordered' /\ Here \in Stmts /\ ~Reached(Here)
      /\ \A s \in Stmts : Reached(s)' <=> Reached(s) \/ s = Here
      /\ \A s, t : Before(s, t)' <=> Before(s, t)
  BY OneMore DEF Bindings
<1>3. /\ Stmts' = Stmts /\ Labels' = Labels /\ Jumps' = Jumps
      /\ \A s : Op(s)' = Op(s) /\ NameOf(s)' = NameOf(s)
  BY SameStatements DEF Advance
<1>4. /\ Here \in Jumps /\ Here \notin Labels
      /\ \A s \in Labels \cup Jumps : s \in Stmts /\ s # NULL /\ NameOf(s) \in Names
  <2>1. Here \in Jumps /\ Here \notin Labels
    BY <1>2 DEF Labels, Jumps
  <2> QED
    BY <2>1, ProgramType DEF Bindings, Ordered
<1>5. LabelsAreFirst'
  <2>1. \A s \in Labels : Reached(s)' <=> Reached(s)
    BY <1>2, <1>4
  <2>2. \A n \in Names : labels[n] # NULL => labels[n] \in Labels
    BY DEF Bindings, LabelsAreFirst
  <2> QED
    BY <1>2, <1>3, <2>1, <2>2 DEF Bindings, LabelsAreFirst
<1>6. ASSUME NEW j \in Jumps
      PROVE  /\ Reached(j)' <=> Reached(j) \/ j = Here
             /\ j = Here => bound'[j] = labels[NameOf(j)]
             /\ j # Here => bound'[j] = bound[j]
  <2>1. j \in Stmts /\ DOMAIN bound = Stmts
    BY <1>4 DEF Bindings, BoundByTable
  <2> QED
    BY <1>2, <2>1
<1>7. PendingAreTheUnbound'
  <2>1. pendingGotos' = {j \in Jumps : Op(j) = "goto" /\ Reached(j)' /\ bound'[j] = NULL}
    <3>1. pendingGotos = {j \in Jumps : Op(j) = "goto" /\ Reached(j) /\ bound[j] = NULL}
      BY DEF Bindings, BoundByTable, PendingAreTheUnbound
    <3> QED
      BY <1>2, <1>4, <1>6, <3>1
  <2>2. pendingGosubs' = {j \in Jumps : Op(j) = "gosub" /\ Reached(j)' /\ bound'[j] = NULL}
    <3>1. pendingGosubs = {j \in Jumps : Op(j) = "gosub" /\ Reached(j) /\ bound[j] = NULL}
      BY DEF Bindings, BoundByTable, PendingAreTheUnbound
    <3> QED
      BY <1>2, <1>4, <1>6, <3>1
  <2> QED
    BY <1>3, <2>1, <2>2 DEF PendingAreTheUnbound
<1>8. BoundByTable'
  <2>1. DOMAIN bound' = Stmts'
    BY <1>3 DEF Bindings, BoundByTable
  <2> QED
    BY <1>3, <1>6, <1>7, <2>1 DEF Bindings, BoundByTable
<1> QED
  BY <1>2, <1>5, <1>8 DEF Bindings

\* Every other step leaves the tables alone, and reaches no label and no jump.
LEMMA TablesKeep ==
  ASSUME Bindings, prog' = prog, UNCHANGED tables, Ordered',
         \A s \in Labels \cup Jumps : Reached(s)' <=> Reached(s),
         \A s, t \in Stmts : Before(s, t) => Before(s, t)'
  PROVE  Bindings'
<1>1. /\ Stmts' = Stmts /\ Labels' = Labels /\ Jumps' = Jumps
      /\ \A s : Op(s)' = Op(s) /\ NameOf(s)' = NameOf(s)
  BY SameStatements
<1>2. labels' = labels /\ bound' = bound /\ pendingGotos' = pendingGotos /\ pendingGosubs' = pendingGosubs
  BY DEF tables
<1>3. \A n \in Names : labels[n] # NULL => labels[n] \in Labels
  BY DEF Bindings, LabelsAreFirst
<1>4. \A s \in Labels \cup Jumps : s \in Stmts /\ NameOf(s) \in Names
  BY ProgramType DEF Bindings, Ordered
<1>5. LabelsAreFirst'
  <2>1. labels' \in [Names -> Labels' \cup {NULL}]
    BY <1>1, <1>2 DEF Bindings, LabelsAreFirst
  <2>2. (\A n \in Names : labels[n] # NULL => Reached(labels[n]) /\ NameOf(labels[n]) = n)'
    BY <1>1, <1>2, <1>3 DEF Bindings, LabelsAreFirst
  <2>3. ASSUME NEW m \in Labels, Reached(m)'
        PROVE  /\ labels'[NameOf(m)] # NULL
               /\ m = labels'[NameOf(m)] \/ Before(labels[NameOf(m)], m)'
    <3>0. PICK l : l = labels[NameOf(m)]
      OBVIOUS
    <3>1. l # NULL /\ (m = l \/ Before(l, m))
      BY <2>3, <3>0 DEF Bindings, LabelsAreFirst
    <3>2. l \in Stmts /\ m \in Stmts
      BY <1>3, <1>4, <3>0, <3>1 DEF Labels
    <3>3. m = l \/ Before(l, m)'
      BY <3>1, <3>2
    <3> QED
      BY <1>1, <1>2, <3>0, <3>1, <3>3 DEF Before, NameOf
  <2> QED
    BY <1>1, <2>1, <2>2, <2>3 DEF LabelsAreFirst
<1>6. PendingAreTheUnbound'
  BY <1>1, <1>2 DEF Bindings, BoundByTable, PendingAreTheUnbound
<1>7. BoundByTable'
  BY <1>1, <1>2, <1>6 DEF Bindings, BoundByTable
<1> QED
  BY <1>5, <1>7 DEF Bindings

LEMMA InitBindings ==
  ASSUME Init
  PROVE  Bindings
<1>1. /\ prog \in Programs /\ fn = Main /\ Main \in DOMAIN prog /\ pos = 1 /\ order = <<Main>>
      /\ todo = DOMAIN prog \ {Main} /\ prog[Main] \in Seq(Items)
  BY ProgramsAreBodies DEF Init, FirstFunction
<1>2. Ordered
  <2>1. order \in Seq(DOMAIN prog) /\ order # <<>> /\ fn = order[Len(order)] /\ DOMAIN order = {1}
    BY <1>1
  <2>2. DOMAIN prog = todo \cup {order[k] : k \in DOMAIN order}
    BY <1>1, <2>1
  <2>3. pos \in 1 .. Len(prog[fn]) + 1
    BY <1>1
  <2> QED
    BY <1>1, <2>1, <2>2, <2>3 DEF Ordered
<1>3. ASSUME NEW s \in Stmts
      PROVE  ~Reached(s)
  <2>1. s[2] \in Nat /\ s[2] >= 1
    BY <1>1, ProgramType
  <2> QED
    BY <1>1, <2>1 DEF Reached
<1>4. Labels \subseteq Stmts /\ Jumps \subseteq Stmts
  BY DEF Labels, Jumps
<1>5. LabelsAreFirst /\ BoundByTable
  BY <1>3, <1>4 DEF Init, LabelsAreFirst, BoundByTable, PendingAreTheUnbound
<1> QED
  BY <1>2, <1>5 DEF Bindings

LEMMA NextBindings ==
  ASSUME Bindings, [Next]_vars
  PROVE  Bindings'
<1>1. CASE ConvertLabel
  BY <1>1, LabelKeeps
<1>2. CASE ConvertGoto
  BY <1>2, JumpKeeps DEF ConvertGoto, At
<1>3. CASE ConvertSubCall
  BY <1>3, JumpKeeps DEF ConvertSubCall, At
<1>4. ASSUME EnterLoop \/ LeaveLoop \/ ConvertExit \/ ConvertOther
      PROVE  Bindings'
  <2>1. ~AtEnd /\ Advance /\ Op(Here) \notin {"label", "goto", "gosub"} /\ UNCHANGED tables
    BY <1>4 DEF EnterLoop, LeaveLoop, ConvertExit, ConvertOther, At
  <2>2. /\ Ordered' /\ Here \notin Labels \cup Jumps
        /\ \A s \in Stmts : Reached(s)' <=> Reached(s) \/ s = Here
        /\ \A s, t : Before(s, t)' <=> Before(s, t)
    BY <2>1, OneMore DEF Bindings, Labels, Jumps
  <2>3. Labels \subseteq Stmts /\ Jumps \subseteq Stmts
    BY DEF Labels, Jumps
  <2> QED
    BY <2>1, <2>2, <2>3, TablesKeep DEF Advance
<1>5. ASSUME NEW f \in todo, NextFunction(f)
      PROVE  Bindings'
  <2>1. Labels \subseteq Stmts /\ Jumps \subseteq Stmts
    BY DEF Labels, Jumps
  <2> QED
    BY <1>5, <2>1, NoneMore, TablesKeep DEF Bindings, NextFunction
<1>6. CASE Finish \/ UNCHANGED vars
  <2>1. UNCHANGED <<prog, fn, pos, todo, order, tables>>
    BY <1>6 DEF Finish, vars
  <2>2. Ordered' /\ (\A s : Reached(s)' <=> Reached(s)) /\ (\A s, t : Before(s, t)' <=> Before(s, t))
    BY <2>1 DEF Bindings, Ordered, Reached, Before
  <2> QED
    BY <2>1, <2>2, TablesKeep
<1> QED
  BY <1>1, <1>2, <1>3, <1>4, <1>5, <1>6 DEF Next

\* The tables the resolver keeps agree with the statements converted so far: the
\* first label of a name is the one in the table, and what waits waits for no label.
THEOREM BindingsHold == Spec => []Bindings
BY InitBindings, NextBindings, PTL DEF Spec

\* However the label table and the pending tables share the work, each jump
\* that was converted is bound to the first label of its name.
THEOREM FirstLabelBinds == Spec => []BoundToFirstLabel
<1>1. ASSUME Bindings
      PROVE  BoundToFirstLabel
  <2> SUFFICES ASSUME NEW j \in Jumps, Reached(j)
               PROVE  IF bound[j] = NULL THEN FirstLabel(NameOf(j)) = {}
                                         ELSE FirstLabel(NameOf(j)) = {bound[j]}
    BY DEF BoundToFirstLabel
  <2> DEFINE n == NameOf(j)
             l == labels[n]
  <2>1. n \in Names /\ bound[j] = l
    BY <1>1, ProgramType DEF Bindings, Ordered, BoundByTable
  <2>2. \A m \in Labels : Reached(m) /\ NameOf(m) = n => l # NULL /\ (m = l \/ Before(l, m))
    BY <1>1 DEF Bindings, LabelsAreFirst
  <2>3. l # NULL => l \in Labels /\ Reached(l) /\ NameOf(l) = n
    BY <1>1, <2>1 DEF Bindings, LabelsAreFirst
  <2>4. \A s, t \in Labels : Before(s, t) => ~Before(t, s)
    BY <1>1, BeforeIsAsymmetric DEF Bindings, Labels
  <2>5. \A s \in Labels : ~Before(s, s)
    BY <2>4
  <2> HIDE DEF n, l
  <2>6. l = NULL => FirstLabel(n) = {}
    BY <2>2 DEF FirstLabel
  <2>7. l # NULL => FirstLabel(n) = {l}
    BY <2>2, <2>3, <2>4, <2>5 DEF FirstLabel
  <2> QED
    BY <2>1, <2>6, <2>7 DEF n
<1> QED
  BY <1>1, BindingsHold, PTL

\* What waits in the pending tables is what was met and has no label yet.
THEOREM PendingAreUnbound == Spec => []PendingAreTheUnbound
<1>1. Bindings => PendingAreTheUnbound
  BY DEF Bindings, BoundByTable
<1> QED
  BY <1>1, BindingsHold, PTL

-----------------------------------------------------------------------------
\* The loops of f that have begun and not ended by statement n: from its
\* beginning on there was always a beginning more than there were ends.
IsOpen(f, n, l) ==
  /\ l[1] = f /\ l[2] <= n /\ Op(l) = "loop"
  /\ \A k \in l[2] .. n : Occurrences("endloop", f, l[2], k) < Occurrences("loop", f, l[2], k)

\* A stack with exactly those, from the outermost to the innermost.
AreOpen(f, n, ls) ==
  /\ ls \in Seq(Stmts)
  /\ \A i \in DOMAIN ls :
       /\ IsOpen(f, n, ls[i])
       /\ Occurrences("loop", f, ls[i][2], n)
            = Occurrences("endloop", f, ls[i][2], n) + (Len(ls) - i + 1)
  /\ \A i, j \in DOMAIN ls : i < j => ls[i][2] < ls[j][2]
  /\ \A l \in Stmts : IsOpen(f, n, l) => \E i \in DOMAIN ls : ls[i] = l
Nested == AreOpen(fn, pos - 1, loops)

\* An exit that was met leaves the innermost loop around it, or there is an error.
Innermost(l, s) ==
  l # NULL /\ Encloses(l, s) /\ \A m \in Stmts : Encloses(m, s) => m[2] <= l[2]
ExitsBound ==
  /\ DOMAIN loopOf = Stmts
  /\ \A s \in Stmts : Op(s) = "exit" /\ Reached(s) => errorOccurred \/ Innermost(loopOf[s], s)
  /\ result = "program" => ~errorOccurred /\ AtEnd /\ todo = {}

Exits == Ordered /\ Nested /\ ExitsBound

\* Counting one statement more.
LEMMA OneItem ==
  ASSUME NEW op, NEW f, NEW i \in Nat, NEW j \in Nat, i <= j + 1
  PROVE  /\ Occurrences(op, f, i, j) \in Nat
         /\ i = j + 1 => Occurrences(op, f, i, j) = 0
         /\ Occurrences(op, f, i, j + 1) =
              Occurrences(op, f, i, j) + (IF prog[f][j + 1].op = op THEN 1 ELSE 0)
<1> DEFINE those(n) == {k \in i .. n : prog[f][k].op = op}
<1>1. IsFiniteSet(those(j)) /\ Cardinality(those(j)) \in Nat
  <2>1. IsFiniteSet(i .. j)
    BY FS_Interval
  <2>2. IsFiniteSet(those(j))
    BY <2>1, FS_Subset
  <2> QED
    BY <2>2, FS_CardinalityType
<1>2. i = j + 1 => those(j) = {}
  OBVIOUS
<1>3. those(j + 1) = IF prog[f][j + 1].op = op THEN those(j) \cup {j + 1} ELSE those(j)
  <2>1. i .. j + 1 = i .. j \cup {j + 1}
    OBVIOUS
  <2> QED
    BY <2>1
<1>4. j + 1 \notin those(j)
  OBVIOUS
<1>5. Cardinality(those(j) \cup {j + 1}) = Cardinality(those(j)) + 1
  BY <1>1, <1>4, FS_AddElement
<1>6. /\ Occurrences(op, f, i, j) = Cardinality(those(j))
      /\ Occurrences(op, f, i, j + 1) = Cardinality(those(j + 1))
  BY DEF Occurrences
<1>7. i = j + 1 => Cardinality(those(j)) = 0
  BY <1>2, FS_EmptySet
<1> HIDE DEF those
<1> QED
  BY <1>1, <1>3, <1>5, <1>6, <1>7

\* What the next statement does to the open loops.
LEMMA OpenStep ==
  ASSUME prog \in Programs, NEW f \in DOMAIN prog, NEW n \in Nat, n + 1 \in DOMAIN prog[f],
         NEW op, op = prog[f][n + 1].op
  PROVE  /\ \A l \in Stmts : l[1] = f /\ l[2] <= n =>
              /\ Occurrences("loop", f, l[2], n) \in Nat
              /\ Occurrences("endloop", f, l[2], n) \in Nat
              /\ Occurrences("loop", f, l[2], n + 1) =
                   Occurrences("loop", f, l[2], n) + (IF op = "loop" THEN 1 ELSE 0)
              /\ Occurrences("endloop", f, l[2], n + 1) =
                   Occurrences("endloop", f, l[2], n) + (IF op = "endloop" THEN 1 ELSE 0)
              /\ IsOpen(f, n + 1, l) <=>
                   /\ IsOpen(f, n, l)
                   /\ Occurrences("endloop", f, l[2], n + 1) < Occurrences("loop", f, l[2], n + 1)
              /\ IsOpen(f, n, l) =>
                   Occurrences("endloop", f, l[2], n) < Occurrences("loop", f, l[2], n)
         /\ \A l \in Stmts : l = <<f, n + 1>> =>
              /\ IsOpen(f, n + 1, l) <=> op = "loop"
              /\ op = "loop" => /\ Occurrences("loop", f, n + 1, n + 1) = 1
                                /\ Occurrences("endloop", f, n + 1, n + 1) = 0
         /\ \A l \in Stmts : IsOpen(f, n + 1, l) => (l[1] = f /\ l[2] <= n) \/ l = <<f, n + 1>>
<1>0. \A l \in Stmts : l[2] \in Nat /\ l = <<l[1], l[2]>> /\ Op(l) = prog[l[1]][l[2]].op
  BY ProgramType DEF Op
<1>1. ASSUME NEW l \in Stmts, l[1] = f, l[2] <= n
      PROVE  /\ Occurrences("loop", f, l[2], n) \in Nat
             /\ Occurrences("endloop", f, l[2], n) \in Nat
             /\ Occurrences("loop", f, l[2], n + 1) =
                  Occurrences("loop", f, l[2], n) + (IF op = "loop" THEN 1 ELSE 0)
             /\ Occurrences("endloop", f, l[2], n + 1) =
                  Occurrences("endloop", f, l[2], n) + (IF op = "endloop" THEN 1 ELSE 0)
             /\ IsOpen(f, n + 1, l) <=>
                  /\ IsOpen(f, n, l)
                  /\ Occurrences("endloop", f, l[2], n + 1) < Occurrences("loop", f, l[2], n + 1)
             /\ IsOpen(f, n, l) =>
                  Occurrences("endloop", f, l[2], n) < Occurrences("loop", f, l[2], n)
  <2>1. l[2] \in Nat /\ l[2] <= n + 1
    BY <1>0, <1>1
  <2>2. \A o : /\ Occurrences(o, f, l[2], n) \in Nat
               /\ Occurrences(o, f, l[2], n + 1) =
                    Occurrences(o, f, l[2], n) + (IF op = o THEN 1 ELSE 0)
    BY <2>1, OneItem
  <2>3. l[2] .. n + 1 = l[2] .. n \cup {n + 1} /\ l[2] <= n + 1 /\ n \in l[2] .. n
    BY <1>1, <2>1
  <2>4. /\ IsOpen(f, n + 1, l) <=>
             /\ IsOpen(f, n, l)
             /\ Occurrences("endloop", f, l[2], n + 1) < Occurrences("loop", f, l[2], n + 1)
        /\ IsOpen(f, n, l) =>
             Occurrences("endloop", f, l[2], n) < Occurrences("loop", f, l[2], n)
    BY <1>1, <2>3 DEF IsOpen
  <2> QED
    BY <2>2, <2>4
<1>2. ASSUME NEW l \in Stmts, l = <<f, n + 1>>
      PROVE  /\ IsOpen(f, n + 1, l) <=> op = "loop"
             /\ op = "loop" => /\ Occurrences("loop", f, n + 1, n + 1) = 1
                               /\ Occurrences("endloop", f, n + 1, n + 1) = 0
  <2>1. \A o : /\ Occurrences(o, f, n + 1, n) = 0
               /\ Occurrences(o, f, n + 1, n + 1) =
                    Occurrences(o, f, n + 1, n) + (IF op = o THEN 1 ELSE 0)
    BY OneItem
  <2>2. n + 1 .. n + 1 = {n + 1} /\ l[1] = f /\ l[2] = n + 1 /\ Op(l) = op
    BY <1>0, <1>2
  <2> QED
    BY <2>1, <2>2 DEF IsOpen
<1>3. ASSUME NEW l \in Stmts, IsOpen(f, n + 1, l)
      PROVE  (l[1] = f /\ l[2] <= n) \/ l = <<f, n + 1>>
  <2>1. l[1] = f /\ l[2] <= n + 1
    BY <1>3 DEF IsOpen
  <2> QED
    BY <1>0, <2>1
<1> QED
  BY <1>1, <1>2, <1>3

\* A statement that is no bracket leaves the stack as it is ...
LEMMA PlainNests ==
  ASSUME prog \in Programs, NEW f \in DOMAIN prog, NEW n \in Nat, n + 1 \in DOMAIN prog[f],
         prog[f][n + 1].op \notin {"loop", "endloop"},
         NEW ls, AreOpen(f, n, ls)
  PROVE  AreOpen(f, n + 1, ls)
<1>1. ASSUME NEW l \in Stmts
      PROVE  /\ IsOpen(f, n + 1, l) <=> IsOpen(f, n, l)
             /\ IsOpen(f, n, l) =>
                  /\ Occurrences("loop", f, l[2], n + 1) = Occurrences("loop", f, l[2], n)
                  /\ Occurrences("endloop", f, l[2], n + 1) = Occurrences("endloop", f, l[2], n)
  <2>1. CASE l[1] = f /\ l[2] <= n
    BY <2>1, OpenStep
  <2>2. CASE ~(l[1] = f /\ l[2] <= n)
    BY <2>2, OpenStep DEF IsOpen
  <2> QED
    BY <2>1, <2>2
<1>2. \A i \in DOMAIN ls : ls[i] \in Stmts
  BY DEF AreOpen
<1> QED
  BY <1>1, <1>2 DEF AreOpen

\* ... a loop is put on top ...
LEMMA LoopNests ==
  ASSUME prog \in Programs, NEW f \in DOMAIN prog, NEW n \in Nat, n + 1 \in DOMAIN prog[f],
         prog[f][n + 1].op = "loop",
         NEW ls, AreOpen(f, n, ls)
  PROVE  AreOpen(f, n + 1, Append(ls, <<f, n + 1>>))
<1> DEFINE new == <<f, n + 1>>
           more == Append(ls, new)
           m == Len(ls)
<1>1. new \in Stmts
  BY StmtIsPlace
<1>2. /\ ls \in Seq(Stmts) /\ m \in Nat /\ more \in Seq(Stmts) /\ Len(more) = m + 1
      /\ DOMAIN ls = 1 .. m /\ DOMAIN more = 1 .. m + 1 /\ more[m + 1] = new
      /\ \A i \in 1 .. m : more[i] = ls[i] /\ ls[i] \in Stmts
  BY <1>1 DEF AreOpen
<1>3. ASSUME NEW l \in Stmts, IsOpen(f, n, l)
      PROVE  /\ l[1] = f /\ l[2] \in Nat /\ l[2] <= n
             /\ IsOpen(f, n + 1, l)
             /\ Occurrences("loop", f, l[2], n + 1) = Occurrences("loop", f, l[2], n) + 1
             /\ Occurrences("endloop", f, l[2], n + 1) = Occurrences("endloop", f, l[2], n)
             /\ Occurrences("loop", f, l[2], n) \in Nat /\ Occurrences("endloop", f, l[2], n) \in Nat
  <2>1. l[1] = f /\ l[2] \in Nat /\ l[2] <= n
    BY <1>3, ProgramType DEF IsOpen
  <2> QED
    BY <1>3, <2>1, OpenStep
<1>4. /\ IsOpen(f, n + 1, new)
      /\ Occurrences("loop", f, n + 1, n + 1) = 1 /\ Occurrences("endloop", f, n + 1, n + 1) = 0
  BY <1>1, OpenStep
<1>5. ASSUME NEW i \in 1 .. m + 1
      PROVE  /\ IsOpen(f, n + 1, more[i])
             /\ Occurrences("loop", f, more[i][2], n + 1)
                  = Occurrences("endloop", f, more[i][2], n + 1) + ((m + 1) - i + 1)
  <2>1. CASE i \in 1 .. m
    <3>1. /\ IsOpen(f, n, ls[i]) /\ ls[i] \in Stmts /\ more[i] = ls[i]
          /\ Occurrences("loop", f, ls[i][2], n) = Occurrences("endloop", f, ls[i][2], n) + (m - i + 1)
      BY <1>2, <2>1 DEF AreOpen
    <3>2. /\ IsOpen(f, n + 1, ls[i])
          /\ Occurrences("loop", f, ls[i][2], n + 1) = Occurrences("loop", f, ls[i][2], n) + 1
          /\ Occurrences("endloop", f, ls[i][2], n + 1) = Occurrences("endloop", f, ls[i][2], n)
          /\ Occurrences("endloop", f, ls[i][2], n) \in Nat
      BY <1>3, <3>1
    <3>3. m \in Nat /\ i \in Nat
      BY <1>2
    <3> HIDE DEF more, m
    <3> QED
      BY <3>1, <3>2, <3>3
  <2>2. CASE i = m + 1
    BY <1>2, <1>4, <2>2
  <2> QED
    BY <1>2, <2>1, <2>2
<1>6. ASSUME NEW i \in 1 .. m + 1, NEW j \in 1 .. m + 1, i < j
      PROVE  more[i][2] < more[j][2]
  <2>1. i \in 1 .. m /\ more[i] = ls[i] /\ ls[i] \in Stmts /\ IsOpen(f, n, ls[i])
    BY <1>2, <1>6 DEF AreOpen
  <2>2. CASE j = m + 1
    <3>1. ls[i][2] <= n /\ ls[i][2] \in Nat
      BY <1>3, <2>1
    <3> QED
      BY <1>2, <2>1, <2>2, <3>1
  <2>3. CASE j \in 1 .. m
    BY <1>2, <1>6, <2>1, <2>3 DEF AreOpen
  <2> QED
    BY <1>2, <2>2, <2>3
<1>7. ASSUME NEW l \in Stmts, IsOpen(f, n + 1, l)
      PROVE  \E i \in 1 .. m + 1 : more[i] = l
  <2>1. CASE l = new
    BY <1>2, <2>1
  <2>2. CASE l # new
    <3>1. IsOpen(f, n, l)
      BY <1>7, <2>2, OpenStep
    <3>2. PICK i \in 1 .. m : ls[i] = l
      BY <1>2, <3>1 DEF AreOpen
    <3> QED
      BY <1>2, <3>2
  <2> QED
    BY <2>1, <2>2
<1> HIDE DEF more, m
<1> QED
  BY <1>2, <1>5, <1>6, <1>7 DEF AreOpen, more

\* ... and an end takes the one on top away.
LEMMA EndNests ==
  ASSUME prog \in Programs, NEW f \in DOMAIN prog, NEW n \in Nat, n + 1 \in DOMAIN prog[f],
         prog[f][n + 1].op = "endloop",
         NEW ls, AreOpen(f, n, ls)
  PROVE  AreOpen(f, n + 1, SubSeq(ls, 1, Len(ls) - 1))
<1> DEFINE m == Len(ls)
           less == SubSeq(ls, 1, m - 1)
<1>1. /\ ls \in Seq(Stmts) /\ m \in Nat /\ DOMAIN ls = 1 .. m
      /\ \A i \in 1 .. m : ls[i] \in Stmts
  BY DEF AreOpen
<1>2. ASSUME NEW l \in Stmts, IsOpen(f, n, l)
      PROVE  /\ IsOpen(f, n + 1, l) <=>
                  Occurrences("endloop", f, l[2], n) + 1 < Occurrences("loop", f, l[2], n)
             /\ Occurrences("loop", f, l[2], n + 1) = Occurrences("loop", f, l[2], n)
             /\ Occurrences("endloop", f, l[2], n + 1) = Occurrences("endloop", f, l[2], n) + 1
             /\ Occurrences("loop", f, l[2], n) \in Nat /\ Occurrences("endloop", f, l[2], n) \in Nat
  <2>1. l[1] = f /\ l[2] <= n
    BY <1>2 DEF IsOpen
  <2> QED
    BY <1>2, <2>1, OpenStep
<1>3. \A l \in Stmts : IsOpen(f, n + 1, l) => IsOpen(f, n, l)
  BY OpenStep
<1>4. CASE m = 0
  <2>1. less = <<>> /\ DOMAIN less = {} /\ less \in Seq(Stmts)
    BY <1>1, <1>4
  <2>2. \A l \in Stmts : ~IsOpen(f, n + 1, l)
    BY <1>1, <1>3, <1>4 DEF AreOpen
  <2> HIDE DEF less, m
  <2> QED
    BY <2>1, <2>2 DEF AreOpen, less, m
<1>5. CASE m > 0
  <2>1. /\ less \in Seq(Stmts) /\ Len(less) = m - 1 /\ DOMAIN less = 1 .. m - 1
        /\ \A i \in 1 .. m - 1 : less[i] = ls[i] /\ i \in 1 .. m
    BY <1>1, <1>5
  <2>2. \A i \in 1 .. m :
          /\ IsOpen(f, n, ls[i]) /\ ls[i] \in Stmts
          /\ Occurrences("loop", f, ls[i][2], n) = Occurrences("endloop", f, ls[i][2], n) + (m - i + 1)
    BY <1>1 DEF AreOpen
  <2>3. \A i, j \in 1 .. m : i < j => ls[i][2] < ls[j][2]
    BY <1>1 DEF AreOpen
  <2>4. ASSUME NEW i \in 1 .. m - 1
        PROVE  /\ IsOpen(f, n + 1, less[i])
               /\ Occurrences("loop", f, less[i][2], n + 1)
                    = Occurrences("endloop", f, less[i][2], n + 1) + ((m - 1) - i + 1)
    <3>1. less[i] = ls[i] /\ i \in 1 .. m
      BY <2>1
    <3> HIDE DEF less, m
    <3> QED
      BY <1>1, <1>2, <2>2, <3>1
  <2>5. ASSUME NEW l \in Stmts, IsOpen(f, n + 1, l)
        PROVE  \E i \in 1 .. m - 1 : less[i] = l
    <3>1. IsOpen(f, n, l)
      BY <1>3, <2>5
    <3>2. PICK i \in 1 .. m : ls[i] = l
      BY <1>1, <3>1 DEF AreOpen
    <3>3. i # m
      <4>1. Occurrences("loop", f, l[2], n) = Occurrences("endloop", f, l[2], n) + (m - i + 1)
        BY <2>2, <3>2
      <4>2. Occurrences("endloop", f, l[2], n) + 1 < Occurrences("loop", f, l[2], n)
        BY <1>2, <2>5, <3>1
      <4>3. Occurrences("endloop", f, l[2], n) \in Nat
        BY <1>2, <3>1
      <4>4. m \in Nat
        BY <1>1
      <4> HIDE DEF m
      <4> QED
        BY <4>1, <4>2, <4>3, <4>4
    <3>4. i \in 1 .. m - 1
      <4>1. m \in Nat
        BY <1>1
      <4> HIDE DEF m
      <4> QED
        BY <3>3, <4>1
    <3> QED
      BY <2>1, <3>2, <3>4
  <2> HIDE DEF less, m
  <2> QED
    BY <2>1, <2>3, <2>4, <2>5 DEF AreOpen, less, m
<1> QED
  BY <1>1, <1>4, <1>5

\* A step keeps what is known of the exits if it keeps the stack exact and, at
\* an exit, binds it.
LEMMA ExitsKeep ==
  ASSUME Exits, ~AtEnd, Advance, Nested', result = "converting",
         DOMAIN loopOf' = Stmts, errorOccurred => errorOccurred',
         \A s \in Stmts : s # Here => loopOf'[s] = loopOf[s],
         \A s \in Stmts : s = Here /\ Op(s) = "exit" => errorOccurred' \/ Innermost(loopOf'[s], s)
  PROVE  Exits'
<1>1. /\ Ordered' /\ \A s \in Stmts : Reached(s)' <=> Reached(s) \/ s = Here
  BY OneMore DEF Exits
<1>2. Stmts' = Stmts /\ prog' = prog /\ result' = result
  BY SameStatements DEF Advance
<1>3. \A l, s : Innermost(l, s)' <=> Innermost(l, s)
  BY <1>2 DEF Innermost, Encloses, Occurrences, Op
<1>4. ASSUME NEW s \in Stmts, Op(s)' = "exit", Reached(s)'
      PROVE  errorOccurred' \/ Innermost(loopOf'[s], s)
  <2>1. Op(s) = "exit"
    BY <1>2, <1>4 DEF Op
  <2>2. CASE s = Here
    BY <2>1, <2>2
  <2>3. CASE s # Here
    BY <1>1, <1>4, <2>1, <2>3 DEF Exits, ExitsBound
  <2> QED
    BY <2>2, <2>3
<1>5. ASSUME NEW s \in Stmts, Op(s)' = "exit", Reached(s)'
      PROVE  (errorOccurred \/ Innermost(loopOf[s], s))'
  <2>1. PICK l : l = loopOf'[s]
    OBVIOUS
  <2>2. errorOccurred' \/ Innermost(l, s)'
    BY <1>3, <1>4, <1>5, <2>1
  <2> QED
    BY <2>1, <2>2 DEF Innermost
<1>6. ExitsBound'
  BY <1>2, <1>5 DEF ExitsBound
<1> QED
  BY <1>1, <1>6 DEF Exits

\* The stack follows the brackets.
LEMMA NestedKeeps ==
  ASSUME Ordered, Nested, ~AtEnd, Advance,
         loops' = CASE Op(Here) = "loop" -> Append(loops, Here)
                    [] Op(Here) = "endloop" -> SubSeq(loops, 1, Len(loops) - 1)
                    [] OTHER -> loops
  PROVE  Nested'
<1>1. /\ prog \in Programs /\ fn \in DOMAIN prog /\ pos - 1 \in Nat /\ (pos - 1) + 1 = pos
      /\ pos \in DOMAIN prog[fn] /\ Here = <<fn, pos>> /\ Op(Here) = prog[fn][pos].op
      /\ pos' - 1 = pos /\ fn' = fn /\ prog' = prog
  BY HereType DEF Ordered, AtEnd, Advance, Here, Op
<1>2. AreOpen(fn, pos - 1, loops)
  BY DEF Nested
<1>3. AreOpen(fn, pos, loops')
  <2>1. PICK n \in Nat : n = pos - 1 /\ n + 1 = pos
    BY <1>1
  <2>2. PICK ls : ls = loops
    OBVIOUS
  <2>3. AreOpen(fn, n, ls) /\ n + 1 \in DOMAIN prog[fn] /\ Op(Here) = prog[fn][n + 1].op
    BY <1>1, <1>2, <2>1, <2>2
  <2>4. CASE Op(Here) = "loop"
    <3>1. AreOpen(fn, n + 1, Append(ls, <<fn, n + 1>>))
      BY <1>1, <2>3, <2>4, LoopNests
    <3> QED
      BY <1>1, <2>1, <2>2, <2>4, <3>1
  <2>5. CASE Op(Here) = "endloop"
    <3>1. AreOpen(fn, n + 1, SubSeq(ls, 1, Len(ls) - 1))
      BY <1>1, <2>3, <2>5, EndNests
    <3> QED
      BY <2>1, <2>2, <2>5, <3>1
  <2>6. CASE Op(Here) \notin {"loop", "endloop"}
    <3>1. AreOpen(fn, n + 1, ls)
      BY <1>1, <2>3, <2>6, PlainNests
    <3> QED
      BY <2>1, <2>2, <2>6, <3>1
  <2> QED
    BY <2>4, <2>5, <2>6
<1>4. \A f, n, ls : AreOpen(f, n, ls)' <=> AreOpen(f, n, ls)
  BY <1>1, SameStatements DEF AreOpen, IsOpen, Occurrences, Op
<1> QED
  BY <1>1, <1>3, <1>4 DEF Nested

\* An exit gets the loop on top of the stack, which is the innermost around it.
LEMMA ExitIsBound ==
  ASSUME Exits, ~AtEnd, Op(Here) = "exit", loops # <<>>
  PROVE  loops[Len(loops)] \in Stmts /\ Innermost(loops[Len(loops)], Here)
<1> DEFINE n == pos - 1
           top == loops[Len(loops)]
<1>1. /\ prog \in Programs /\ fn \in DOMAIN prog /\ n \in Nat /\ n + 1 = pos
      /\ pos \in DOMAIN prog[fn] /\ Here = <<fn, pos>> /\ prog[fn][pos].op = "exit"
      /\ pos \in Nat
  BY HereType DEF Exits, Ordered, AtEnd, Here, Op
<1>2. AreOpen(fn, n, loops)
  BY DEF Exits, Nested
<1>3. /\ Len(loops) \in DOMAIN loops /\ \A i \in DOMAIN loops : i <= Len(loops)
      /\ \A i \in DOMAIN loops : loops[i] \in Stmts /\ i \in Nat
  BY <1>2 DEF AreOpen
<1>4. top \in Stmts /\ IsOpen(fn, n, top) /\ top # NULL
  BY <1>1, <1>2, <1>3, ProgramType DEF AreOpen
<1>5. ASSUME NEW l \in Stmts
      PROVE  Encloses(l, Here) <=> IsOpen(fn, n, l)
  <2>1. l[2] \in Nat
    BY <1>1, ProgramType
  <2>2. ASSUME IsOpen(fn, n, l)
        PROVE  Encloses(l, Here)
    <3>1. IsOpen(fn, n + 1, l)
      <4>1. l[1] = fn /\ l[2] <= n
        BY <2>2 DEF IsOpen
      <4>2. /\ Occurrences("loop", fn, l[2], n + 1) = Occurrences("loop", fn, l[2], n)
            /\ Occurrences("endloop", fn, l[2], n + 1) = Occurrences("endloop", fn, l[2], n)
            /\ Occurrences("endloop", fn, l[2], n) < Occurrences("loop", fn, l[2], n)
        <5>1. /\ prog \in Programs /\ fn \in DOMAIN prog /\ n \in Nat /\ n + 1 \in DOMAIN prog[fn]
              /\ prog[fn][n + 1].op = "exit"
          BY <1>1
        <5>2. /\ Occurrences("loop", fn, l[2], n) \in Nat
              /\ Occurrences("endloop", fn, l[2], n) \in Nat
              /\ Occurrences("loop", fn, l[2], n + 1) = Occurrences("loop", fn, l[2], n) + 0
              /\ Occurrences("endloop", fn, l[2], n + 1) = Occurrences("endloop", fn, l[2], n) + 0
              /\ IsOpen(fn, n, l) =>
                   Occurrences("endloop", fn, l[2], n) < Occurrences("loop", fn, l[2], n)
          BY <5>1, <4>1, OpenStep
        <5> QED
          BY <2>2, <5>2
      <4>3. Occurrences("endloop", fn, l[2], n + 1) < Occurrences("loop", fn, l[2], n + 1)
        BY <4>2
      <4>4. IsOpen(fn, n + 1, l) <=>
              /\ IsOpen(fn, n, l)
              /\ Occurrences("endloop", fn, l[2], n + 1) < Occurrences("loop", fn, l[2], n + 1)
        BY <1>1, <4>1, OpenStep
      <4> QED
        BY <2>2, <4>3, <4>4, Zenon
    <3> QED
      BY <1>1, <2>1, <2>2, <3>1 DEF IsOpen, Encloses
  <2>3. ASSUME Encloses(l, Here)
        PROVE  IsOpen(fn, n, l)
    BY <1>1, <2>1, <2>3 DEF IsOpen, Encloses
  <2> QED
    BY <2>2, <2>3
<1>6. ASSUME NEW l \in Stmts, Encloses(l, Here)
      PROVE  l[2] <= top[2]
  <2>1. PICK i \in DOMAIN loops : loops[i] = l
    BY <1>2, <1>5, <1>6 DEF AreOpen
  <2>2. CASE i = Len(loops)
    <3>1. l = top /\ l[2] \in Nat
      BY <1>1, <2>1, <2>2, ProgramType
    <3> QED
      BY <3>1
  <2>3. CASE i # Len(loops)
    <3>1. i < Len(loops)
      BY <1>2, <1>3, <2>3 DEF AreOpen
    <3>2. l[2] \in Nat /\ top[2] \in Nat
      BY <1>1, <1>4, ProgramType
    <3>3. l[2] < top[2]
      BY <1>2, <1>3, <2>1, <3>1 DEF AreOpen
    <3> QED
      BY <3>2, <3>3
  <2> QED
    BY <2>2, <2>3
<1> QED
  BY <1>4, <1>5, <1>6 DEF Innermost

LEMMA InitExits ==
  ASSUME Init
  PROVE  Exits
<1>1. Ordered /\ \A s \in Stmts : ~Reached(s)
  <2>1. Ordered
    BY InitBindings DEF Bindings
  <2>2. ASSUME NEW s \in Stmts
        PROVE  ~Reached(s)
    <3>1. s[2] \in Nat /\ s[2] >= 1
      BY <2>1, ProgramType DEF Ordered
    <3> QED
      BY <3>1 DEF Init, Reached
  <2> QED
    BY <2>1, <2>2
<1>2. Nested
  <2>1. \A l \in Stmts : ~IsOpen(fn, 0, l)
    BY <1>1, ProgramType DEF IsOpen, Ordered
  <2>2. pos - 1 = 0 /\ loops = <<>>
    BY DEF Init
  <2>3. AreOpen(fn, 0, <<>>)
    BY <2>1 DEF AreOpen
  <2> QED
    BY <2>2, <2>3 DEF Nested
<1>3. ExitsBound
  BY <1>1 DEF Init, ExitsBound
<1> QED
  BY <1>1, <1>2, <1>3 DEF Exits

LEMMA NextExits ==
  ASSUME Exits, [Next]_vars
  PROVE  Exits'
<1>1. ASSUME ConvertLabel \/ ConvertGoto \/ ConvertSubCall \/ EnterLoop \/ LeaveLoop \/ ConvertOther
      PROVE  Exits'
  <2>1. /\ result = "converting" /\ ~AtEnd /\ Advance /\ Op(Here) # "exit"
        /\ UNCHANGED <<loopOf, errorOccurred>>
        /\ loops' = CASE Op(Here) = "loop" -> Append(loops, Here)
                      [] Op(Here) = "endloop" -> SubSeq(loops, 1, Len(loops) - 1)
                      [] OTHER -> loops
    BY <1>1 DEF ConvertLabel, ConvertGoto, ConvertSubCall, EnterLoop, LeaveLoop, ConvertOther, At
  <2>2. Nested'
    BY <2>1, NestedKeeps DEF Exits
  <2> QED
    BY <2>1, <2>2, ExitsKeep DEF Exits, ExitsBound
<1>2. CASE ConvertExit
  <2>1. /\ result = "converting" /\ ~AtEnd /\ Advance /\ Op(Here) = "exit" /\ loops' = loops
    BY <1>2 DEF ConvertExit, At
  <2>2. Nested'
    BY <2>1, NestedKeeps DEF Exits
  <2>3. Here \in Stmts /\ DOMAIN loopOf = Stmts
    BY <2>1, HereType DEF Exits, ExitsBound
  <2>4. CASE loops = <<>>
    <3>1. errorOccurred' /\ loopOf' = loopOf
      BY <1>2, <2>4 DEF ConvertExit
    <3> QED
      BY <2>1, <2>2, <2>3, <3>1, ExitsKeep
  <2>5. CASE loops # <<>>
    <3>1. errorOccurred' = errorOccurred /\ loopOf' = [loopOf EXCEPT ![Here] = loops[Len(loops)]]
      BY <1>2, <2>5 DEF ConvertExit
    <3>2. Innermost(loops[Len(loops)], Here)
      BY <2>1, <2>5, ExitIsBound
    <3> QED
      BY <2>1, <2>2, <2>3, <3>1, <3>2, ExitsKeep
  <2> QED
    BY <2>4, <2>5
<1>3. ASSUME NEW f \in todo, NextFunction(f)
      PROVE  Exits'
  <2>1. /\ Ordered' /\ \A s \in Stmts : Reached(s)' <=> Reached(s)
    BY <1>3, NoneMore DEF Exits
  <2>2. /\ prog' = prog /\ fn' = f /\ pos' = 1 /\ loops' = <<>> /\ UNCHANGED <<loopOf, errorOccurred, result>>
        /\ result = "converting"
    BY <1>3 DEF NextFunction
  <2>3. Stmts' = Stmts /\ \A s : Op(s)' = Op(s)
    BY <2>2, SameStatements
  <2>4. Nested'
    <3>1. \A l \in Stmts : ~IsOpen(f, 0, l)
      BY ProgramType DEF IsOpen, Exits, Ordered
    <3>2. AreOpen(f, 0, <<>>)
      BY <3>1 DEF AreOpen
    <3>3. AreOpen(f, 0, <<>>)'
      BY <2>2, <2>3, <3>2 DEF AreOpen, IsOpen, Occurrences
    <3>4. pos' - 1 = 0
      BY <2>2
    <3> QED
      BY <2>2, <3>3, <3>4 DEF Nested
  <2>5. \A l, s : Innermost(l, s)' <=> Innermost(l, s)
    BY <2>2, <2>3 DEF Innermost, Encloses, Occurrences
  <2>6. ASSUME NEW s \in Stmts, Op(s) = "exit", Reached(s)
        PROVE  (errorOccurred \/ Innermost(loopOf[s], s))'
    <3>1. PICK l : l = loopOf[s]
      OBVIOUS
    <3>2. errorOccurred \/ Innermost(l, s)'
      BY <2>5, <2>6, <3>1 DEF Exits, ExitsBound
    <3> QED
      BY <2>2, <3>1, <3>2 DEF Innermost
  <2>7. ExitsBound'
    BY <2>1, <2>2, <2>3, <2>6 DEF Exits, ExitsBound
  <2> QED
    BY <2>1, <2>4, <2>7 DEF Exits
<1>4. CASE Finish \/ UNCHANGED vars
  <2>1. /\ UNCHANGED <<prog, fn, pos, todo, order, loops, loopOf, errorOccurred>>
        /\ result' = result \/ (AtEnd /\ todo = {} /\ (result' = "program" => ~errorOccurred))
    BY <1>4 DEF Finish, vars
  <2>2. Stmts' = Stmts /\ \A s : Op(s)' = Op(s)
    BY <2>1, SameStatements
  <2>3. Ordered' /\ (\A s : Reached(s)' <=> Reached(s)) /\ (AtEnd' <=> AtEnd)
    BY <2>1 DEF Exits, Ordered, Reached, AtEnd
  <2>4. Nested'
    <3>1. \A f, n, ls : AreOpen(f, n, ls)' <=> AreOpen(f, n, ls)
      BY <2>1, SameStatements DEF AreOpen, IsOpen, Occurrences, Op
    <3> QED
      BY <2>1, <3>1 DEF Exits, Nested
  <2>5. \A l, s : Innermost(l, s)' <=> Innermost(l, s)
    BY <2>1, <2>2 DEF Innermost, Encloses, Occurrences
  <2>6. ASSUME NEW s \in Stmts, Op(s) = "exit", Reached(s)
        PROVE  (errorOccurred \/ Innermost(loopOf[s], s))'
    <3>1. PICK l : l = loopOf[s]
      OBVIOUS
    <3>2. errorOccurred \/ Innermost(l, s)'
      BY <2>5, <2>6, <3>1 DEF Exits, ExitsBound
    <3> QED
      BY <2>1, <3>1, <3>2 DEF Innermost
  <2>7. ExitsBound'
    BY <2>1, <2>2, <2>3, <2>6 DEF Exits, ExitsBound
  <2> QED
    BY <2>3, <2>4, <2>7 DEF Exits
<1> QED
  BY <1>1, <1>2, <1>3, <1>4 DEF Next

\* A program that is returned has no exit outside a loop, and every exit leaves
\* the innermost loop around it, whatever comes before, in it and between.
THEOREM ExitsLeaveInnermost == Spec => []ExitsLeaveInnermostLoop
<1>1. ASSUME Exits
      PROVE  ExitsLeaveInnermostLoop
  <2> SUFFICES ASSUME result = "program", NEW s \in Stmts, Op(s) = "exit"
               PROVE  Innermost(loopOf[s], s)
    BY DEF ExitsLeaveInnermostLoop, Innermost
  <2>1. ~errorOccurred /\ pos > Len(prog[fn]) /\ todo = {}
    BY <1>1 DEF Exits, ExitsBound, AtEnd
  <2>2. PICK k \in DOMAIN order : order[k] = s[1]
    BY <1>1, <2>1, ProgramType DEF Exits, Ordered
  <2>3. k = Len(order) => s[2] < pos
    <3>1. /\ fn = order[Len(order)] /\ s[2] \in 1 .. Len(prog[s[1]])
          /\ prog[fn] \in Seq(Items) /\ pos \in Nat
      BY <1>1, HereType, ProgramType DEF Exits, Ordered
    <3> QED
      BY <2>1, <2>2, <3>1
  <2> QED
    BY <1>1, <2>1, <2>2, <2>3 DEF Exits, ExitsBound, Reached
<1>2. Spec => []Exits
  BY InitExits, NextExits, PTL DEF Spec
<1> QED
  BY <1>1, <1>2, PTL
=============================================================================
