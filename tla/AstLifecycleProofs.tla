------------------------ MODULE AstLifecycleProofs -------------------------
(***************************************************************************)
(* Theorems about AstLifecycle, for every set of symbols and every input   *)
(* that derives from them.  They rest on the lemmas of AstHeapProofs.      *)
(*                                                                         *)
(* IInv is inductive: the heap is sound with what the parser's stack, the  *)
(* driver and the pass at work hold, what is alive is in one of their      *)
(* trees, and each of them has the trees that its next step takes apart.   *)
(*                                                                         *)
(* Last, the comparison.  Compares says how the tree under rewriting       *)
(* relates to the tree as it was: node for node it is the tree of images.  *)
(***************************************************************************)
EXTENDS AstLifecycle, AstHeapProofs

-----------------------------------------------------------------------------
(* What the run does to the heap, beyond the operations of AstHeap.        *)

InitializerSet(h, g, p, n, i) ==
  /\ Linked(h, g, p, n, {h[p].kids[i]})
  /\ Len(g[p].kids) = Len(h[p].kids) /\ g[p].kids[i] = n
  /\ \A j \in Slots(h, p) : j # i => g[p].kids[j] = h[p].kids[j]
\* setInitializer replaces one child.
LEMMA SetInitializerIs ==
  ASSUME NEW h, IsHeap(h), NEW p \in Nodes(h), NEW n \in Nodes(h), n # p,
         n \notin Children(h, p), Distinct(h[p].kids),
         NEW i \in Slots(h, p)
  PROVE  InitializerSet(h, SetInitializer(h, p, i, n), p, n, i)
<1>1. PICK g : g = SetInitializer(h, p, i, n)
  OBVIOUS
<1>2. PICK k \in Seq(Nat) : k = h[p].kids
  BY HeapFacts
<1>3. /\ i \in DOMAIN k /\ Distinct(k) /\ n \in Nat /\ n # NULL /\ n \notin Entries(k)
      /\ Children(h, p) = Entries(k) \ {NULL} /\ Slots(h, p) = DOMAIN k
  <2>1. n \in Nat /\ n # NULL
    BY HeapFacts
  <2> QED
    BY <1>2, <2>1 DEF Children, Slots, Entries
<1>4. PICK s : s = [k EXCEPT ![i] = n]
  OBVIOUS
<1>5. OtherEntry(k, s, i, n)
  BY <1>3, <1>4, EntryReplaced
<1>6. s \in Seq(Nat)
  BY <1>5 DEF OtherEntry
<1>7. g = [Adopt(h, p, n) EXCEPT ![p].kids = s]
  <2>1. Adopt(h, p, n)[p] = h[p]
    BY DEF Adopt, Nodes
  <2> QED
    BY <1>1, <1>2, <1>4, <2>1 DEF SetInitializer
<1>8. Adopting(h, g, p, n, s)
  BY <1>6, <1>7, AdoptIs
<1>9. g[p].kids = s
  BY <1>8 DEF Adopting
<1>10. Linked(h, g, p, n, {h[p].kids[i]})
  <2>1. Entries(g[p].kids) \ {NULL} = (Children(h, p) \ {h[p].kids[i]}) \cup {n} /\ Distinct(g[p].kids)
    BY <1>2, <1>3, <1>5, <1>9 DEF OtherEntry
  <2> QED
    BY <1>8, <2>1 DEF Adopting, Linked
<1>11. /\ Len(g[p].kids) = Len(h[p].kids) /\ g[p].kids[i] = n
       /\ \A j \in Slots(h, p) : j # i => g[p].kids[j] = h[p].kids[j]
  BY <1>2, <1>3, <1>5, <1>9 DEF OtherEntry
<1> QED
  BY <1>1, <1>10, <1>11 DEF InitializerSet

\* A constructor is given what its class accepts.
LEMMA ConstructFits ==
  ASSUME NEW h, IsHeap(h), NEW T \in SUBSET Nodes(h), AllFit(h, T), Whole(h),
         NEW class \in ClassNames, NEW tag \in Tags, NEW kids \in Seq(Nat),
         Entries(kids) \subseteq Nodes(h) \cup {NULL},
         NEW types, Constructs(class, types), DOMAIN types = DOMAIN kids, Len(types) = Len(kids),
         \A i \in DOMAIN kids : types[i] = TypeOf(h, kids[i]),
         NEW g, NEW p, Constructed(h, g, p, class, tag, kids)
  PROVE  AllFit(g, T \cup {p})
<1>1. /\ IsHeap(g) /\ \A n \in Nodes(h) : g[n].class = h[n].class /\ g[n].kids = h[n].kids
      /\ g[p] = NewNode(class, tag, kids)
  BY DEF Constructed
<1>2. g[p].class = class /\ g[p].kids = kids
  BY <1>1 DEF NewNode
<1>3. AllFit(g, T)
  BY <1>1, AllFitKept
<1>4. IsList(class) \/ Len(g[p].kids) = Len(Class[class].slots)
  BY <1>2 DEF Constructs
<1>5. ASSUME NEW i \in Slots(g, p)
      PROVE  IF g[p].kids[i] = NULL THEN Accepts(class, i).optional
             ELSE Permits(class, i, g[g[p].kids[i]].class)
  <2>1. i \in DOMAIN kids /\ g[p].kids[i] = kids[i] /\ i \in DOMAIN types
    BY <1>2, <1>5 DEF Slots
  <2>2. CASE kids[i] = NULL
    <3>1. types[i] = "null"
      BY <2>1, <2>2 DEF TypeOf
    <3> QED
      BY <2>1, <2>2, <3>1 DEF Constructs
  <2>3. CASE kids[i] # NULL
    <3>1. kids[i] \in Nodes(h)
      BY <2>1, <2>3 DEF Entries
    <3>2. types[i] = h[kids[i]].class /\ types[i] \in ClassNames
      BY <2>1, <2>3, <3>1, HeapFacts DEF TypeOf
    <3>3. types[i] # "null"
      BY <3>2, NullIsNoClass
    <3>4. types[i] \in Accepts(class, i).types /\ (class = "UDTFieldOuter" => types[1] \in Dotted)
      BY <2>1, <3>3 DEF Constructs
    <3>5. Permits(class, i, types[i])
      BY <3>4 DEF Permits, Dotted
    <3> QED
      BY <1>1, <2>1, <2>3, <3>1, <3>2, <3>5
  <2> QED
    BY <2>2, <2>3
<1>6. Fits(g, p)
  BY <1>2, <1>4, <1>5 DEF Fits
<1> QED
  BY <1>3, <1>6 DEF AllFit

\* An operator is replaced: the heap, its counts and its classes are all right then.
LEMMA OperatorSwapped ==
  ASSUME NEW h, NEW R, NEW c, Graph(h, R, c), AllFit(h, Live(h)),
         NEW op \in Live(h), h[op].class = "BinaryOp", NEW p \in Live(h), op \in Children(h, p),
         NEW kid, kid = h[op].kids[1],
         NEW h1, h1 = Construct(h, "UnaryOp", "not", <<kid>>), NEW u, u = Len(h1),
         NEW g, g = SwapChild(h1, p, op, u),
         NEW c2 \in Counts, \A m \in Nat \ {NULL} : c2[m] = c[m] + (IF m \in {op} THEN 1 ELSE 0)
  PROVE  /\ Swapped(h, g, p, op, u, kid) /\ Graph(g, R, c2) /\ AllFit(g, Live(g))
         /\ Swappable(h, p, op) # {} /\ SwappedKids(h, g, p, op, u, kid)
<1>1. IsHeap(h) /\ Whole(h) /\ Acyclic(h) /\ Live(h) \subseteq Nodes(h)
  BY HeapFacts DEF Graph
<1>2. Fits(h, op) /\ Fits(h, p)
  BY DEF AllFit
<1>3. /\ kid \in Live(h) /\ kid # NULL /\ kid # op /\ kid \in Children(h, op)
      /\ h[kid].class \in Expression
  BY <1>1, <1>2, Operands
<1>4. op \in Nat /\ op # NULL /\ kid \in Nat /\ p \in Nat /\ p # NULL
  BY <1>1, <1>3, HeapFacts
<1>5. PICK kids \in Seq(Nat) : kids = <<kid>>
  <2>1. <<kid>> \in Seq(Nat)
    BY <1>4
  <2> QED
    BY <2>1
<1>6. /\ Entries(kids) = {kid} /\ Distinct(kids) /\ DOMAIN kids = {1} /\ Len(kids) = 1
      /\ kids[1] = kid
  BY <1>5 DEF Entries, Distinct
<1>7. "UnaryOp" \in ClassNames /\ "not" \in Tags
  BY SomeClasses DEF Tags
<1>8. Constructed(h, h1, u, "UnaryOp", "not", kids)
  <2>1. Constructed(h, h1, Len(h) + 1, "UnaryOp", "not", kids)
    BY <1>1, <1>5, <1>7, ConstructIs
  <2> QED
    BY <2>1 DEF Constructed
<1>9. /\ IsHeap(h1) /\ Nodes(h1) = Nodes(h) \cup {u} /\ u \notin Nodes(h)
      /\ \A n \in Nodes(h) :
           /\ h1[n].class = h[n].class /\ h1[n].tag = h[n].tag
           /\ h1[n].kids = h[n].kids /\ h1[n].live = h[n].live
           /\ h1[n].parent = IF n = kid THEN u ELSE h[n].parent
      /\ h1[u] = NewNode("UnaryOp", "not", kids)
  BY <1>6, <1>8 DEF Constructed
<1>10. h1[u].class = "UnaryOp" /\ h1[u].kids = kids
  BY <1>9 DEF NewNode
<1>11. Graph(h1, (R \ {kid}) \cup {u}, c) /\ Owning(h, h1, u, kids)
  <2>1. Entries(kids) \subseteq Live(h) \cup {NULL}
    BY <1>3, <1>6
  <2>2. /\ Graph(h1, (R \ Entries(kids)) \cup {u}, c)
        /\ Owning(h, h1, u, kids)
    BY <1>6, <1>7, <1>8, <2>1, ConstructGraph
  <2> QED
    BY <1>6, <2>2
<1>12. kid \notin R /\ u \notin R
  <2>1. R \subseteq Live(h)
    BY DEF Graph
  <2> QED
    BY <1>1, <1>3, <1>9, <2>1, RootHasNoOwner
<1>13. Graph(h1, R \cup {u}, c)
  <2>1. R \ {kid} = R
    BY <1>12
  <2> QED
    BY <1>11, <2>1
<1>14. /\ Live(h1) = Live(h) \cup {u} /\ Children(h1, u) = {kid}
       /\ \A n \in Nodes(h) : Children(h1, n) = Children(h, n)
  BY <1>3, <1>6, <1>11 DEF Owning
<1>15. AllFit(h1, Live(h1))
  <2>1. PICK types : types = <<h[kid].class>>
    OBVIOUS
  <2>2. DOMAIN types = {1} /\ Len(types) = 1 /\ types[1] = h[kid].class /\ types[1] = TypeOf(h, kid)
    BY <1>3, <2>1 DEF TypeOf
  <2>3. ~IsList("UnaryOp") /\ Len(Class["UnaryOp"].slots) = 1
        /\ Accepts("UnaryOp", 1) = Required(Expression)
    BY WhatTheyAccept
  <2>4. types[1] # "null"
    BY <1>3, <2>2, NullIsNoClass, ExpressionsAreClasses
  <2>5. Constructs("UnaryOp", types)
    BY <1>3, <2>2, <2>3, <2>4 DEF Constructs, Required
  <2>6. Entries(kids) \subseteq Nodes(h) \cup {NULL}
    BY <1>1, <1>3, <1>6
  <2>7. AllFit(h1, Live(h) \cup {u})
    BY <1>1, <1>6, <1>7, <1>8, <2>2, <2>5, <2>6, ConstructFits
  <2> QED
    BY <1>14, <2>7
<1>16. PICK i \in Slots(h, p) : h[p].kids[i] = op
  BY DEF Children
<1>17. i \in Slots(h1, p) /\ h1[p].kids[i] = op /\ p \in Nodes(h1) /\ u \in Nodes(h1) /\ u # p
  BY <1>1, <1>9, <1>16 DEF Slots
<1>18. h[p].class \in ClassNames /\ h[p].kids \in Seq(Nat) /\ h1[p].class = h[p].class
  BY <1>1, <1>9, HeapFacts
<1>19. /\ Permits(h[p].class, i, "UnaryOp") /\ Accepts(h[p].class, i).swaps
       /\ Class[h[p].class].adopts
  <2>1. Permits(h[p].class, i, "BinaryOp")
    <3>1. IF op = NULL THEN Accepts(h[p].class, i).optional
          ELSE Permits(h[p].class, i, h[op].class)
      BY <1>2, <1>16 DEF Fits
    <3> QED
      BY <1>4, <3>1
  <2>2. PICK k \in Seq(Nat) : k = h[p].kids
    BY <1>18
  <2>3. i \in Nat /\ i \in 1 .. Len(k)
    BY <1>16, <2>2 DEF Slots
  <2>4. IsList(h[p].class) \/ i \in 1 .. Len(Class[h[p].class].slots)
    BY <1>2, <2>2, <2>3 DEF Fits
  <2> QED
    BY <1>18, <2>1, <2>3, <2>4, OperatorsAreSwapped DEF SwapsOperator
<1>20. u \notin Children(h1, p) /\ Distinct(h1[p].kids)
  <2>1. Children(h, p) \subseteq Live(h) /\ Distinct(h[p].kids)
    BY <1>1 DEF Whole
  <2> QED
    BY <1>1, <1>9, <1>14, <2>1
<1>21. SwapsAt(h1, g, p, op, u, i)
  <2>1. h1[u].class \in Accepts(h1[p].class, i).types
    BY <1>10, <1>18, <1>19 DEF Permits
  <2>2. Accepts(h1[p].class, i).swaps /\ Class[h1[p].class].adopts
    BY <1>18, <1>19
  <2> QED
    BY <1>4, <1>9, <1>17, <1>20, <2>1, <2>2, SwapChildIs
<1>22. Linked(h1, g, p, u, {op})
  BY <1>21 DEF SwapsAt
<1>23. /\ IsHeap(g) /\ Nodes(g) = Nodes(h1) /\ Len(g) = Len(h1)
       /\ \A m \in Nodes(h1) :
            /\ g[m].class = h1[m].class /\ g[m].tag = h1[m].tag /\ g[m].live = h1[m].live
            /\ m # p => g[m].kids = h1[m].kids
            /\ g[m].refs = h1[m].refs + (IF m \in {u} THEN 1 ELSE 0)
            /\ g[m].parent = IF m = u THEN p ELSE h1[m].parent
       /\ Entries(g[p].kids) \ {NULL} = (Children(h1, p) \ {op}) \cup {u}
       /\ Distinct(g[p].kids)
  BY <1>22 DEF Linked
<1>23a. \A m \in Nodes(h1) : /\ g[m].class = h1[m].class /\ g[m].tag = h1[m].tag
                             /\ g[m].parent = IF m = u THEN p ELSE h1[m].parent
  BY <1>23
<1>23b. \A n \in Nodes(h) : /\ h1[n].class = h[n].class /\ h1[n].tag = h[n].tag
                           /\ h1[n].parent = IF n = kid THEN u ELSE h[n].parent
  BY <1>9
<1>24. Children(g, p) = (Children(h1, p) \ {op}) \cup {u}
  BY <1>23 DEF Children, Slots, Entries
<1>25. Rewired(h1, g, p, {u}, {op})
  <2>1. \A n \in Nodes(h1) :
          /\ g[n].live = h1[n].live /\ (n # p => g[n].kids = h1[n].kids)
          /\ g[n].refs = h1[n].refs + (IF n \in {u} THEN 1 ELSE 0)
    BY <1>22, SMTT(30) DEF Linked
  <2>2. IsHeap(g) /\ Len(g) = Len(h1) /\ Distinct(g[p].kids)
    BY <1>22 DEF Linked
  <2> QED
    BY <1>24, <2>1, <2>2, SMTT(30) DEF Rewired
<1>26. RewiredEdges(h1, g, p, {u}, {op})
  BY <1>1, <1>9, <1>14, <1>25, RewiredOwners
<1>27. Live(g) = Live(h) \cup {u} /\ \A n \in Nodes(h1) : n # p => Children(g, n) = Children(h1, n)
  BY <1>14, <1>26 DEF RewiredEdges
<1>28. Swapped(h, g, p, op, u, kid)
  <2>1. /\ Children(g, p) = (Children(h, p) \ {op}) \cup {u}
        /\ Children(g, u) = {kid} /\ g[u].parent = p
    <3>1. Children(g, p) = (Children(h, p) \ {op}) \cup {u}
      BY <1>1, <1>14, <1>24
    <3>2. Children(g, u) = {kid}
      BY <1>14, <1>17, <1>27
    <3>3. g[u].parent = p
      BY <1>17, <1>23a
    <3> QED
      BY <3>1, <3>2, <3>3
  <2>2. ASSUME NEW n \in Nodes(h)
        PROVE  /\ g[n].class = h[n].class /\ g[n].tag = h[n].tag
               /\ g[n].parent = IF n = kid THEN u ELSE h[n].parent
               /\ n # p => Children(g, n) = Children(h, n)
    <3>1. n # u /\ n \in Nodes(h1)
      BY <1>9
    <3>2. n # p => Children(g, n) = Children(h, n)
      BY <1>9, <1>14, <1>27, <3>1
    <3>3. g[n].class = h[n].class /\ g[n].tag = h[n].tag
      BY <1>23a, <1>23b, <3>1
    <3>4. g[n].parent = h1[n].parent
      BY <1>23a, <3>1
    <3>5. h1[n].parent = IF n = kid THEN u ELSE h[n].parent
      BY <1>23b
    <3> QED
      BY <3>2, <3>3, <3>4, <3>5
  <2> QED
    <3>1. u \notin Nodes(h) /\ Nodes(g) = Nodes(h) \cup {u} /\ Live(g) = Live(h) \cup {u}
      BY <1>9, <1>23, <1>27
    <3> QED
      BY <2>1, <2>2, <3>1 DEF Swapped
<1>29. Acyclic(g)
  <2>1. PICK phi : phi = [n \in Live(g) |-> IF n = u THEN op ELSE n]
    OBVIOUS
  <2>2. \A n \in Live(g) : phi[n] \in Live(h)
    BY <1>27, <2>1
  <2>3. ASSUME NEW o \in Live(g), NEW m \in Live(g), m \in Children(g, o)
        PROVE  phi[m] \in Children(h, phi[o])
    <3>1. CASE o = u
      <4>1. m = kid /\ m # u
        <5>1. Children(g, u) = {kid} /\ kid \in Nodes(h) /\ u \notin Nodes(h)
          BY <1>1, <1>3, <1>28 DEF Swapped
        <5> QED
          BY <2>3, <3>1, <5>1
      <4>2. phi[o] = op /\ phi[m] = kid
        BY <2>1, <3>1, <4>1
      <4> QED
        BY <1>3, <4>2
    <3>2. CASE o = p
      <4>1. phi[o] = p /\ (m = u \/ m \in Children(h, p))
        BY <1>17, <1>28, <2>1, <2>3, <3>2 DEF Swapped
      <4>2. CASE m = u
        BY <2>1, <4>1, <4>2
      <4>3. CASE m # u
        BY <2>1, <4>1, <4>3
      <4> QED
        BY <4>2, <4>3
    <3>3. CASE o # u /\ o # p
      <4>1. o \in Nodes(h) /\ o \in Live(h)
        BY <1>1, <1>27, <3>3
      <4>2. m \in Children(h, o) /\ phi[o] = o
        BY <1>28, <2>1, <2>3, <3>3, <4>1 DEF Swapped
      <4>3. m \in Live(h) /\ m # u
        BY <1>1, <1>9, <4>1, <4>2 DEF Whole
      <4> QED
        BY <2>1, <4>2, <4>3
    <3> QED
      BY <3>1, <3>2, <3>3
  <2> QED
    BY <1>1, <2>2, <2>3, AcyclicImage
<1>30. Graph(g, R, c2)
  <2>1. PICK A, D : A = {u} /\ D = {op}
    OBVIOUS
  <2>2. A \in SUBSET Live(h1) /\ D \in SUBSET Children(h1, p) /\ A \cap Children(h1, p) = {}
    BY <1>1, <1>14, <1>20, <2>1
  <2>3. p \in Live(h1) /\ Rewired(h1, g, p, A, D)
        /\ \A m \in Nat \ {NULL} : c2[m] = c[m] + (IF m \in D THEN 1 ELSE 0)
    BY <1>14, <1>25, <2>1
  <2>4. Graph(g, (R \cup {u}) \ A, c2)
    BY <1>13, <1>29, <2>2, <2>3, RewiredGraph
  <2>5. (R \cup {u}) \ A = R
    BY <1>12, <2>1
  <2> QED
    BY <2>4, <2>5
<1>31. AllFit(g, Live(g))
  <2>1. \A m \in Nodes(h1) : g[m].class = h1[m].class /\ (m # p => g[m].kids = h1[m].kids)
    BY <1>22, SMTT(30) DEF Linked
  <2>2. u # NULL /\ Permits(h1[p].class, i, g[u].class)
    <3>1. u # NULL
      BY <1>9, HeapFacts
    <3>2. g[u].class = "UnaryOp"
      BY <1>10, <1>17, <1>23
    <3> QED
      BY <1>18, <1>19, <3>1, <3>2
  <2>3. /\ DOMAIN g[p].kids = DOMAIN h1[p].kids /\ Len(g[p].kids) = Len(h1[p].kids)
        /\ g[p].kids[i] = u /\ \A j \in Slots(h1, p) : j # i => g[p].kids[j] = h1[p].kids[j]
    BY <1>21 DEF SwapsAt
  <2>4. Live(h1) \in SUBSET Nodes(h1) /\ p \in Live(h1) /\ Whole(h1)
    BY <1>9, <1>13, <1>14, HeapFacts DEF Graph
  <2>5. PICK T \in SUBSET Nodes(h1) : T = Live(h1)
    BY <2>4
  <2>6. p \in T /\ AllFit(h1, T)
    BY <1>15, <2>4, <2>5
  <2>7. IsHeap(h1) /\ Whole(h1) /\ i \in Slots(h1, p)
    BY <1>9, <1>17, <2>4
  <2>8. /\ \A m \in Nodes(h1) : g[m].class = h1[m].class
        /\ \A m \in Nodes(h1) : m # p => g[m].kids = h1[m].kids
    BY <2>1
  <2>9. KidReplaced(h1, g, p, u, i)
    BY <2>2, <2>3, <2>7, <2>8 DEF KidReplaced
  <2>10. AllFit(g, T)
    BY <2>6, <2>7, <2>9, ReplaceFits
  <2> QED
    BY <1>14, <1>27, <2>5, <2>10
<1>32. Swappable(h, p, op) # {}
  BY <1>16, <1>19 DEF Swappable
<1>33. SwappedKids(h, g, p, op, u, kid)
  <2>1. g[u].class = "UnaryOp" /\ g[u].tag = "not" /\ g[u].kids = <<kid>>
    <3>1. h1[u].class = "UnaryOp" /\ h1[u].tag = "not" /\ h1[u].kids = <<kid>>
      BY <1>5, <1>9 DEF NewNode
    <3> QED
      BY <1>17, <1>23, <3>1
  <2>2. ASSUME NEW n \in Nodes(h), n # p
        PROVE  g[n].kids = h[n].kids
    <3>1. h1[n].kids = h[n].kids /\ n \in Nodes(h1)
      BY <1>9, <2>2
    <3>2. \A m \in Nodes(h1) : m # p => g[m].kids = h1[m].kids
      BY <1>23
    <3> QED
      BY <2>2, <3>1, <3>2
  <2>3. PICK k \in Seq(Nat) : k = h[p].kids
    BY <1>18
  <2>4. PICK s \in Seq(Nat) : s = g[p].kids
    BY <1>17, <1>23, HeapFacts
  <2>5. /\ DOMAIN s = DOMAIN k /\ s[i] = u /\ k[i] = op /\ i \in DOMAIN k
        /\ \A j \in DOMAIN k : j # i => s[j] = k[j]
    <3>1. h1[p].kids = k
      BY <1>1, <1>9, <2>3
    <3> QED
      BY <1>16, <1>21, <2>3, <2>4, <3>1 DEF SwapsAt, Slots
  <2>6. Distinct(k)
    BY <1>1, <2>3 DEF Whole
  <2>7. \A j \in DOMAIN k : k[j] = op => j = i
    BY <1>4, <2>5, <2>6 DEF Distinct
  <2>8. s = [j \in DOMAIN k |-> IF k[j] = op THEN u ELSE k[j]]
    <3>1. s = [j \in DOMAIN s |-> s[j]]
      BY <2>4, SeqIsMap
    <3> QED
      BY <2>5, <2>7, <3>1
  <2> QED
    BY <2>1, <2>2, <2>3, <2>4, <2>8 DEF SwappedKids
<1> QED
  BY <1>28, <1>30, <1>31, <1>32, <1>33

-----------------------------------------------------------------------------
(* The invariant.                                                          *)

\* What program_, block, ast_, the gatherer and the pending releases hold.
Is(x, n) == IF n = x THEN 1 ELSE 0
Holding(p, b, a, g, l) ==
  [n \in Nat |-> Is(p, n) + Is(b, n) + Is(a, n) + Occ(g, n) + Occ(l, n)]
Outside == Holding(program, block, ast, gathered, later)
Standing == Roots \ {NULL}
\* Statements that merge() has moved are still in the block it takes them from.
MovedOnes ==
  IF phase = "returned" THEN {<<block, heap[block].kids[i]>> : i \in 1 .. moved} ELSE {}
Sound(h, T, R, c, odd) == Graph(h, R, c) /\ Forest(h, T, R, odd) /\ AllFit(h, T)

Typed ==
  /\ input \in Inputs /\ fault = "none"
  /\ stack \in Seq(Nat) /\ later \in Seq(Nat) /\ gathered \in Seq(Nat) /\ todo \in Seq(Nat)
  /\ program \in Nat /\ block \in Nat /\ ast \in Nat /\ next \in Nat \ {0}
\* What is on bison's stack is on it once and nowhere else, but for the program.
StackIsRaw ==
  /\ Distinct(stack)
  /\ \A s \in Entries(stack) \ {NULL} : s \notin Entries(later) /\ s # ast
Stages ==
  /\ phase \in {"parse", "discard"} \/ stack = <<>>
  /\ phase \in {"parse", "discard", "accepted"} \/ program = NULL
  /\ phase = "returned" \/ block = NULL
  /\ phase = "returned" \/ moved = 0
  /\ phase \in {"gather", "rewrite"} \/ gathered = <<>>
  /\ phase \in {"parse", "accepted", "returned"} => f \in DOMAIN input
  /\ phase \in {"parsed", "group", "gather", "rewrite"} => ast # NULL
  /\ \A n \in {program, block, ast} \ {NULL} : heap[n].class = "Block"
  /\ program = NULL \/ program # ast
SymbolsOf(k) == Symbols[input[f]][k]
Parsing ==
  phase = "parse" =>
    /\ pc \in 1 .. Len(input[f]) + 1
    /\ Len(stack) = Len(SymbolsOf(pc))
    /\ \A i \in DOMAIN stack : TypeOf(heap, stack[i]) = SymbolsOf(pc)[i]
    /\ IF pc = Len(input[f]) + 1 THEN stack = <<program>> ELSE program = NULL
Returning ==
  phase = "returned" =>
    /\ later = <<>> /\ block # NULL /\ block # ast
    /\ moved \in 0 .. Len(heap[block].kids) /\ (ast = NULL => moved = 0)
    /\ \A i \in 1 .. moved : heap[block].kids[i] \in Children(heap, ast)
\* No node is visited twice: V are those that have been.
Gathering(V) ==
  phase = "gather" =>
    /\ later = <<>> /\ next = 1
    /\ Distinct(todo) /\ Entries(todo) \subseteq Live(heap) \cup {NULL}
    /\ V \subseteq Live(heap) /\ V \cap Entries(todo) = {}
    /\ \A m \in (V \cup Entries(todo)) \ {NULL} : m = ast \/ \E o \in V : m \in Children(heap, o)
    /\ Entries(gathered) \subseteq V /\ Distinct(gathered)
    /\ \A n \in Entries(gathered) : IsBitwiseNot(heap, n)
Replaced == {gathered[k] : k \in {j \in DOMAIN gathered : j < next}}
Rewriting ==
  phase = "rewrite" =>
    /\ Distinct(gathered) /\ NULL \notin Entries(gathered)
    /\ \A n \in Entries(gathered) : IsBitwiseNot(heap, n)
    /\ Entries(later) \subseteq Entries(gathered)
    /\ AllFit(heap, Live(heap))
    /\ \A o \in Live(heap) \ Replaced : \A m \in Children(heap, o) : heap[m].parent = o
    /\ \A k \in DOMAIN gathered : k >= next =>
         /\ heap[gathered[k]].parent \in Live(heap)
         /\ gathered[k] \in Children(heap, heap[gathered[k]].parent)
Covered(T) ==
  /\ phase = "gather" => Live(heap) = T
  /\ phase = "rewrite" => T \cap Replaced = {}
Holds(T, V) ==
  /\ Typed /\ StackIsRaw /\ Stages /\ Parsing /\ Returning /\ Gathering(V) /\ Rewriting
  /\ Sound(heap, T, Standing, Outside, MovedOnes) /\ Covered(T)
IInv == \E T, V : Holds(T, V)

-----------------------------------------------------------------------------
CountedBy(c, p, b, a, g, l) ==
  /\ c \in Counts
  /\ \A n \in Nat : /\ c[n] = Is(p, n) + Is(b, n) + Is(a, n) + Occ(g, n) + Occ(l, n)
                    /\ Occ(g, n) \in Nat /\ Occ(l, n) \in Nat
\* What the held references are, node by node.
LEMMA HoldingIs ==
  ASSUME NEW p \in Nat, NEW b \in Nat, NEW a \in Nat, NEW g \in Seq(Nat), NEW l \in Seq(Nat)
  PROVE  CountedBy(Holding(p, b, a, g, l), p, b, a, g, l)
<1>1. \A n \in Nat : Occ(g, n) \in Nat /\ Occ(l, n) \in Nat
  BY PlacesAreFinite
<1>2. \A n \in Nat : Is(p, n) \in Nat /\ Is(b, n) \in Nat /\ Is(a, n) \in Nat
  BY DEF Is
<1>3. ASSUME NEW n \in Nat
      PROVE  Is(p, n) + Is(b, n) + Is(a, n) + Occ(g, n) + Occ(l, n) \in Nat
  <2>1. PICK i, j, k, x, y \in Nat :
          i = Is(p, n) /\ j = Is(b, n) /\ k = Is(a, n) /\ x = Occ(g, n) /\ y = Occ(l, n)
    BY <1>1, <1>2
  <2>2. i + j + k + x + y \in Nat
    OBVIOUS
  <2> QED
    BY <2>1, <2>2
<1>4. Holding(p, b, a, g, l) \in Counts
  BY <1>3 DEF Holding, Counts
<1>5. \A n \in Nat : Holding(p, b, a, g, l)[n] = Is(p, n) + Is(b, n) + Is(a, n) + Occ(g, n) + Occ(l, n)
  BY DEF Holding
<1> QED
  BY <1>1, <1>4, <1>5 DEF CountedBy

\* References held from outside the heap.
LEMMA OutsideIs ==
  ASSUME Typed
  PROVE  CountedBy(Outside, program, block, ast, gathered, later)
  BY HoldingIs DEF Typed, Outside

\* Graph depends on how often a node is held only.
LEMMA SameReferences ==
  ASSUME NEW h, NEW R, NEW c, Graph(h, R, c), NEW c2 \in Counts, \A n \in Nat \ {NULL} : c2[n] = c[n]
  PROVE  Graph(h, R, c2)
<1>1. \A n \in Live(h) : n \in Nat \ {NULL}
  BY HeapFacts DEF Graph
<1>2. \A n \in Live(h) : c2[n] = c[n]
  BY <1>1
<1> QED
  BY <1>2 DEF Graph

\* So does Sound.
LEMMA SoundWith ==
  ASSUME NEW h, NEW T, NEW R, NEW c, NEW odd, Sound(h, T, R, c, odd),
         NEW c2 \in Counts, \A n \in Nat \ {NULL} : c2[n] = c[n]
  PROVE  Sound(h, T, R, c2, odd)
  BY SameReferences DEF Sound

\* Whatever is alive can be reached from a root or from what is held.
LEMMA Reachable ==
  ASSUME NEW h, NEW R, NEW c, Graph(h, R, c)
  PROVE  \A n \in Live(h) : \E r \in Live(h) : (r \in R \/ c[r] # 0) /\ n \in Below(h, r)
<1> DEFINE Start == {r \in Live(h) : r \in R \/ c[r] # 0}
           Lost == {n \in Live(h) : \A r \in Start : n \notin Below(h, r)}
<1> SUFFICES Lost = {}
  OBVIOUS
<1>1. IsHeap(h) /\ Whole(h) /\ Acyclic(h)
  BY DEF Graph
<1>2. SUFFICES ASSUME Lost # {} PROVE FALSE
  OBVIOUS
<1>3. PICK m \in Lost : \A o \in Lost : m \notin Children(h, o)
  BY <1>1, <1>2 DEF Acyclic
<1>4. m \in Live(h) /\ m \notin Start
  <2>1. ASSUME m \in Start PROVE FALSE
    <3>1. m \in Below(h, m)
      BY <1>1, <1>3, HeapFacts, BelowFacts
    <3> QED
      BY <1>3, <2>1, <3>1
  <2> QED
    BY <1>3, <2>1
<1>5. Owners(h, m) = {}
  <2>1. ASSUME NEW o \in Owners(h, m) PROVE FALSE
    <3>1. o \in Live(h) /\ m \in Children(h, o)
      BY <2>1 DEF Owners
    <3>2. o \notin Lost
      BY <1>3, <3>1
    <3>3. PICK r \in Start : o \in Below(h, r)
      BY <3>1, <3>2
    <3>4. Closed(h, Below(h, r))
      BY <1>1, <3>3, BelowFacts
    <3>5. m \in Below(h, r)
      BY <3>1, <3>3, <3>4 DEF Closed
    <3> QED
      BY <1>3, <3>3, <3>5
  <2> QED
    BY <2>1
<1>6. c[m] = 0 /\ m \notin R
  BY <1>4
<1>7. h[m].refs = Cardinality(Owners(h, m)) + c[m]
  BY <1>4 DEF Graph
<1>8. h[m].refs = 0
  BY <1>5, <1>6, <1>7, FS_EmptySet
<1> QED
  BY <1>4, <1>6, <1>8 DEF Graph

-----------------------------------------------------------------------------
(* What a reduction pops and what it leaves.                               *)

SplitInto(s, n, rest, top, S) ==
  /\ top \in Seq(S) /\ Len(top) = n /\ DOMAIN top = 1 .. n
  /\ rest \in Seq(S) /\ Len(rest) = Len(s) - n /\ DOMAIN rest = 1 .. (Len(s) - n)
  /\ Len(s) - n \in Nat
  /\ \A i \in 1 .. n : top[i] = s[Len(s) - n + i]
  /\ \A i \in 1 .. (Len(s) - n) : rest[i] = s[i]
\* What is popped and what is left are parts of the stack.
LEMMA Split ==
  ASSUME NEW S, NEW s \in Seq(S), NEW n \in Nat, n <= Len(s)
  PROVE  SplitInto(s, n, Under(s, n), Top(s, n), S)
<1>1. PICK L \in Nat : L = Len(s)
  OBVIOUS
<1>2. L - n \in Nat
  BY <1>1
<1>3. /\ SubSeq(s, L - n + 1, L) \in Seq(S) /\ Len(SubSeq(s, L - n + 1, L)) = n
      /\ \A i \in 1 .. n : SubSeq(s, L - n + 1, L)[i] = s[L - n + i]
  <2>1. L - n + 1 \in 1 .. L + 1 /\ L \in 0 .. L
    BY <1>2
  <2>2. L - (L - n + 1) + 1 = n
    BY <1>2
  <2>3. PICK d \in Nat : d = L - n
    BY <1>2
  <2>4. /\ SubSeq(s, d + 1, L) \in Seq(S) /\ Len(SubSeq(s, d + 1, L)) = n
        /\ \A i \in 1 .. n : SubSeq(s, d + 1, L)[i] = s[d + i]
    BY <1>1, <2>2, <2>3
  <2> QED
    BY <2>3, <2>4
<1>4. /\ SubSeq(s, 1, L - n) \in Seq(S) /\ Len(SubSeq(s, 1, L - n)) = L - n
      /\ \A i \in 1 .. (L - n) : SubSeq(s, 1, L - n)[i] = s[i]
  <2>1. PICK d \in Nat : d = L - n
    BY <1>2
  <2>2. /\ SubSeq(s, 1, d) \in Seq(S) /\ Len(SubSeq(s, 1, d)) = d
        /\ \A i \in 1 .. d : SubSeq(s, 1, d)[i] = s[i]
    BY <1>1, <2>1
  <2> QED
    BY <2>1, <2>2
<1>5. PICK t \in Seq(S), r \in Seq(S) : t = Top(s, n) /\ r = Under(s, n)
  BY <1>1, <1>3, <1>4 DEF Top, Under
<1>6. /\ Len(t) = n /\ \A i \in 1 .. n : t[i] = s[L - n + i]
      /\ Len(r) = L - n /\ \A i \in 1 .. (L - n) : r[i] = s[i]
  BY <1>1, <1>3, <1>4, <1>5 DEF Top, Under
<1>7. DOMAIN t = 1 .. n /\ DOMAIN r = 1 .. (L - n)
  BY <1>5, <1>6
<1> QED
  BY <1>1, <1>2, <1>5, <1>6, <1>7 DEF SplitInto

\* The entries of a sequence that is split.
SplitEntries(s, rest, top) ==
  /\ Entries(s) = Entries(rest) \cup Entries(top)
  /\ Distinct(s) =>
       Distinct(rest) /\ Distinct(top) /\ \A x \in Entries(top) : x \in Entries(rest) => x = NULL
\* Every entry is in one of the parts, and if it is in one only it is not in the other.
LEMMA EntriesOfSplit ==
  ASSUME NEW S, NEW s \in Seq(S), NEW n \in Nat, NEW rest, NEW top, SplitInto(s, n, rest, top, S)
  PROVE  SplitEntries(s, rest, top)
<1>1. PICK L \in Nat, d \in Nat : L = Len(s) /\ d = L - n
  BY DEF SplitInto
<1>2. /\ DOMAIN top = 1 .. n /\ \A i \in 1 .. n : top[i] = s[d + i]
      /\ DOMAIN rest = 1 .. d /\ \A i \in 1 .. d : rest[i] = s[i]
      /\ DOMAIN s = 1 .. d + n
  BY <1>1 DEF SplitInto
<1>3. \A i \in 1 .. d + n : i \in 1 .. d \/ (i - d \in 1 .. n /\ d + (i - d) = i)
  BY <1>1
<1>4. \A i \in 1 .. n : d + i \in 1 .. d + n
  BY <1>1
<1>5. \A i \in 1 .. d : i \in 1 .. d + n
  BY <1>1
<1>6. Entries(s) = Entries(rest) \cup Entries(top)
  <2>1. ASSUME NEW x \in Entries(s) PROVE x \in Entries(rest) \cup Entries(top)
    <3>1. PICK i \in 1 .. d + n : s[i] = x
      BY <1>2 DEF Entries
    <3>2. CASE i \in 1 .. d
      BY <1>2, <3>1, <3>2 DEF Entries
    <3>3. CASE i - d \in 1 .. n /\ d + (i - d) = i
      BY <1>2, <3>1, <3>3 DEF Entries
    <3> QED
      BY <1>3, <3>1, <3>2, <3>3
  <2>2. ASSUME NEW x \in Entries(rest) PROVE x \in Entries(s)
    BY <1>2, <1>5 DEF Entries
  <2>3. ASSUME NEW x \in Entries(top) PROVE x \in Entries(s)
    BY <1>2, <1>4 DEF Entries
  <2> QED
    BY <2>1, <2>2, <2>3
<1>7. ASSUME Distinct(s)
      PROVE  Distinct(rest) /\ Distinct(top) /\ \A x \in Entries(top) : x \in Entries(rest) => x = NULL
  <2>1. Distinct(rest)
    BY <1>2, <1>5, <1>7 DEF Distinct
  <2>2. Distinct(top)
    <3> SUFFICES ASSUME NEW i \in 1 .. n, NEW j \in 1 .. n, top[i] = top[j], top[i] # NULL
                 PROVE  i = j
      BY <1>2 DEF Distinct
    <3>1. d + i = d + j
      BY <1>2, <1>4, <1>7 DEF Distinct
    <3> QED
      BY <3>1
  <2>3. ASSUME NEW i \in 1 .. n, NEW j \in 1 .. d, top[i] = rest[j]
        PROVE  top[i] = NULL
    <3>1. d + i # j
      OBVIOUS
    <3> QED
      BY <1>2, <1>4, <1>5, <1>7, <2>3, <3>1 DEF Distinct
  <2> QED
    BY <1>2, <2>1, <2>2, <2>3 DEF Entries
<1> QED
  BY <1>6, <1>7 DEF SplitEntries

\* The grammar: which rule is reduced, and what is on the stack then.
PoppedTypes == Top(SymbolsOf(pc), Rule.pops)
AtRule ==
  /\ Rule \in Rules /\ Rule.pops \in Nat /\ Rule.pops <= Len(stack)
  /\ Reduces(Rule, PoppedTypes)
  /\ SymbolsOf(pc + 1) = Append(Under(SymbolsOf(pc), Rule.pops), Becomes(Rule, PoppedTypes))
  /\ SymbolsOf(pc) \in Seq(Types) /\ Len(SymbolsOf(pc)) = Len(stack)
  /\ Rule.do = "program" => pc = Len(input[f]) /\ Len(stack) = 1
  /\ Rule.do # "program" => pc # Len(input[f]) \/ (pc = 1 /\ Rule.do = "null")
  /\ pc \in Nat /\ Len(input[f]) \in Nat /\ pc \in 1 .. Len(input[f])
StackAtRule ==
  /\ SplitInto(stack, Rule.pops, Rest, Popped, Nat)
  /\ SplitInto(SymbolsOf(pc), Rule.pops, Under(SymbolsOf(pc), Rule.pops), PoppedTypes, Types)
  /\ \A i \in 1 .. Rule.pops : PoppedTypes[i] = TypeOf(heap, Popped[i])
  /\ SplitEntries(stack, Rest, Popped) /\ Distinct(stack)
  /\ program = NULL /\ block = NULL /\ gathered = <<>> /\ later = <<>>
  /\ Standing = (Entries(stack) \cup {ast}) \ {NULL}
  /\ \A s \in Entries(stack) \ {NULL} : s # ast

\* The file that is being parsed is a parse.
LEMMA TheParse ==
  ASSUME NEW T, NEW V, Holds(T, V), phase = "parse"
  PROVE  IsParse(input[f], Symbols[input[f]]) /\ f \in DOMAIN input
<1>1. f \in DOMAIN input /\ input \in Inputs
  BY DEF Holds, Stages, Typed
<1>2. input \in Seq(DOMAIN Symbols)
  BY <1>1, InputsAreParses
<1>3. input[f] \in DOMAIN Symbols
  BY <1>1, <1>2
<1> QED
  BY <1>1, <1>3, InputsAreParses

\* At a reduction, what is popped has the classes that the grammar says.
LEMMA AtRuleIs ==
  ASSUME NEW T, NEW V, Holds(T, V), In("parse"), pc <= Len(input[f])
  PROVE  AtRule /\ StackAtRule
<1>1. phase = "parse" /\ later = <<>>
  BY DEF In
<1>2. PICK file, symbols : file = input[f] /\ symbols = Symbols[input[f]]
  OBVIOUS
<1>3. IsParse(file, symbols)
  BY <1>1, <1>2, TheParse
<1>4. /\ file \in Seq(Rules) /\ symbols \in Seq(Seq(Types)) /\ Len(symbols) = Len(file) + 1
      /\ Len(file) \in Nat
  BY <1>3 DEF IsParse
<1>5. /\ pc \in 1 .. Len(file) + 1 /\ Len(stack) = Len(symbols[pc])
      /\ \A i \in DOMAIN stack : TypeOf(heap, stack[i]) = symbols[pc][i]
      /\ IF pc = Len(file) + 1 THEN stack = <<program>> ELSE program = NULL
  BY <1>1, <1>2 DEF Holds, Parsing, SymbolsOf
<1>6. pc \in 1 .. Len(file) /\ pc \in DOMAIN file /\ pc \in DOMAIN symbols /\ program = NULL /\ pc \in Nat
  BY <1>2, <1>4, <1>5
<1>7. PICK rule : rule = file[pc]
  OBVIOUS
<1>8. rule \in Rules /\ symbols[pc] \in Seq(Types)
  BY <1>4, <1>6, <1>7
<1>9. rule.pops \in Nat
  BY <1>8 DEF Rules
<1>10. /\ rule.pops <= Len(symbols[pc]) /\ Reduces(rule, Top(symbols[pc], rule.pops))
       /\ symbols[pc + 1] = Append(Under(symbols[pc], rule.pops), Becomes(rule, Top(symbols[pc], rule.pops)))
       /\ rule.do = "program" => pc = Len(file) /\ Len(symbols[pc]) = 1
  BY <1>3, <1>6, <1>7 DEF IsParse
<1>11. rule.do # "program" => pc # Len(file) \/ (pc = 1 /\ rule.do = "null")
  BY <1>3, <1>6, <1>7 DEF IsParse
<1>12. Rule = rule /\ SymbolsOf(pc) = symbols[pc] /\ SymbolsOf(pc + 1) = symbols[pc + 1]
  BY <1>2, <1>7 DEF Rule, SymbolsOf
<1>13. AtRule
  BY <1>2, <1>4, <1>5, <1>6, <1>8, <1>9, <1>10, <1>11, <1>12 DEF AtRule, PoppedTypes
<1>14. stack \in Seq(Nat) /\ Distinct(stack) /\ (\A s \in Entries(stack) \ {NULL} : s # ast)
  BY DEF Holds, Typed, StackIsRaw
<1>15. block = NULL /\ gathered = <<>>
  BY <1>1 DEF Holds, Stages
<1>16. Standing = (Entries(stack) \cup {ast}) \ {NULL}
  BY <1>6, <1>15 DEF Standing, Roots, Entries
<1>17. SplitInto(stack, Rule.pops, Rest, Popped, Nat)
  BY <1>5, <1>9, <1>10, <1>12, <1>14, Split DEF Rest, Popped
<1>18. SplitInto(SymbolsOf(pc), Rule.pops, Under(SymbolsOf(pc), Rule.pops), PoppedTypes, Types)
  BY <1>8, <1>9, <1>10, <1>12, Split DEF PoppedTypes
<1>19. SplitEntries(stack, Rest, Popped)
  BY <1>9, <1>12, <1>14, <1>17, EntriesOfSplit
<1>20. ASSUME NEW i \in 1 .. Rule.pops
       PROVE  PoppedTypes[i] = TypeOf(heap, Popped[i])
  <2>1. PICK j : j = Len(stack) - Rule.pops + i
    OBVIOUS
  <2>2. PICK L \in Nat, n \in Nat : L = Len(stack) /\ n = Rule.pops /\ L - n \in Nat
    BY <1>9, <1>12, <1>14, <1>17 DEF SplitInto
  <2>3. j \in 1 .. L /\ DOMAIN stack = 1 .. L
    <3>1. j = L - n + i /\ i \in 1 .. n
      BY <2>1, <2>2
    <3>2. j \in 1 .. L
      BY <2>2, <3>1
    <3>3. DOMAIN stack = 1 .. L
      BY <1>14, <2>2
    <3> QED
      BY <3>2, <3>3
  <2>4. Popped[i] = stack[j]
    <3>1. \A m \in 1 .. Rule.pops : Popped[m] = stack[Len(stack) - Rule.pops + m]
      BY <1>17 DEF SplitInto
    <3> QED
      BY <2>1, <3>1
  <2>5. PoppedTypes[i] = SymbolsOf(pc)[j]
    <3>1. \A m \in 1 .. Rule.pops : PoppedTypes[m] = SymbolsOf(pc)[Len(SymbolsOf(pc)) - Rule.pops + m]
      BY <1>18 DEF SplitInto
    <3>2. Len(SymbolsOf(pc)) = Len(stack)
      BY <1>5, <1>12
    <3> QED
      BY <2>1, <3>1, <3>2
  <2> QED
    BY <1>5, <1>12, <2>3, <2>4, <2>5
<1>21. StackAtRule
  BY <1>1, <1>6, <1>14, <1>15, <1>16, <1>17, <1>18, <1>19, <1>20 DEF StackAtRule
<1> QED
  BY <1>13, <1>21

-----------------------------------------------------------------------------
\* What a reduction has to show for the invariant to hold after it.
ReductionOf(h, value, dropped, T, R, c) ==
  /\ Sound(h, T, R, c, {})
  /\ R = (Standing \ Entries(Popped)) \cup ({value} \ {NULL})
  /\ value \in Nat /\ (value = NULL \/ value \in Entries(Popped) \/ value \notin Nodes(heap))
  /\ dropped \in Seq(Nat) /\ Entries(dropped) \cap R = {}
  /\ \A n \in Nodes(heap) : h[n].class = heap[n].class
  /\ \A n \in Nat \ {NULL} : c[n] = Outside[n] + Occ(dropped, n)
  /\ TypeOf(h, value) = Becomes(Rule, PoppedTypes)

\* A reduction that is one of these keeps the invariant.
LEMMA ReductionKeeps ==
  ASSUME NEW T, NEW V, Holds(T, V), In("parse"), pc <= Len(input[f]), Rule.do # "program",
         NEW h, NEW value, NEW dropped, NEW T2, NEW R, NEW c,
         ReductionOf(h, value, dropped, T2, R, c), Reduced(h, value, dropped)
  PROVE  Holds(T2, V)'
<1>1. AtRule /\ StackAtRule
  BY AtRuleIs
<1>2. phase = "parse" /\ later = <<>>
  BY DEF In
<1>3. /\ heap' = h /\ stack' = Append(Rest, value) /\ pc' = pc + 1 /\ later' = dropped
      /\ input' = input /\ ast' = ast /\ phase' = phase /\ fault' = fault /\ f' = f
      /\ program' = program /\ block' = block /\ moved' = moved /\ todo' = todo
      /\ gathered' = gathered /\ next' = next
  BY DEF Reduced, pass
<1>4. /\ Typed /\ Stages /\ Sound(heap, T, Standing, Outside, MovedOnes)
  BY DEF Holds
<1>5. /\ value \in Nat /\ dropped \in Seq(Nat) /\ R = (Standing \ Entries(Popped)) \cup ({value} \ {NULL})
  BY DEF ReductionOf
<1>6. Rest \in Seq(Nat)
  BY <1>1 DEF StackAtRule, SplitInto
<1>7. Typed'
  <2>1. Append(Rest, value) \in Seq(Nat)
    BY <1>5, <1>6
  <2> QED
    BY <1>3, <1>4, <1>5, <2>1 DEF Typed
<1>8. /\ Entries(stack) = Entries(Rest) \cup Entries(Popped) /\ Distinct(Rest)
      /\ \A x \in Entries(Popped) : x \in Entries(Rest) => x = NULL
  BY <1>1 DEF StackAtRule, SplitEntries
<1>9. /\ Standing = (Entries(stack) \cup {ast}) \ {NULL}
      /\ \A s \in Entries(stack) \ {NULL} : s # ast
  BY <1>1 DEF StackAtRule
<1>10. Standing \subseteq Nodes(heap)
  BY <1>4, HeapFacts DEF Sound, Graph
<1>11. value = NULL \/ (value \notin Entries(Rest) /\ value # ast)
  <2>1. CASE value \in Entries(Popped)
    BY <1>8, <1>9, <2>1
  <2>2. CASE value \notin Nodes(heap) /\ value # NULL
    BY <1>8, <1>9, <1>10, <2>2
  <2> QED
    BY <2>1, <2>2 DEF ReductionOf
<1>12. Entries(Append(Rest, value)) = Entries(Rest) \cup {value} /\ Distinct(Append(Rest, value))
  <2>1. PICK s \in Seq(Nat), L \in Nat : s = Rest /\ L = Len(s)
    BY <1>6
  <2>2. /\ Len(Append(s, value)) = L + 1 /\ DOMAIN Append(s, value) = 1 .. L + 1
        /\ DOMAIN s = 1 .. L
        /\ \A i \in 1 .. L : Append(s, value)[i] = s[i]
        /\ Append(s, value)[L + 1] = value
    BY <1>5, <2>1
  <2>3. L + 1 \notin 1 .. L /\ 1 .. L + 1 = (1 .. L) \cup {L + 1}
    OBVIOUS
  <2> QED
    BY <1>8, <1>11, <2>1, <2>2, <2>3 DEF Entries, Distinct
<1>13. Standing' = R
  <2>1. Standing' = (Entries(stack') \cup {program', block', ast'}) \ {NULL}
    BY DEF Standing, Roots, Entries
  <2>2. program = NULL /\ block = NULL
    BY <1>1 DEF StackAtRule
  <2>3. Standing' = (Entries(Rest) \cup {value, ast}) \ {NULL}
    BY <1>3, <1>12, <2>1, <2>2
  <2>4. Standing \ Entries(Popped) = (Entries(Rest) \cup {ast}) \ {NULL}
    BY <1>8, <1>9
  <2> QED
    BY <1>5, <2>3, <2>4
<1>14. StackIsRaw'
  <2>1. \A s \in Entries(stack') \ {NULL} : s \in R
    BY <1>3, <1>12, <1>5, <1>8, <1>9
  <2>2. \A s \in Entries(stack') \ {NULL} : s # ast
    BY <1>3, <1>8, <1>9, <1>11, <1>12
  <2> QED
    BY <1>3, <1>12, <2>1, <2>2 DEF StackIsRaw, ReductionOf
<1>15. \A n \in {program, block, ast} \ {NULL} : n \in Nodes(heap) /\ h[n].class = heap[n].class
  <2>1. \A n \in {program, block, ast} \ {NULL} : n \in Nodes(heap)
    BY <1>10 DEF Standing, Roots
  <2> QED
    BY <2>1 DEF ReductionOf
<1>16. Stages'
  BY <1>2, <1>3, <1>4, <1>15 DEF Stages
<1>17. Parsing'
  <2>1. /\ pc \in 1 .. Len(input[f]) /\ Len(input[f]) \in Nat
        /\ SymbolsOf(pc + 1) = Append(Under(SymbolsOf(pc), Rule.pops), Becomes(Rule, PoppedTypes))
        /\ pc # Len(input[f]) \/ (pc = 1 /\ Rule.do = "null")
        /\ Reduces(Rule, PoppedTypes) /\ Rule.pops \in Nat
    BY <1>1 DEF AtRule
  <2>2. PICK under, left : under = Under(SymbolsOf(pc), Rule.pops) /\ left = Becomes(Rule, PoppedTypes)
    OBVIOUS
  <2>3. /\ under \in Seq(Types) /\ Len(under) = Len(Rest) /\ DOMAIN under = DOMAIN Rest
        /\ \A i \in DOMAIN Rest : under[i] = TypeOf(heap, Rest[i])
    <3>1. /\ SplitInto(stack, Rule.pops, Rest, Popped, Nat)
          /\ SplitInto(SymbolsOf(pc), Rule.pops, under, PoppedTypes, Types)
          /\ Len(SymbolsOf(pc)) = Len(stack)
      BY <1>1, <2>2 DEF StackAtRule, AtRule
    <3>2. PICK d \in Nat : d = Len(stack) - Rule.pops
      BY <3>1 DEF SplitInto
    <3>3. /\ under \in Seq(Types) /\ Len(under) = d /\ DOMAIN under = 1 .. d
          /\ Len(Rest) = d /\ DOMAIN Rest = 1 .. d
          /\ \A i \in 1 .. d : Rest[i] = stack[i] /\ under[i] = SymbolsOf(pc)[i]
      BY <3>1, <3>2 DEF SplitInto
    <3>4. \A i \in 1 .. d : i \in DOMAIN stack
      <4>1. PICK L \in Nat, n \in Nat : L = Len(stack) /\ n = Rule.pops
        BY <1>4, <2>1 DEF Typed
      <4>2. DOMAIN stack = 1 .. L /\ d <= L
        BY <1>4, <3>2, <4>1 DEF Typed
      <4> QED
        BY <4>2
    <3>5. \A i \in DOMAIN stack : TypeOf(heap, stack[i]) = SymbolsOf(pc)[i]
      BY <1>2 DEF Holds, Parsing
    <3> QED
      BY <3>3, <3>4, <3>5
  <2>4. \A i \in DOMAIN Rest : TypeOf(h, Rest[i]) = under[i]
    <3> SUFFICES ASSUME NEW i \in DOMAIN Rest PROVE TypeOf(h, Rest[i]) = TypeOf(heap, Rest[i])
      BY <2>3
    <3>1. Rest[i] # NULL => Rest[i] \in Standing
      BY <1>8, <1>9 DEF Entries
    <3> QED
      BY <1>10, <3>1 DEF TypeOf, ReductionOf
  <2>5. TypeOf(h, value) = left
    BY <2>2 DEF ReductionOf
  <2>6. PICK L \in Nat, r \in Seq(Nat) : r = Rest /\ L = Len(r)
    BY <1>6
  <2>7. /\ Len(Append(r, value)) = L + 1 /\ DOMAIN Append(r, value) = 1 .. L + 1 /\ DOMAIN r = 1 .. L
        /\ \A i \in 1 .. L : Append(r, value)[i] = r[i]
        /\ Append(r, value)[L + 1] = value
    BY <1>5, <2>6
  <2>8. /\ Len(Append(under, left)) = L + 1
        /\ \A i \in 1 .. L : Append(under, left)[i] = under[i]
        /\ Append(under, left)[L + 1] = left
    BY <2>3, <2>6
  <2>9. /\ Len(Append(r, value)) = Len(Append(under, left))
        /\ \A i \in DOMAIN Append(r, value) : TypeOf(h, Append(r, value)[i]) = Append(under, left)[i]
    <3>1. \A i \in 1 .. L + 1 : i \in 1 .. L \/ i = L + 1
      OBVIOUS
    <3> QED
      BY <2>4, <2>5, <2>6, <2>7, <2>8, <3>1
  <2>10. /\ input'[f'] = input[f] /\ SymbolsOf(pc)' = SymbolsOf(pc + 1)
    BY <1>3 DEF SymbolsOf
  <2>11. SymbolsOf(pc)' = Append(under, left) /\ stack' = Append(r, value)
    BY <1>3, <2>1, <2>2, <2>6, <2>10
  <2>12. IF pc + 1 = Len(input[f]) + 1 THEN Append(r, value) = <<program>> ELSE program = NULL
    <3>1. program = NULL
      BY <1>1 DEF StackAtRule
    <3>2. CASE pc = Len(input[f])
      <4>1. pc = 1 /\ Rule.do = "null" /\ Rule.pops = 0
        BY <2>1, <3>2 DEF Reduces
      <4>2. left = "null"
        BY <2>2, <4>1 DEF Becomes
      <4>3. value = NULL
        <5>1. value # NULL => value \in Nodes(h)
          BY <1>5, HeapFacts DEF ReductionOf, Sound, Graph
        <5>2. value # NULL => h[value].class # "null"
          BY <5>1, HeapFacts, NullIsNoClass DEF ReductionOf, Sound, Graph
        <5> QED
          BY <2>5, <4>2, <5>2 DEF TypeOf
      <4>4. L = 0
        <5>1. IsParse(input[f], Symbols[input[f]])
          BY <1>2, TheParse
        <5>2. SymbolsOf(1) = <<>>
          BY <5>1 DEF IsParse, SymbolsOf
        <5>3. Len(stack) = 0
          BY <1>1, <4>1, <5>2 DEF AtRule
        <5>4. Len(Rest) = Len(stack) - Rule.pops
          BY <1>1 DEF StackAtRule, SplitInto
        <5> QED
          BY <2>6, <4>1, <5>3, <5>4
      <4>5. r = <<>>
        BY <2>6, <4>4, EmptySeq
      <4> QED
        BY <3>1, <3>2, <4>3, <4>5
    <3>3. CASE pc # Len(input[f])
      BY <2>1, <3>1, <3>3
    <3> QED
      BY <3>2, <3>3
  <2>13. pc + 1 \in 1 .. Len(input[f]) + 1
    BY <2>1
  <2> QED
    BY <1>3, <2>9, <2>10, <2>11, <2>12, <2>13 DEF Parsing
<1>18. Returning' /\ Gathering(V)' /\ Rewriting' /\ Covered(T2)' /\ MovedOnes' = {}
  BY <1>2, <1>3 DEF Returning, Gathering, Rewriting, Covered, MovedOnes
<1>19. Outside' \in Counts /\ \A n \in Nat \ {NULL} : Outside'[n] = c[n]
  <2>1. CountedBy(Outside, program, block, ast, gathered, later)
    BY <1>4, OutsideIs
  <2>2. Typed' => CountedBy(Outside', program', block', ast', gathered', later')
    <3>1. Typed => CountedBy(Outside, program, block, ast, gathered, later)
      BY OutsideIs
    <3> QED
      BY <3>1, OutsideIs, HoldingIs DEF Typed, Outside
  <2>3. CountedBy(Outside', program, block, ast, gathered, dropped)
    BY <1>3, <1>7, <2>2
  <2>4. ASSUME NEW n \in Nat \ {NULL}
        PROVE  Outside'[n] = c[n]
    <3>1. Occ(later, n) = 0
      BY <1>2, OccEmpty
    <3>2. PICK a, b, d, e, x \in Nat :
            a = Is(program, n) /\ b = Is(block, n) /\ d = Is(ast, n) /\ e = Occ(gathered, n) /\ x = Occ(dropped, n)
      BY <2>1, <2>3 DEF CountedBy, Is
    <3>3. Outside[n] = a + b + d + e + 0
      BY <2>1, <3>1, <3>2 DEF CountedBy
    <3>4. Outside'[n] = a + b + d + e + x
      BY <2>3, <3>2 DEF CountedBy
    <3>5. c[n] = Outside[n] + x
      BY <3>2 DEF ReductionOf
    <3> QED
      BY <3>3, <3>4, <3>5
  <2> QED
    BY <2>3, <2>4 DEF CountedBy
<1>20. Sound(heap, T2, Standing, Outside, MovedOnes)'
  <2>1. Sound(h, T2, R, c, {})
    BY DEF ReductionOf
  <2>2. PICK c2 \in Counts : c2 = Outside'
    BY <1>19
  <2>3. Sound(h, T2, R, c2, {})
    BY <1>19, <2>1, <2>2, SoundWith
  <2>4. Sound(heap', T2, Standing', Outside', MovedOnes')
    BY <1>3, <1>13, <1>18, <2>2, <2>3
  <2> QED
    BY <2>4 DEF Sound
<1> QED
  BY <1>7, <1>14, <1>16, <1>17, <1>18, <1>20 DEF Holds

-----------------------------------------------------------------------------
(* Reductions.                                                             *)

TypesOf(h, kids, types) ==
  /\ DOMAIN types = DOMAIN kids /\ Len(types) = Len(kids)
  /\ \A i \in DOMAIN kids : types[i] = TypeOf(h, kids[i])

\* The heap after a constructor.
Built(h, g, p, T, R, c, class) ==
  /\ Sound(g, T, R, c, {})
  /\ p \notin Nodes(h) /\ p # NULL /\ p \in Nat /\ p = Len(h) + 1 /\ Len(g) = p
  /\ Nodes(g) = Nodes(h) \cup {p} /\ \A n \in Nodes(h) : g[n].class = h[n].class
  /\ g[p].class = class
\* A constructor whose arguments are roots that its class accepts makes one tree of them.
LEMMA Building ==
  ASSUME NEW h, NEW T, NEW R, NEW c, Sound(h, T, R, c, {}),
         NEW class \in ClassNames, NEW tag \in Tags, NEW kids \in Seq(Nat),
         Entries(kids) \subseteq R \cup {NULL}, Distinct(kids),
         NEW types, TypesOf(h, kids, types), Constructs(class, types)
  PROVE  Built(h, Construct(h, class, tag, kids), Len(h) + 1, T \cup {Len(h) + 1},
               (R \ Entries(kids)) \cup {Len(h) + 1}, c, class)
<1>1. Graph(h, R, c) /\ Forest(h, T, R, {}) /\ AllFit(h, T)
  BY DEF Sound
<1>2. IsHeap(h) /\ Whole(h) /\ T \in SUBSET Nodes(h) /\ R \subseteq Nodes(h)
  BY <1>1, HeapFacts DEF Graph, Forest
<1>3. PICK g, p : g = Construct(h, class, tag, kids) /\ p = Len(h) + 1
  OBVIOUS
<1>4. Constructed(h, g, p, class, tag, kids)
  BY <1>2, <1>3, ConstructIs
<1>5. /\ Graph(g, (R \ Entries(kids)) \cup {p}, c)
      /\ Forest(g, T \cup {p}, (R \ Entries(kids)) \cup {p}, {})
  BY <1>1, <1>4, ConstructForest
<1>6. Entries(kids) \subseteq Nodes(h) \cup {NULL}
  BY <1>2
<1>7. AllFit(g, T \cup {p})
  BY <1>1, <1>2, <1>4, <1>6, ConstructFits DEF TypesOf
<1>8. Sound(g, T \cup {p}, (R \ Entries(kids)) \cup {p}, c, {})
  BY <1>5, <1>7 DEF Sound
<1>9. /\ IsHeap(g) /\ p \notin Nodes(h) /\ Len(g) = p /\ Nodes(g) = Nodes(h) \cup {p}
      /\ \A n \in Nodes(h) : g[n].class = h[n].class
      /\ g[p] = NewNode(class, tag, kids)
  BY <1>4 DEF Constructed
<1>10. g[p].class = class
  BY <1>9 DEF NewNode
<1>11. p \in Nat /\ p # NULL
  BY <1>9, HeapFacts
<1> QED
  BY <1>3, <1>8, <1>9, <1>10, <1>11 DEF Built

\* Arguments of a constructor.
KidsFacts ==
  /\ Kids \in Seq(Nat) /\ DOMAIN Kids = DOMAIN Rule.kids /\ Len(Kids) = Len(Rule.kids)
  /\ Entries(Kids) \ {NULL} = Entries(Popped) \ {NULL} /\ Distinct(Kids)
  /\ TypesOf(heap, Kids, Arguments(Rule, PoppedTypes, "null"))
\* Only null has the class of null.
LEMMA NullTypes ==
  ASSUME IsHeap(heap), NEW n \in Nodes(heap) \cup {NULL}
  PROVE  TypeOf(heap, n) = "null" <=> n = NULL
  BY HeapFacts, NullIsNoClass DEF TypeOf
\* What $1, $2 ... of a rule are.
LEMMA KidsAre ==
  ASSUME AtRule, StackAtRule, IsHeap(heap), Standing \subseteq Nodes(heap), UsesEach(Rule, PoppedTypes)
  PROVE  KidsFacts
<1>1. /\ Rule.kids \in Seq(Nat) /\ Rule.pops \in Nat
      /\ Popped \in Seq(Nat) /\ DOMAIN Popped = 1 .. Rule.pops
  BY DEF AtRule, StackAtRule, SplitInto, Rules
<1>2. PICK k \in Seq(Nat), L \in Nat, n \in Nat : k = Rule.kids /\ L = Len(k) /\ n = Rule.pops /\ DOMAIN k = 1 .. L
  BY <1>1
<1>3. PICK P \in Seq(Nat) : P = Popped
  BY <1>1
<1>4. Kids = [i \in 1 .. L |-> IF k[i] = 0 THEN 0 ELSE P[k[i]]]
  BY <1>2, <1>3 DEF Kids, Arguments, NULL
<1>5. \A i \in 1 .. L : k[i] = 0 \/ k[i] \in 1 .. n
  <2>1. \A i \in 1 .. L : k[i] \in 0 .. n
    BY <1>2 DEF UsesEach
  <2> QED
    BY <1>2, <2>1
<1>6. \A i \in 1 .. L : (IF k[i] = 0 THEN 0 ELSE P[k[i]]) \in Nat
  BY <1>1, <1>2, <1>3, <1>5
<1>7. /\ Kids \in Seq(Nat) /\ DOMAIN Kids = 1 .. L /\ Len(Kids) = L
      /\ \A i \in 1 .. L : Kids[i] = IF k[i] = 0 THEN 0 ELSE P[k[i]]
  <2>1. Kids \in [1 .. L -> Nat]
    BY <1>4, <1>6
  <2>2. Kids \in Seq(Nat)
    BY <2>1
  <2> QED
    BY <1>4, <2>2
<1>8. \A j \in 1 .. n : P[j] \in Nodes(heap) \cup {NULL} /\ PoppedTypes[j] = TypeOf(heap, P[j])
  <2>1. Entries(Popped) \subseteq Entries(stack) /\ Standing = (Entries(stack) \cup {ast}) \ {NULL}
    BY DEF StackAtRule, SplitEntries
  <2>2. \A j \in 1 .. n : P[j] \in Entries(Popped)
    BY <1>1, <1>2, <1>3 DEF Entries
  <2> QED
    BY <1>2, <1>3, <2>1, <2>2 DEF StackAtRule
<1>9. \A j \in 1 .. n : P[j] # NULL => \E i \in 1 .. L : k[i] = j
  <2>1. \A j \in 1 .. n : PoppedTypes[j] = "null" \/ \E i \in 1 .. L : k[i] = j
    BY <1>2 DEF UsesEach
  <2>2. \A j \in 1 .. n : P[j] # NULL => PoppedTypes[j] # "null"
    BY <1>8, NullTypes
  <2> QED
    BY <2>1, <2>2
<1>10. Entries(Kids) \ {NULL} = Entries(P) \ {NULL}
  <2>1. ASSUME NEW x \in Entries(Kids), x # NULL PROVE x \in Entries(P)
    <3>1. PICK i \in 1 .. L : x = Kids[i]
      BY <1>7, <2>1 DEF Entries
    <3>2. k[i] \in 1 .. n /\ x = P[k[i]]
      BY <1>5, <1>7, <2>1, <3>1 DEF NULL
    <3> QED
      BY <1>1, <1>2, <1>3, <3>2 DEF Entries
  <2>2. ASSUME NEW x \in Entries(P), x # NULL PROVE x \in Entries(Kids)
    <3>1. PICK j \in 1 .. n : x = P[j]
      BY <1>1, <1>2, <1>3, <2>2 DEF Entries
    <3>2. PICK i \in 1 .. L : k[i] = j
      BY <1>9, <2>2, <3>1
    <3>3. Kids[i] = x
      <4>1. k[i] # 0
        BY <3>1, <3>2
      <4> QED
        BY <1>7, <3>1, <3>2, <4>1
    <3> QED
      BY <1>7, <3>3 DEF Entries
  <2> QED
    BY <2>1, <2>2
<1>11. Distinct(Kids)
  <2> SUFFICES ASSUME NEW i \in 1 .. L, NEW j \in 1 .. L, Kids[i] = Kids[j], Kids[i] # NULL
               PROVE  i = j
    BY <1>7 DEF Distinct
  <2>1. k[i] # 0 /\ k[j] # 0 /\ P[k[i]] = P[k[j]] /\ P[k[i]] # NULL
    BY <1>7 DEF NULL
  <2>2. Distinct(P)
    BY <1>3 DEF StackAtRule, SplitEntries
  <2>3. k[i] = k[j]
    BY <1>1, <1>2, <1>3, <1>5, <2>1, <2>2 DEF Distinct
  <2>4. i = j \/ k[i] = 0
    BY <1>2, <2>3 DEF UsesEach
  <2> QED
    BY <2>1, <2>4
<1>12. TypesOf(heap, Kids, Arguments(Rule, PoppedTypes, "null"))
  <2>1. PICK a : a = Arguments(Rule, PoppedTypes, "null")
    OBVIOUS
  <2>2. a = [i \in 1 .. L |-> IF k[i] = 0 THEN "null" ELSE PoppedTypes[k[i]]]
    BY <1>2, <2>1 DEF Arguments
  <2>3. DOMAIN a = 1 .. L /\ Len(a) = L
    BY <2>2
  <2>4. ASSUME NEW i \in 1 .. L PROVE a[i] = TypeOf(heap, Kids[i])
    <3>1. CASE k[i] = 0
      BY <1>7, <2>2, <3>1 DEF TypeOf, NULL
    <3>2. CASE k[i] # 0
      <4>1. k[i] \in 1 .. n /\ a[i] = PoppedTypes[k[i]] /\ Kids[i] = P[k[i]]
        BY <1>5, <1>7, <2>2, <3>2
      <4> QED
        BY <1>8, <4>1
    <3> QED
      BY <3>1, <3>2
  <2> QED
    BY <1>7, <2>1, <2>3, <2>4 DEF TypesOf
<1> QED
  BY <1>2, <1>3, <1>7, <1>10, <1>11, <1>12 DEF KidsFacts

\* A statement of its own in a block.
Boxed(h, s, r, T, R, c) ==
  /\ Sound(r.heap, T, R, c, {})
  /\ r.root \in Nat /\ (r.root = NULL <=> s = NULL) /\ r.root \notin Nodes(h)
  /\ TypeOf(r.heap, r.root) = (IF s = NULL THEN "null" ELSE "Block")
  /\ Nodes(h) \subseteq Nodes(r.heap) /\ \A n \in Nodes(h) : r.heap[n].class = h[n].class
\* A block is made of a statement, or of nothing.
LEMMA Boxing ==
  ASSUME NEW h, NEW T, NEW R, NEW c, Sound(h, T, R, c, {}),
         NEW s \in R \cup {NULL}, TypeOf(h, s) \in Statement \cup {"null"},
         NEW r, r = InBlock(h, s)
  PROVE  \E T2, R2 : Boxed(h, s, r, T2, R2, c) /\ R2 = (R \ {s}) \cup ({r.root} \ {NULL})
<1>1. Graph(h, R, c) /\ IsHeap(h) /\ R \subseteq Nodes(h) /\ NULL \notin Nodes(h)
  BY HeapFacts DEF Sound, Graph
<1>2. CASE s = NULL
  <2>1. r.heap = h /\ r.root = NULL
    BY <1>2 DEF InBlock
  <2>2. R = (R \ {s}) \cup ({r.root} \ {NULL})
    BY <1>1, <1>2, <2>1
  <2>3. r.root \in Nat /\ TypeOf(r.heap, r.root) = "null"
    BY <2>1 DEF TypeOf, NULL
  <2>4. Boxed(h, s, r, T, R, c)
    BY <1>1, <1>2, <2>1, <2>3 DEF Boxed
  <2> QED
    BY <2>2, <2>4
<1>3. CASE s # NULL
  <2>1. s \in Nodes(h) /\ s \in Nat /\ s \in R
    BY <1>1, <1>3, HeapFacts
  <2>2. PICK kids \in Seq(Nat) : kids = <<s>>
    <3>1. <<s>> \in Seq(Nat)
      BY <2>1
    <3> QED
      BY <3>1
  <2>3. Entries(kids) = {s} /\ Distinct(kids) /\ DOMAIN kids = {1} /\ Len(kids) = 1 /\ kids[1] = s
    BY <2>2 DEF Entries, Distinct
  <2>4. PICK types : types = <<TypeOf(h, s)>>
    OBVIOUS
  <2>5. TypesOf(h, kids, types) /\ types[1] = h[s].class /\ DOMAIN types = {1} /\ Len(types) = 1
    BY <1>3, <2>3, <2>4 DEF TypesOf, TypeOf
  <2>6. h[s].class \in Statement
    <3>1. h[s].class \in ClassNames
      BY <1>1, <2>1, HeapFacts
    <3> QED
      BY <1>3, <3>1, NullIsNoClass DEF TypeOf
  <2>7. "Block" \in ClassNames /\ "none" \in Tags
    BY SomeClasses DEF Tags
  <2>8. Constructs("Block", types)
    <3>1. IsList("Block") /\ \A i : Accepts("Block", i) = Required(Statement)
      BY WhatTheyAccept
    <3>2. types[1] # "null"
      BY <2>5, <2>6, NullIsNoClass, ExpressionsAreClasses
    <3> QED
      BY <2>5, <2>6, <3>1, <3>2 DEF Constructs, Required
  <2>9. PICK g, p : g = Construct(h, "Block", "none", kids) /\ p = Len(h) + 1
    OBVIOUS
  <2>10. Built(h, g, p, T \cup {p}, (R \ {s}) \cup {p}, c, "Block")
    BY <2>1, <2>3, <2>5, <2>7, <2>8, <2>9, Building
  <2>11. r.heap = g /\ r.root = p
    BY <1>3, <2>2, <2>9 DEF InBlock
  <2>12. (R \ {s}) \cup {p} = (R \ {s}) \cup ({r.root} \ {NULL})
    BY <2>10, <2>11 DEF Built
  <2>13. TypeOf(g, p) = "Block"
    BY <2>10 DEF Built, TypeOf
  <2>14. Boxed(h, s, r, T \cup {p}, (R \ {s}) \cup {p}, c)
    BY <1>3, <2>10, <2>11, <2>13 DEF Boxed, Built
  <2> QED
    BY <2>12, <2>14
<1> QED
  BY <1>2, <1>3

\* What is known at a reduction.
LEMMA InParse ==
  ASSUME NEW T, NEW V, Holds(T, V), In("parse"), pc <= Len(input[f])
  PROVE  /\ AtRule /\ StackAtRule /\ Sound(heap, T, Standing, Outside, {})
         /\ IsHeap(heap) /\ Standing \subseteq Nodes(heap) /\ NULL \notin Nodes(heap)
         /\ Entries(Popped) \subseteq Standing \cup {NULL} /\ Outside \in Counts
<1>1. AtRule /\ StackAtRule
  BY AtRuleIs
<1>2. MovedOnes = {}
  BY DEF In, MovedOnes
<1>3. Sound(heap, T, Standing, Outside, {})
  BY <1>2 DEF Holds
<1>4. Graph(heap, Standing, Outside)
  BY <1>3 DEF Sound
<1>5. IsHeap(heap) /\ Standing \subseteq Nodes(heap) /\ NULL \notin Nodes(heap) /\ Outside \in Counts
  BY <1>4, HeapFacts DEF Graph
<1>6. Entries(Popped) \subseteq Standing \cup {NULL}
  BY <1>1 DEF StackAtRule, SplitEntries
<1> QED
  BY <1>1, <1>3, <1>5, <1>6

\* A new node that nothing is released for.
LEMMA NewValue ==
  ASSUME NEW T, NEW V, Holds(T, V), In("parse"), pc <= Len(input[f]), Rule.do # "program",
         NEW h, NEW p, NEW T2, NEW R, Sound(h, T2, R, Outside, {}),
         R = (Standing \ Entries(Popped)) \cup {p},
         p \in Nat, p # NULL, p \notin Nodes(heap), \A n \in Nodes(heap) : h[n].class = heap[n].class,
         h[p].class = Becomes(Rule, PoppedTypes), Reduced(h, p, <<>>)
  PROVE  Holds(T2, V)'
<1>1. Outside \in Counts
  BY InParse
<1>2. \A n \in Nat \ {NULL} : Outside[n] = Outside[n] + Occ(<<>>, n)
  <2>1. \A n \in Nat \ {NULL} : Outside[n] \in Nat /\ Occ(<<>>, n) = 0
    BY <1>1, OccEmpty DEF Counts
  <2> QED
    BY <2>1
<1>3. Entries(<<>>) = {} /\ <<>> \in Seq(Nat)
  BY DEF Entries
<1>4. TypeOf(h, p) = Becomes(Rule, PoppedTypes) /\ R = (Standing \ Entries(Popped)) \cup ({p} \ {NULL})
  BY DEF TypeOf
<1>5. ReductionOf(h, p, <<>>, T2, R, Outside)
  BY <1>2, <1>3, <1>4 DEF ReductionOf
<1> QED
  BY <1>5, ReductionKeeps

\* $$ = new ... keeps the invariant.
LEMMA NewKeeps ==
  ASSUME NEW T, NEW V, Holds(T, V), ReduceNew
  PROVE  IInv'
<1>1. In("parse") /\ pc <= Len(input[f]) /\ Rule.do = "new"
  BY DEF ReduceNew, Reducing
<1>2. /\ AtRule /\ StackAtRule /\ Sound(heap, T, Standing, Outside, {}) /\ IsHeap(heap)
      /\ Standing \subseteq Nodes(heap) /\ NULL \notin Nodes(heap)
      /\ Entries(Popped) \subseteq Standing \cup {NULL}
  BY <1>1, InParse
<1>3. PICK args : args = Arguments(Rule, PoppedTypes, "null")
  OBVIOUS
<1>4. /\ Rule.class \in ClassNames /\ Rule.tag \in Tags
      /\ UsesEach(Rule, PoppedTypes) /\ Constructs(Rule.class, args)
  <2>1. Rule \in Rules /\ Reduces(Rule, PoppedTypes)
    BY <1>2 DEF AtRule
  <2>2. Rule.tag \in Tags
    BY <2>1 DEF Rules
  <2> QED
    BY <1>1, <1>3, <2>1, <2>2 DEF Reduces
<1>5. KidsFacts
  BY <1>2, <1>4, KidsAre
<1>6. PICK kids \in Seq(Nat) : kids = Kids
  BY <1>5 DEF KidsFacts
<1>7. /\ Entries(kids) \ {NULL} = Entries(Popped) \ {NULL} /\ Distinct(kids)
      /\ TypesOf(heap, kids, args)
  BY <1>3, <1>5, <1>6 DEF KidsFacts
<1>8. Entries(kids) \subseteq Standing \cup {NULL}
  BY <1>2, <1>7
<1>9. PICK h, p : h = Construct(heap, Rule.class, Rule.tag, kids) /\ p = Len(heap) + 1
  OBVIOUS
<1>10. PICK R : R = (Standing \ Entries(kids)) \cup {p}
  OBVIOUS
<1>11. Built(heap, h, p, T \cup {p}, R, Outside, Rule.class)
  BY <1>2, <1>4, <1>7, <1>8, <1>9, <1>10, Building
<1>12. Reduced(h, p, <<>>)
  BY <1>6, <1>9, <1>11 DEF ReduceNew, Built
<1>13. R = (Standing \ Entries(Popped)) \cup {p}
  BY <1>2, <1>7, <1>10
<1>14. Becomes(Rule, PoppedTypes) = Rule.class
  BY <1>1 DEF Becomes
<1>15. /\ Sound(h, T \cup {p}, R, Outside, {}) /\ p \in Nat /\ p # NULL /\ p \notin Nodes(heap)
       /\ \A n \in Nodes(heap) : h[n].class = heap[n].class
       /\ h[p].class = Rule.class
  BY <1>11 DEF Built
<1>16. Holds(T \cup {p}, V)'
  BY <1>1, <1>12, <1>13, <1>14, <1>15, NewValue
<1> QED
  BY <1>16 DEF IInv

\* A rule that is empty keeps it.
LEMMA NullKeeps ==
  ASSUME NEW T, NEW V, Holds(T, V), ReduceNull
  PROVE  IInv'
<1>1. In("parse") /\ pc <= Len(input[f]) /\ Rule.do = "null" /\ Reduced(heap, NULL, <<>>)
  BY DEF ReduceNull, Reducing
<1>2. /\ AtRule /\ StackAtRule /\ Sound(heap, T, Standing, Outside, {}) /\ Outside \in Counts
  BY <1>1, InParse
<1>3. Rule.pops = 0
  BY <1>1, <1>2 DEF AtRule, Reduces
<1>4. Entries(Popped) = {}
  BY <1>2, <1>3 DEF StackAtRule, SplitInto, Entries
<1>5. NULL \in Nat /\ TypeOf(heap, NULL) = "null" /\ Becomes(Rule, PoppedTypes) = "null"
  BY <1>1 DEF TypeOf, Becomes, NULL
<1>6. Entries(<<>>) = {} /\ <<>> \in Seq(Nat)
  BY DEF Entries
<1>7. \A n \in Nat \ {NULL} : Outside[n] = Outside[n] + Occ(<<>>, n)
  <2>1. \A n \in Nat \ {NULL} : Outside[n] \in Nat /\ Occ(<<>>, n) = 0
    BY <1>2, OccEmpty DEF Counts
  <2> QED
    BY <2>1
<1>8. ReductionOf(heap, NULL, <<>>, T, Standing, Outside)
  BY <1>2, <1>4, <1>5, <1>6, <1>7 DEF ReductionOf
<1>9. Holds(T, V)'
  BY <1>1, <1>8, ReductionKeeps
<1> QED
  BY <1>9 DEF IInv

\* append... keeps it.
LEMMA AppendKeeps ==
  ASSUME NEW T, NEW V, Holds(T, V), ReduceAppend
  PROVE  IInv'
<1>1. In("parse") /\ pc <= Len(input[f]) /\ Rule.do = "append"
  BY DEF ReduceAppend, Reducing
<1>2. /\ AtRule /\ StackAtRule /\ Sound(heap, T, Standing, Outside, {}) /\ IsHeap(heap)
      /\ Standing \subseteq Nodes(heap) /\ NULL \notin Nodes(heap)
      /\ Entries(Popped) \subseteq Standing \cup {NULL} /\ Outside \in Counts
  BY <1>1, InParse
<1>3. /\ Rule.pops = 2 /\ PoppedTypes[1] \in ClassNames /\ IsList(PoppedTypes[1])
      /\ PoppedTypes[2] \in Class[PoppedTypes[1]].elements
  BY <1>1, <1>2 DEF AtRule, Reduces
<1>4. PICK p, n : p = Popped[1] /\ n = Popped[2]
  OBVIOUS
<1>5. /\ DOMAIN Popped = {1, 2} /\ Distinct(Popped)
      /\ PoppedTypes[1] = TypeOf(heap, p) /\ PoppedTypes[2] = TypeOf(heap, n)
  BY <1>2, <1>3, <1>4 DEF StackAtRule, SplitInto, SplitEntries
<1>6. Entries(Popped) = {p, n}
  BY <1>4, <1>5 DEF Entries
<1>7. p \in Standing /\ n \in Standing /\ p # n
  <2>1. TypeOf(heap, p) # "null" /\ TypeOf(heap, n) # "null"
    BY <1>3, <1>5, NullIsNoClass, ElementsAreClasses DEF HasElements
  <2>2. p # NULL /\ n # NULL
    BY <2>1 DEF TypeOf
  <2> QED
    BY <1>2, <1>4, <1>5, <1>6, <2>2 DEF Distinct
<1>8. /\ IsList(heap[p].class) /\ heap[n].class \in Class[heap[p].class].elements
      /\ ~ (heap[p].class = "UDTFieldOuter")
  <2>1. PoppedTypes[1] = heap[p].class /\ PoppedTypes[2] = heap[n].class
    BY <1>2, <1>5, <1>7 DEF TypeOf
  <2> QED
    BY <1>3, <2>1, ElementsAreClasses DEF HasElements
<1>9. Graph(heap, Standing, Outside) /\ Forest(heap, T, Standing, {}) /\ AllFit(heap, T)
  BY <1>2 DEF Sound
<1>10. /\ Whole(heap) /\ p \in Live(heap) /\ p \in T /\ n \in T /\ T \in SUBSET Nodes(heap)
       /\ p \in Nodes(heap) /\ n \in Nodes(heap)
  BY <1>2, <1>7, <1>9, HeapFacts DEF Graph, Forest
<1>11. Distinct(heap[p].kids) /\ n \notin Children(heap, p)
  BY <1>7, <1>9, <1>10, RootHasNoOwner DEF Whole
<1>12. PICK h : h = AppendChild(heap, p, n)
  OBVIOUS
<1>13. Linked(heap, h, p, n, {}) /\ Entries(h[p].kids) = Entries(heap[p].kids) \cup {n}
  BY <1>2, <1>7, <1>10, <1>11, <1>12, AppendIs
<1>14. \A o \in T : n \notin Children(heap, o)
  BY <1>7, <1>9, RootHasNoOwner DEF Forest
<1>15. Graph(h, Standing \ {n}, Outside) /\ Forest(h, T, Standing \ {n}, {})
  BY <1>7, <1>9, <1>10, <1>11, <1>13, <1>14, LinkForest
<1>16. AllFit(h, T)
  BY <1>2, <1>8, <1>9, <1>10, <1>13, AppendFits
<1>17. Sound(h, T, Standing \ {n}, Outside, {})
  BY <1>15, <1>16 DEF Sound
<1>18. Standing \ {n} = (Standing \ Entries(Popped)) \cup ({p} \ {NULL})
  BY <1>2, <1>6, <1>7
<1>19. p \in Nat /\ p \in Entries(Popped) /\ TypeOf(h, p) = Becomes(Rule, PoppedTypes)
       /\ \A m \in Nodes(heap) : h[m].class = heap[m].class
  <2>1. \A m \in Nodes(heap) : h[m].class = heap[m].class
    BY <1>13 DEF Linked
  <2>2. p \in Nat /\ p # NULL
    BY <1>2, <1>10, HeapFacts
  <2>3. Becomes(Rule, PoppedTypes) = PoppedTypes[1]
    BY <1>1 DEF Becomes
  <2> QED
    BY <1>5, <1>6, <1>10, <2>1, <2>2, <2>3 DEF TypeOf
<1>20. Entries(<<>>) = {} /\ <<>> \in Seq(Nat)
  BY DEF Entries
<1>21. \A m \in Nat \ {NULL} : Outside[m] = Outside[m] + Occ(<<>>, m)
  <2>1. \A m \in Nat \ {NULL} : Outside[m] \in Nat /\ Occ(<<>>, m) = 0
    BY <1>2, OccEmpty DEF Counts
  <2> QED
    BY <2>1
<1>22. ReductionOf(h, p, <<>>, T, Standing \ {n}, Outside)
  BY <1>17, <1>18, <1>19, <1>20, <1>21 DEF ReductionOf
<1>23. Reduced(h, p, <<>>)
  BY <1>4, <1>12 DEF ReduceAppend
<1>24. Holds(T, V)'
  BY <1>1, <1>22, <1>23, ReductionKeeps
<1> QED
  BY <1>24 DEF IInv

\* IF ... THEN ... ELSE on a line keeps it.
LEMMA OneLineKeeps ==
  ASSUME NEW T, NEW V, Holds(T, V), ReduceOneLine
  PROVE  IInv'
<1>1. In("parse") /\ pc <= Len(input[f]) /\ Rule.do = "oneline"
  BY DEF ReduceOneLine, Reducing
<1>2. /\ AtRule /\ StackAtRule /\ Sound(heap, T, Standing, Outside, {}) /\ IsHeap(heap)
      /\ Standing \subseteq Nodes(heap) /\ NULL \notin Nodes(heap)
      /\ Entries(Popped) \subseteq Standing \cup {NULL}
  BY <1>1, InParse
<1>3. PICK args : args = Arguments(Rule, PoppedTypes, "null")
  OBVIOUS
<1>4. /\ UsesEach(Rule, PoppedTypes) /\ Len(Rule.kids) = 3
      /\ args[1] \in Expression /\ {args[2], args[3]} \subseteq Statement \cup {"null"}
  BY <1>1, <1>2, <1>3 DEF AtRule, Reduces
<1>5. KidsFacts
  BY <1>2, <1>4, KidsAre
<1>6. PICK k \in Seq(Nat) : k = Kids
  BY <1>5 DEF KidsFacts
<1>7. PICK a, b, d \in Nat : a = k[1] /\ b = k[2] /\ d = k[3]
  <2>1. Len(k) = 3
    BY <1>4, <1>5, <1>6 DEF KidsFacts
  <2>2. DOMAIN k = 1 .. 3
    BY <2>1
  <2>3. \A i \in DOMAIN k : k[i] \in Nat
    OBVIOUS
  <2>4. 1 \in DOMAIN k /\ 2 \in DOMAIN k /\ 3 \in DOMAIN k
    BY <2>2
  <2>5. k[1] \in Nat /\ k[2] \in Nat /\ k[3] \in Nat
    BY <2>3, <2>4
  <2> QED
    BY <2>5
<1>8. DOMAIN k = {1, 2, 3} /\ Entries(k) = {a, b, d}
  <2>1. Len(k) = 3
    BY <1>4, <1>5, <1>6 DEF KidsFacts
  <2>2. DOMAIN k = {1, 2, 3}
    BY <2>1
  <2> QED
    BY <1>7, <2>2 DEF Entries
<1>9. /\ {a, b, d} \subseteq Standing \cup {NULL}
      /\ a = b => a = NULL
      /\ a = d => a = NULL
      /\ b = d => b = NULL
      /\ TypeOf(heap, a) = args[1] /\ TypeOf(heap, b) = args[2] /\ TypeOf(heap, d) = args[3]
      /\ Standing \ Entries(Popped) = Standing \ {a, b, d}
  <2>1. Entries(k) \ {NULL} = Entries(Popped) \ {NULL} /\ Distinct(k) /\ TypesOf(heap, k, args)
    BY <1>3, <1>5, <1>6 DEF KidsFacts
  <2>2. {a, b, d} \subseteq Standing \cup {NULL} /\ Standing \ Entries(Popped) = Standing \ {a, b, d}
    BY <1>2, <1>8, <2>1
  <2>3. (a = b => a = NULL) /\ (a = d => a = NULL) /\ (b = d => b = NULL)
    BY <1>7, <1>8, <2>1 DEF Distinct
  <2> QED
    BY <1>7, <1>8, <2>1, <2>2, <2>3 DEF TypesOf
<1>10. a # NULL /\ a \in Standing
  <2>1. TypeOf(heap, a) # "null"
    BY <1>4, <1>9, NullIsNoClass, ExpressionsAreClasses
  <2> QED
    BY <1>9, <2>1 DEF TypeOf
<1>11. PICK yes : yes = InBlock(heap, b)
  OBVIOUS
<1>12. PICK T1, R1 : Boxed(heap, b, yes, T1, R1, Outside) /\ R1 = (Standing \ {b}) \cup ({yes.root} \ {NULL})
  BY <1>2, <1>4, <1>9, <1>11, Boxing
<1>13. PICK no : no = InBlock(yes.heap, d)
  OBVIOUS
<1>14. /\ Sound(yes.heap, T1, R1, Outside, {}) /\ yes.root \in Nat
       /\ (yes.root = NULL <=> b = NULL) /\ yes.root \notin Nodes(heap)
       /\ Nodes(heap) \subseteq Nodes(yes.heap)
       /\ \A n \in Nodes(heap) : yes.heap[n].class = heap[n].class
       /\ TypeOf(yes.heap, yes.root) = (IF b = NULL THEN "null" ELSE "Block")
  BY <1>12 DEF Boxed
<1>15. d \in R1 \cup {NULL} /\ TypeOf(yes.heap, d) \in Statement \cup {"null"}
       /\ TypeOf(yes.heap, a) = args[1] /\ a \in R1
  <2>1. d # NULL => d \in Standing /\ d # b
    BY <1>9
  <2>2. TypeOf(yes.heap, d) = TypeOf(heap, d) /\ TypeOf(yes.heap, a) = TypeOf(heap, a)
    BY <1>2, <1>10, <1>14, <2>1 DEF TypeOf
  <2>3. a # b
    BY <1>9, <1>10
  <2> QED
    BY <1>4, <1>9, <1>10, <1>12, <2>1, <2>2, <2>3
<1>16. PICK T2, R2 : Boxed(yes.heap, d, no, T2, R2, Outside) /\ R2 = (R1 \ {d}) \cup ({no.root} \ {NULL})
  BY <1>13, <1>14, <1>15, Boxing
<1>17. /\ Sound(no.heap, T2, R2, Outside, {}) /\ no.root \in Nat
       /\ (no.root = NULL <=> d = NULL) /\ no.root \notin Nodes(yes.heap)
       /\ Nodes(yes.heap) \subseteq Nodes(no.heap)
       /\ \A n \in Nodes(yes.heap) : no.heap[n].class = yes.heap[n].class
       /\ TypeOf(no.heap, no.root) = (IF d = NULL THEN "null" ELSE "Block")
  BY <1>16 DEF Boxed
<1>18. IsHeap(yes.heap) /\ R1 \subseteq Nodes(yes.heap) /\ NULL \notin Nodes(yes.heap)
  BY <1>14, HeapFacts DEF Sound, Graph
<1>19. yes.root # d \/ d = NULL
  BY <1>2, <1>9, <1>14
<1>20. PICK kids \in Seq(Nat) : kids = <<a, yes.root, no.root>>
  <2>1. <<a, yes.root, no.root>> \in Seq(Nat)
    BY <1>7, <1>14, <1>17
  <2> QED
    BY <2>1
<1>21. /\ DOMAIN kids = {1, 2, 3} /\ Len(kids) = 3 /\ kids[1] = a /\ kids[2] = yes.root /\ kids[3] = no.root
       /\ Entries(kids) = {a, yes.root, no.root}
  BY <1>20 DEF Entries
<1>22. a # yes.root /\ a # no.root /\ (yes.root = no.root => yes.root = NULL)
  <2>1. a \in Nodes(heap) /\ a \in Nodes(yes.heap)
    BY <1>2, <1>10, <1>14
  <2>2. yes.root # NULL => yes.root \in Nodes(yes.heap)
    BY <1>12, <1>18
  <2> QED
    BY <1>14, <1>17, <2>1, <2>2
<1>23. Distinct(kids)
  BY <1>21, <1>22 DEF Distinct
<1>24. Entries(kids) \subseteq R2 \cup {NULL}
  <2>1. a \in R2
    BY <1>9, <1>10, <1>15, <1>16
  <2>2. yes.root \in R2 \cup {NULL}
    BY <1>12, <1>16, <1>19
  <2>3. no.root \in R2 \cup {NULL}
    BY <1>16
  <2> QED
    BY <1>21, <2>1, <2>2, <2>3
<1>25. PICK types : types = <<args[1], TypeOf(no.heap, yes.root), TypeOf(no.heap, no.root)>>
  OBVIOUS
<1>26. /\ DOMAIN types = {1, 2, 3} /\ Len(types) = 3 /\ types[1] = args[1]
       /\ types[2] = TypeOf(no.heap, yes.root) /\ types[3] = TypeOf(no.heap, no.root)
  BY <1>25
<1>27. /\ types[1] = TypeOf(no.heap, a)
       /\ types[2] \in {"null", "Block"} /\ types[3] \in {"null", "Block"}
  <2>1. a \in Nodes(yes.heap)
    BY <1>2, <1>10, <1>14
  <2>2. TypeOf(no.heap, a) = TypeOf(yes.heap, a)
    BY <1>10, <1>17, <2>1 DEF TypeOf
  <2>3. yes.root # NULL => yes.root \in Nodes(yes.heap)
    BY <1>12, <1>18
  <2>4. TypeOf(no.heap, yes.root) = TypeOf(yes.heap, yes.root)
    BY <1>17, <2>3 DEF TypeOf
  <2> QED
    BY <1>14, <1>15, <1>17, <1>26, <2>2, <2>4
<1>28. TypesOf(no.heap, kids, types)
  BY <1>21, <1>26, <1>27 DEF TypesOf
<1>29. Constructs("Conditional", types)
  <2>1. /\ ~IsList("Conditional") /\ Len(Class["Conditional"].slots) = 3
        /\ Accepts("Conditional", 1) = Required(Expression)
        /\ Accepts("Conditional", 2) = Optional({"Block"}) /\ Accepts("Conditional", 3) = Optional({"Block"})
    BY WhatTheyAccept
  <2>2. types[1] # "null" /\ types[1] \in Expression
    BY <1>4, <1>26, NullIsNoClass, ExpressionsAreClasses
  <2>3. /\ types[2] = "null" => Accepts("Conditional", 2).optional
        /\ types[2] # "null" => types[2] \in Accepts("Conditional", 2).types
        /\ types[3] = "null" => Accepts("Conditional", 3).optional
        /\ types[3] # "null" => types[3] \in Accepts("Conditional", 3).types
        /\ types[1] \in Accepts("Conditional", 1).types
    BY <1>27, <2>1, <2>2 DEF Optional, Required
  <2> QED
    BY <1>26, <2>1, <2>2, <2>3 DEF Constructs
<1>30. PICK h, p : h = Construct(no.heap, "Conditional", "none", kids) /\ p = Len(no.heap) + 1
  OBVIOUS
<1>31. PICK R3 : R3 = (R2 \ Entries(kids)) \cup {p}
  OBVIOUS
<1>32. Built(no.heap, h, p, T2 \cup {p}, R3, Outside, "Conditional")
  <2>1. "Conditional" \in ClassNames /\ "none" \in Tags
    BY SomeClasses DEF Tags
  <2> QED
    BY <1>17, <1>23, <1>24, <1>28, <1>29, <1>30, <1>31, <2>1, Building
<1>33. /\ Sound(h, T2 \cup {p}, R3, Outside, {}) /\ p \in Nat /\ p # NULL /\ p \notin Nodes(no.heap)
       /\ \A n \in Nodes(no.heap) : h[n].class = no.heap[n].class
       /\ h[p].class = "Conditional" /\ Len(h) = p
  BY <1>32 DEF Built
<1>34. R3 = (Standing \ Entries(Popped)) \cup {p}
  <2>1. R1 \ {a, d, yes.root} = Standing \ {a, b, d}
    BY <1>2, <1>12, <1>14
  <2>2. R2 \ {a, yes.root, no.root} = R1 \ {a, d, yes.root}
    BY <1>16, <1>17, <1>18
  <2> QED
    BY <1>9, <1>21, <1>31, <2>1, <2>2
<1>35. p \notin Nodes(heap) /\ \A n \in Nodes(heap) : h[n].class = heap[n].class
  BY <1>14, <1>17, <1>33
<1>36. Becomes(Rule, PoppedTypes) = "Conditional"
  BY <1>1 DEF Becomes
<1>37. Reduced(h, p, <<>>)
  BY <1>6, <1>7, <1>11, <1>13, <1>20, <1>30, <1>33 DEF ReduceOneLine
<1>38. Holds(T2 \cup {p}, V)'
  BY <1>1, <1>33, <1>34, <1>35, <1>36, <1>37, NewValue
<1> QED
  BY <1>38 DEF IInv

\* ELSEIF keeps it.
LEMMA ElseIfKeeps ==
  ASSUME NEW T, NEW V, Holds(T, V), ReduceElseIf
  PROVE  IInv'
<1>1. In("parse") /\ pc <= Len(input[f]) /\ Rule.do = "elseif"
  BY DEF ReduceElseIf, Reducing
<1>2. /\ AtRule /\ StackAtRule /\ Sound(heap, T, Standing, Outside, {}) /\ IsHeap(heap)
      /\ Standing \subseteq Nodes(heap) /\ NULL \notin Nodes(heap)
      /\ Entries(Popped) \subseteq Standing \cup {NULL}
  BY <1>1, InParse
<1>3. PICK args : args = Arguments(Rule, PoppedTypes, "null")
  OBVIOUS
<1>4. UsesEach(Rule, PoppedTypes) /\ Constructs("Conditional", args)
  BY <1>1, <1>2, <1>3 DEF AtRule, Reduces
<1>5. KidsFacts
  BY <1>2, <1>4, KidsAre
<1>6. PICK kids \in Seq(Nat) : kids = Kids
  BY <1>5 DEF KidsFacts
<1>7. /\ Entries(kids) \ {NULL} = Entries(Popped) \ {NULL} /\ Distinct(kids)
      /\ TypesOf(heap, kids, args)
  BY <1>3, <1>5, <1>6 DEF KidsFacts
<1>8. Entries(kids) \subseteq Standing \cup {NULL}
  BY <1>2, <1>7
<1>9. PICK h, p : h = Construct(heap, "Conditional", "none", kids) /\ p = Len(heap) + 1
  OBVIOUS
<1>10. PICK R : R = (Standing \ Entries(kids)) \cup {p}
  OBVIOUS
<1>11. Built(heap, h, p, T \cup {p}, R, Outside, "Conditional")
  <2>1. "Conditional" \in ClassNames /\ "none" \in Tags
    BY SomeClasses DEF Tags
  <2> QED
    BY <1>2, <1>4, <1>7, <1>8, <1>9, <1>10, <2>1, Building
<1>12. /\ Sound(h, T \cup {p}, R, Outside, {}) /\ p \in Nat /\ p # NULL /\ p \notin Nodes(heap)
       /\ \A n \in Nodes(heap) : h[n].class = heap[n].class
       /\ Nodes(h) = Nodes(heap) \cup {p} /\ h[p].class = "Conditional"
  BY <1>11 DEF Built
<1>13. p \in R /\ TypeOf(h, p) \in Statement
  BY <1>10, <1>12 DEF TypeOf, Statement
<1>14. PICK r : r = InBlock(h, p)
  OBVIOUS
<1>15. PICK T2, R2 : Boxed(h, p, r, T2, R2, Outside) /\ R2 = (R \ {p}) \cup ({r.root} \ {NULL})
  BY <1>12, <1>13, <1>14, Boxing
<1>16. /\ Sound(r.heap, T2, R2, Outside, {}) /\ r.root \in Nat /\ r.root # NULL /\ r.root \notin Nodes(heap)
       /\ \A n \in Nodes(heap) : r.heap[n].class = heap[n].class
       /\ r.heap[r.root].class = "Block"
  BY <1>12, <1>15 DEF Boxed, TypeOf
<1>17. R2 = (Standing \ Entries(Popped)) \cup {r.root}
  BY <1>2, <1>7, <1>10, <1>12, <1>15, <1>16
<1>18. Becomes(Rule, PoppedTypes) = "Block"
  BY <1>1 DEF Becomes
<1>19. Reduced(r.heap, r.root, <<>>)
  BY <1>6, <1>9, <1>14 DEF ReduceElseIf
<1>20. Holds(T2, V)'
  BY <1>1, <1>16, <1>17, <1>18, <1>19, NewValue
<1> QED
  BY <1>20 DEF IInv

\* A literal is a tree of its own.
LEMMA LiteralBuilt ==
  ASSUME NEW h, NEW T, NEW R, NEW c, Sound(h, T, R, c, {})
  PROVE  Built(h, Construct(h, "Literal", "none", <<>>), Len(h) + 1, T \cup {Len(h) + 1},
               R \cup {Len(h) + 1}, c, "Literal")
<1>1. PICK k \in Seq(Nat) : k = <<>>
  <2>1. <<>> \in Seq(Nat)
    BY EmptySeq
  <2> QED
    BY <2>1
<1>2. Entries(k) = {} /\ DOMAIN k = {} /\ Len(k) = 0 /\ Distinct(k)
  BY <1>1 DEF Entries, Distinct
<1>3. ~IsList("Literal") /\ Len(Class["Literal"].slots) = 0
  BY WhatTheyAccept
<1>4. Constructs("Literal", k) /\ TypesOf(h, k, k)
  BY <1>2, <1>3 DEF Constructs, TypesOf
<1>5. /\ Entries(k) \subseteq R \cup {NULL} /\ Distinct(k)
      /\ "Literal" \in ClassNames /\ "none" \in Tags
  BY <1>2, SomeClasses DEF Tags
<1>6. Built(h, Construct(h, "Literal", "none", k), Len(h) + 1, T \cup {Len(h) + 1},
            (R \ Entries(k)) \cup {Len(h) + 1}, c, "Literal")
  BY <1>4, <1>5, Building
<1> QED
  BY <1>1, <1>2, <1>6

\* A declaration without initializer keeps the invariant.
LEMMA VarDeclKeeps ==
  ASSUME NEW T, NEW V, Holds(T, V), ReduceVarDecl
  PROVE  IInv'
<1>1. In("parse") /\ pc <= Len(input[f]) /\ Rule.do = "decl"
  BY DEF ReduceVarDecl, Reducing
<1>2. /\ AtRule /\ StackAtRule /\ Sound(heap, T, Standing, Outside, {}) /\ IsHeap(heap)
      /\ Standing \subseteq Nodes(heap) /\ NULL \notin Nodes(heap)
      /\ Entries(Popped) \subseteq Standing \cup {NULL}
  BY <1>1, InParse
<1>3. PoppedTypes = <<"ScopedAnnotatedSymbol">>
  BY <1>1, <1>2 DEF AtRule, Reduces
<1>4. PICK n \in Nat : n = Rule.pops
  BY <1>2 DEF AtRule
<1>5. /\ n = 1 /\ DOMAIN Popped = 1 .. n /\ Popped \in Seq(Nat)
      /\ \A i \in 1 .. n : PoppedTypes[i] = TypeOf(heap, Popped[i])
  <2>1. Len(PoppedTypes) = n /\ Len(PoppedTypes) = 1
    BY <1>2, <1>3, <1>4 DEF StackAtRule, SplitInto
  <2> QED
    BY <1>2, <1>4, <2>1 DEF StackAtRule, SplitInto
<1>6. PICK s \in Nat : s = Popped[1]
  <2>1. \A i \in DOMAIN Popped : Popped[i] \in Nat
    BY <1>5
  <2>2. 1 \in DOMAIN Popped
    BY <1>5
  <2> QED
    BY <2>1, <2>2
<1>7. /\ Entries(Popped) = {s} /\ TypeOf(heap, s) = "ScopedAnnotatedSymbol" /\ s # NULL
      /\ s \in Standing
  <2>1. Entries(Popped) = {s} /\ TypeOf(heap, s) = "ScopedAnnotatedSymbol"
    BY <1>3, <1>5, <1>6 DEF Entries
  <2> QED
    BY <1>2, <2>1 DEF TypeOf
<1>8. /\ {"Literal", "InitializerList", "VarDecl"} \subseteq ClassNames /\ "none" \in Tags
      /\ "Literal" # "null" /\ "Literal" \in Expression
  BY SomeClasses DEF Tags, Expression
\* The default value ...
<1>9. PICK h1, p1 : h1 = Construct(heap, "Literal", "none", <<>>) /\ p1 = Len(heap) + 1
  OBVIOUS
<1>10. Built(heap, h1, p1, T \cup {p1}, Standing \cup {p1}, Outside, "Literal")
  BY <1>2, <1>9, LiteralBuilt
<1>11. /\ Sound(h1, T \cup {p1}, Standing \cup {p1}, Outside, {}) /\ p1 \notin Nodes(heap)
       /\ p1 # NULL /\ p1 \in Nat /\ Len(h1) = p1 /\ Nodes(h1) = Nodes(heap) \cup {p1}
       /\ \A m \in Nodes(heap) : h1[m].class = heap[m].class
       /\ h1[p1].class = "Literal"
  BY <1>10 DEF Built
\* ... its list ...
<1>12. PICK k2 \in Seq(Nat) : k2 = <<p1>>
  <2>1. <<p1>> \in Seq(Nat)
    BY <1>11
  <2> QED
    BY <2>1
<1>13. Entries(k2) = {p1} /\ DOMAIN k2 = {1} /\ Len(k2) = 1 /\ Distinct(k2) /\ k2[1] = p1
  BY <1>12 DEF Entries, Distinct
<1>14. PICK h2, p2 : h2 = Construct(h1, "InitializerList", "none", k2) /\ p2 = Len(h1) + 1
  OBVIOUS
<1>15. Built(h1, h2, p2, T \cup {p1} \cup {p2}, Standing \cup {p2}, Outside, "InitializerList")
  <2>1. PICK types : types = <<"Literal">>
    OBVIOUS
  <2>2. DOMAIN types = {1} /\ Len(types) = 1 /\ types[1] = "Literal"
    BY <2>1
  <2>3. TypesOf(h1, k2, types)
    BY <1>11, <1>13, <2>2 DEF TypesOf, TypeOf
  <2>4. IsList("InitializerList") /\ \A i : Accepts("InitializerList", i) = Required(Expression)
    BY WhatTheyAccept
  <2>5. Constructs("InitializerList", types)
    BY <1>8, <2>2, <2>4 DEF Constructs, Required
  <2>6. Entries(k2) \subseteq Standing \cup {p1} \cup {NULL}
    BY <1>13
  <2>7. Built(h1, h2, p2, T \cup {p1} \cup {p2}, ((Standing \cup {p1}) \ Entries(k2)) \cup {p2},
              Outside, "InitializerList")
    BY <1>8, <1>11, <1>13, <1>14, <2>3, <2>5, <2>6, Building
  <2>8. (Standing \cup {p1}) \ Entries(k2) = Standing
    BY <1>2, <1>11, <1>13
  <2> QED
    BY <2>7, <2>8
<1>16. /\ Sound(h2, T \cup {p1} \cup {p2}, Standing \cup {p2}, Outside, {}) /\ p2 \notin Nodes(h1)
       /\ p2 # NULL /\ p2 \in Nat /\ Len(h2) = p2 /\ Nodes(h2) = Nodes(h1) \cup {p2}
       /\ \A m \in Nodes(h1) : h2[m].class = h1[m].class
       /\ h2[p2].class = "InitializerList"
  BY <1>15 DEF Built
\* ... and the declaration.
<1>17. PICK k3 \in Seq(Nat) : k3 = <<s, p2>>
  <2>1. <<s, p2>> \in Seq(Nat)
    BY <1>16
  <2> QED
    BY <2>1
<1>18. s # p2
  BY <1>2, <1>7, <1>11, <1>16
<1>19. Entries(k3) = {s, p2} /\ DOMAIN k3 = {1, 2} /\ Len(k3) = 2 /\ Distinct(k3)
       /\ k3[1] = s /\ k3[2] = p2
  BY <1>17, <1>18 DEF Entries, Distinct
<1>20. PICK h3, p3 : h3 = Construct(h2, "VarDecl", "none", k3) /\ p3 = Len(h2) + 1
  OBVIOUS
<1>21. Built(h2, h3, p3, T \cup {p1} \cup {p2} \cup {p3}, (Standing \ {s}) \cup {p3}, Outside, "VarDecl")
  <2>1. PICK types : types = <<"ScopedAnnotatedSymbol", "InitializerList">>
    OBVIOUS
  <2>2. DOMAIN types = {1, 2} /\ Len(types) = 2 /\ types[1] = "ScopedAnnotatedSymbol"
        /\ types[2] = "InitializerList"
    BY <2>1
  <2>3. h2[s].class = "ScopedAnnotatedSymbol"
    BY <1>2, <1>7, <1>11, <1>16 DEF TypeOf
  <2>4. TypesOf(h2, k3, types)
    BY <1>7, <1>16, <1>19, <2>2, <2>3 DEF TypesOf, TypeOf
  <2>5. /\ ~IsList("VarDecl") /\ Len(Class["VarDecl"].slots) = 2
        /\ Accepts("VarDecl", 1) = Required({"ScopedAnnotatedSymbol"})
        /\ Accepts("VarDecl", 2) = Required({"InitializerList"})
    BY WhatTheyAccept
  <2>6. Constructs("VarDecl", types)
    BY <2>2, <2>5 DEF Constructs, Required
  <2>7. Entries(k3) \subseteq Standing \cup {p2} \cup {NULL}
    BY <1>7, <1>19
  <2>8. Built(h2, h3, p3, T \cup {p1} \cup {p2} \cup {p3}, ((Standing \cup {p2}) \ Entries(k3)) \cup {p3},
              Outside, "VarDecl")
    BY <1>8, <1>16, <1>19, <1>20, <2>4, <2>6, <2>7, Building
  <2>9. (Standing \cup {p2}) \ Entries(k3) = Standing \ {s}
    BY <1>2, <1>11, <1>16, <1>19
  <2> QED
    BY <2>8, <2>9
<1>22. PICK T3 : T3 = T \cup {p1} \cup {p2} \cup {p3}
  OBVIOUS
<1>23. /\ Sound(h3, T3, (Standing \ Entries(Popped)) \cup {p3}, Outside, {})
       /\ p3 # NULL /\ p3 \in Nat /\ Len(h3) = p3 /\ p3 \notin Nodes(heap)
       /\ \A m \in Nodes(heap) : h3[m].class = heap[m].class
       /\ h3[p3].class = "VarDecl"
  BY <1>7, <1>11, <1>16, <1>21, <1>22 DEF Built
<1>24. Becomes(Rule, PoppedTypes) = "VarDecl"
  BY <1>1 DEF Becomes
<1>25. h3 = WithDefaultValue(s)
  BY <1>9, <1>11, <1>12, <1>14, <1>16, <1>17, <1>20 DEF WithDefaultValue
<1>26. Reduced(h3, p3, <<>>)
  BY <1>6, <1>23, <1>25 DEF ReduceVarDecl
<1>27. Holds(T3, V)'
  BY <1>1, <1>23, <1>24, <1>26, NewValue
<1> QED
  BY <1>27 DEF IInv

\* The counts with the references that are to be released.
WithDropped(c, dropped) == [n \in Nat |-> c[n] + Occ(dropped, n)]
\* References that will be released are held until then.
LEMMA WithDroppedIs ==
  ASSUME NEW c \in Counts, NEW dropped \in Seq(Nat)
  PROVE  /\ WithDropped(c, dropped) \in Counts
         /\ \A n \in Nat : WithDropped(c, dropped)[n] = c[n] + Occ(dropped, n)
<1>1. \A n \in Nat : c[n] \in Nat /\ Occ(dropped, n) \in Nat
  BY PlacesAreFinite DEF Counts
<1>2. ASSUME NEW n \in Nat PROVE c[n] + Occ(dropped, n) \in Nat
  <2>1. PICK x, y \in Nat : x = c[n] /\ y = Occ(dropped, n)
    BY <1>1
  <2>2. x + y \in Nat
    OBVIOUS
  <2> QED
    BY <2>1, <2>2
<1> QED
  BY <1>2 DEF WithDropped, Counts

\* A declaration gets another list of initializers.
LastSlot(class) ==
  LET i == Len(Class[class].slots) IN
  /\ i \in {2, 3} /\ ~IsList(class) /\ class # "UDTFieldOuter"
  /\ Accepts(class, i).types = {"InitializerList"}
\* The last child of any declaration is its list of initializers.
LEMMA Declarations ==
  ASSUME NEW class \in AnyVarDecl
  PROVE  LastSlot(class)
<1>1. /\ ~IsList("VarDecl") /\ Len(Class["VarDecl"].slots) = 2
      /\ Accepts("VarDecl", 2) = Required({"InitializerList"})
  BY WhatTheyAccept
<1>2. /\ ~IsList("UDTVarDecl") /\ Len(Class["UDTVarDecl"].slots) = 3
      /\ Accepts("UDTVarDecl", 3) = Optional({"InitializerList"})
  BY WhatTheyAccept
<1>3. LastSlot("VarDecl")
  BY <1>1 DEF LastSlot, Required
<1>4. LastSlot("UDTVarDecl")
  BY <1>2 DEF LastSlot, Optional
<1> QED
  BY <1>3, <1>4 DEF AnyVarDecl

Placed(g, T, T2, R2, c, c2, old) ==
  /\ Graph(g, R2, c2) /\ Forest(g, T2, R2, {}) /\ T2 \subseteq T
  /\ \A m \in Nat : c2[m] = c[m] + Occ(<<old>>, m)
\* A root takes the place of a child of another tree, which is held until it is released.
LEMMA Placing ==
  ASSUME NEW h, NEW R, NEW c, Graph(h, R, c), NEW T, Forest(h, T, R, {}),
         NEW p \in R, NEW n \in R, n # p, NEW old \in Nat, old = NULL \/ old \in Children(h, p),
         NEW g, Linked(h, g, p, n, {old})
  PROVE  \E T2, c2 : Placed(g, T, T2, R \ {n}, c, c2, old)
<1>1. PICK dropped \in Seq(Nat) : dropped = <<old>>
  <2>1. <<old>> \in Seq(Nat)
    OBVIOUS
  <2> QED
    BY <2>1
<1>2. c \in Counts
  BY DEF Graph
<1>3. PICK c2 \in Counts : \A m \in Nat : c2[m] = c[m] + Occ(dropped, m)
  BY <1>2, WithDroppedIs
<1>4. \A m \in Nat : Occ(dropped, m) = IF m = old THEN 1 ELSE 0
  BY <1>1, OccSingle
<1>5. CASE old # NULL
  <2>1. old \in Children(h, p)
    BY <1>5
  <2>2. \A m \in Nat \ {NULL} : c2[m] = c[m] + (IF m \in {old} THEN 1 ELSE 0)
    BY <1>3, <1>4
  <2>3. Graph(h, R, c) /\ Forest(h, T, R, {}) /\ Linked(h, g, p, n, {old})
    OBVIOUS
  <2>4. Graph(g, R \ {n}, c2) /\ Forest(g, T \ Below(h, old), R \ {n}, {})
    BY <1>3, <2>1, <2>2, <2>3, ReplaceForest
  <2> QED
    BY <1>1, <1>3, <2>4 DEF Placed
<1>6. CASE old = NULL
  <2>1. Children(h, p) \ {old} = Children(h, p) \ {}
    BY <1>6 DEF Children
  <2>2. Linked(h, g, p, n, {})
    BY <2>1 DEF Linked
  <2>3. T \subseteq Live(h) /\ n \in T
    BY DEF Forest
  <2>4. \A o \in Live(h) : n \notin Children(h, o)
    BY RootHasNoOwner
  <2>5. p \in Live(h)
    BY DEF Graph
  <2>6. n \notin Children(h, p) /\ \A o \in T : n \in Children(h, o) => <<o, n>> \in {}
    BY <2>3, <2>4, <2>5
  <2>7. Graph(g, R \ {n}, c) /\ Forest(g, T, R \ {n}, {})
    BY <2>2, <2>3, <2>6, LinkForest
  <2>8. \A m \in Nat \ {NULL} : c2[m] = c[m]
    <3>1. \A m \in Nat \ {NULL} : c[m] \in Nat /\ c2[m] = c[m] + 0
      BY <1>2, <1>3, <1>4, <1>6 DEF Counts
    <3> QED
      BY <3>1
  <2>9. Graph(g, R \ {n}, c2)
    BY <1>3, <2>7, <2>8, SameReferences
  <2> QED
    BY <1>1, <1>3, <2>7, <2>9 DEF Placed
<1> QED
  BY <1>5, <1>6

Initialized(h, g, p, n, i, T, R, c, old) ==
  /\ g = SetInitializer(h, p, i, n) /\ old = h[p].kids[i]
  /\ old \notin R \ {n} /\ old \in Nat
  /\ \A m \in Nodes(h) : g[m].class = h[m].class
  /\ \E T2, c2 : /\ Sound(g, T2, R \ {n}, c2, {})
                 /\ \A m \in Nat \ {NULL} : c2[m] = c[m] + Occ(<<old>>, m)
\* setInitializer on a declaration.
LEMMA Initializing ==
  ASSUME NEW h, NEW T, NEW R, NEW c, Sound(h, T, R, c, {}),
         NEW p \in R, NEW n \in R, n # p, h[p].class \in AnyVarDecl, h[n].class = "InitializerList",
         NEW i, i = Len(h[p].kids), NEW g, g = SetInitializer(h, p, i, n)
  PROVE  Initialized(h, g, p, n, i, T, R, c, h[p].kids[i])
<1>1. Graph(h, R, c) /\ Forest(h, T, R, {}) /\ AllFit(h, T)
  BY DEF Sound
<1>2. /\ IsHeap(h) /\ Whole(h) /\ R \subseteq T /\ T \in SUBSET Live(h) /\ c \in Counts
  BY <1>1 DEF Graph, Forest
<1>3. /\ T \in SUBSET Nodes(h) /\ p \in Nodes(h) /\ n \in Nodes(h) /\ p \in T /\ n \in T
      /\ p \in Live(h) /\ n \in Live(h) /\ NULL \notin Nodes(h)
  BY <1>2, HeapFacts
<1>4. h[p].kids \in Seq(Nat) /\ Distinct(h[p].kids)
  BY <1>2, <1>3, HeapFacts DEF Whole
<1>5. LastSlot(h[p].class)
  BY Declarations
<1>6. Fits(h, p)
  BY <1>1, <1>3 DEF AllFit
<1>7. i \in {2, 3} /\ Accepts(h[p].class, i).types = {"InitializerList"} /\ h[p].class # "UDTFieldOuter"
  BY <1>5, <1>6 DEF Fits, LastSlot
<1>8. i \in Slots(h, p)
  <2>1. PICK k \in Seq(Nat), L \in Nat : k = h[p].kids /\ L = Len(k)
    BY <1>4
  <2>2. DOMAIN k = 1 .. L /\ L = i
    BY <2>1
  <2>3. i \in 1 .. i
    <3>1. i = 2 \/ i = 3
      BY <1>7
    <3>2. \A x \in {2, 3} : x \in 1 .. x
      OBVIOUS
    <3>3. i \in {2, 3}
      BY <3>1
    <3> QED
      BY <3>2, <3>3
  <2> QED
    BY <2>1, <2>2, <2>3 DEF Slots
<1>9. PICK old : old = h[p].kids[i]
  OBVIOUS
<1>10. old \in Nat
  BY <1>4, <1>8, <1>9 DEF Slots
<1>11. \A o \in Live(h) : n \notin Children(h, o)
  BY <1>1, RootHasNoOwner
<1>12. n \notin Children(h, p)
  BY <1>3, <1>11
<1>25. InitializerSet(h, g, p, n, i)
  BY <1>2, <1>3, <1>4, <1>8, <1>12, SetInitializerIs
<1>13. /\ Linked(h, g, p, n, {old}) /\ Len(g[p].kids) = Len(h[p].kids) /\ g[p].kids[i] = n
       /\ \A j \in Slots(h, p) : j # i => g[p].kids[j] = h[p].kids[j]
  BY <1>9, <1>25 DEF InitializerSet
<1>14. /\ IsHeap(g) /\ Nodes(g) = Nodes(h)
       /\ \A m \in Nodes(h) : g[m].class = h[m].class /\ (m # p => g[m].kids = h[m].kids)
  BY <1>13 DEF Linked
<1>15. AllFit(g, T)
  <2>1. DOMAIN g[p].kids = DOMAIN h[p].kids
    <3>1. g[p].kids \in Seq(Nat)
      BY <1>3, <1>14, HeapFacts
    <3> QED
      BY <1>4, <1>13, <3>1
  <2>2. Permits(h[p].class, i, g[n].class)
    BY <1>3, <1>7, <1>14 DEF Permits
  <2>3. n # NULL
    BY <1>3
  <2>4. KidReplaced(h, g, p, n, i)
    BY <1>8, <1>13, <1>14, <2>1, <2>2, <2>3 DEF KidReplaced, Slots
  <2> QED
    BY <1>1, <1>2, <1>3, <2>4, ReplaceFits
<1>16. old \notin R \ {n}
  <2>1. old # NULL => old \in Children(h, p)
    BY <1>8, <1>9 DEF Children
  <2>2. \A r \in R : r \notin Children(h, p)
    BY <1>1, <1>3, RootHasNoOwner
  <2> QED
    BY <1>2, <1>3, <2>1, <2>2
<1>17. old = NULL \/ old \in Children(h, p)
  BY <1>8, <1>9 DEF Children
<1>18. Linked(h, g, p, n, {old})
  BY <1>13
<1>19. PICK T2, c2 : Placed(g, T, T2, R \ {n}, c, c2, old)
  BY <1>1, <1>10, <1>17, <1>18, Placing
<1>20. AllFit(g, T2)
  BY <1>15, <1>19 DEF AllFit, Placed
<1>21. Sound(g, T2, R \ {n}, c2, {}) /\ \A m \in Nat \ {NULL} : c2[m] = c[m] + Occ(<<old>>, m)
  BY <1>19, <1>20 DEF Sound, Placed
<1> QED
  BY <1>9, <1>10, <1>14, <1>16, <1>21 DEF Initialized

\* A declaration with initializers keeps the invariant.
LEMMA InitializerKeeps ==
  ASSUME NEW T, NEW V, Holds(T, V), ReduceInitializer
  PROVE  IInv'
<1>1. In("parse") /\ pc <= Len(input[f]) /\ Rule.do = "initializer"
  BY DEF ReduceInitializer, Reducing
<1>2. /\ AtRule /\ StackAtRule /\ Sound(heap, T, Standing, Outside, {}) /\ IsHeap(heap)
      /\ Standing \subseteq Nodes(heap) /\ NULL \notin Nodes(heap)
      /\ Entries(Popped) \subseteq Standing \cup {NULL}
  BY <1>1, InParse
<1>3. PoppedTypes[1] \in AnyVarDecl /\ PoppedTypes = <<PoppedTypes[1], "InitializerList">>
  BY <1>1, <1>2 DEF AtRule, Reduces
<1>4. PICK k \in Nat : k = Rule.pops
  BY <1>2 DEF AtRule
<1>5. k = 2 /\ PoppedTypes[2] = "InitializerList"
  <2>1. Len(PoppedTypes) = k
    BY <1>2, <1>4 DEF StackAtRule, SplitInto
  <2> QED
    BY <1>3, <2>1
<1>6. /\ DOMAIN Popped = 1 .. k /\ Popped \in Seq(Nat) /\ Distinct(Popped)
      /\ \A j \in 1 .. k : PoppedTypes[j] = TypeOf(heap, Popped[j])
  BY <1>2, <1>4 DEF StackAtRule, SplitInto, SplitEntries
<1>7. PICK p, n \in Nat : p = Popped[1] /\ n = Popped[2]
  <2>1. \A j \in DOMAIN Popped : Popped[j] \in Nat
    BY <1>6
  <2>2. 1 \in DOMAIN Popped /\ 2 \in DOMAIN Popped
    BY <1>5, <1>6
  <2> QED
    BY <2>1, <2>2
<1>8. /\ DOMAIN Popped = {1, 2} /\ TypeOf(heap, p) \in AnyVarDecl /\ TypeOf(heap, n) = "InitializerList"
  BY <1>3, <1>5, <1>6, <1>7
<1>9. Entries(Popped) = {p, n}
  BY <1>7, <1>8 DEF Entries
<1>10. /\ p # NULL /\ n # NULL /\ p # n
       /\ heap[p].class \in AnyVarDecl /\ heap[n].class = "InitializerList"
  <2>1. p # NULL /\ n # NULL
    BY <1>8 DEF TypeOf, AnyVarDecl
  <2> QED
    <3>1. heap[p].class \in AnyVarDecl /\ heap[n].class = "InitializerList"
      BY <1>8, <2>1 DEF TypeOf
    <3>2. 1 \in DOMAIN Popped /\ 2 \in DOMAIN Popped /\ Popped[1] = p /\ Popped[2] = n
      BY <1>7, <1>8
    <3>3. p # n
      BY <1>6, <2>1, <3>2 DEF Distinct
    <3> QED
      BY <2>1, <3>1, <3>3
<1>11. p \in Standing /\ n \in Standing
  BY <1>2, <1>9, <1>10
<1>12. PICK i, h, old : /\ i = Len(heap[p].kids) /\ h = SetInitializer(heap, p, i, n)
                        /\ old = heap[p].kids[i]
  OBVIOUS
<1>13. Initialized(heap, h, p, n, i, T, Standing, Outside, old)
  BY <1>2, <1>10, <1>11, <1>12, Initializing
<1>14. PICK T2, c2 : /\ Sound(h, T2, Standing \ {n}, c2, {})
                     /\ \A m \in Nat \ {NULL} : c2[m] = Outside[m] + Occ(<<old>>, m)
  BY <1>13 DEF Initialized
<1>15. /\ old \notin Standing \ {n} /\ old \in Nat
       /\ \A m \in Nodes(heap) : h[m].class = heap[m].class
  BY <1>13 DEF Initialized
<1>16. Standing \ {n} = (Standing \ Entries(Popped)) \cup ({p} \ {NULL})
  BY <1>9, <1>10, <1>11
<1>17. TypeOf(h, p) = Becomes(Rule, PoppedTypes)
  <2>1. Becomes(Rule, PoppedTypes) = PoppedTypes[1]
    BY <1>1 DEF Becomes
  <2>2. p \in Nodes(heap) /\ PoppedTypes[1] = heap[p].class
    BY <1>2, <1>5, <1>6, <1>7, <1>10, <1>11 DEF TypeOf
  <2> QED
    BY <1>10, <1>15, <2>1, <2>2 DEF TypeOf
<1>18. <<old>> \in Seq(Nat) /\ Entries(<<old>>) = {old}
  BY <1>15 DEF Entries
<1>19. Entries(<<old>>) \cap (Standing \ {n}) = {}
  BY <1>15, <1>18
<1>20. ReductionOf(h, p, <<old>>, T2, Standing \ {n}, c2)
  BY <1>7, <1>9, <1>14, <1>15, <1>16, <1>17, <1>18, <1>19 DEF ReductionOf
<1>21. Reduced(h, p, <<old>>)
  BY <1>7, <1>12 DEF ReduceInitializer
<1>22. Holds(T2, V)'
  BY <1>1, <1>20, <1>21, ReductionKeeps
<1> QED
  BY <1>22 DEF IInv

\* What an assignment is made of.
AssignsLValue(class) ==
  /\ class \in ClassNames /\ ~IsList(class) /\ Len(Class[class].slots) = 2
  /\ class # "UDTFieldOuter"
  /\ Accepts(class, 1).types \subseteq Expression
  /\ Accepts(class, 2).types = Expression
\* What any assignment accepts.
LEMMA Assignments ==
  ASSUME NEW class \in AnyAssignment
  PROVE  AssignsLValue(class)
<1>1. AnyAssignment \subseteq ClassNames
  BY DEF AnyAssignment, ClassNames, Class
<1>2. AssignsLValue("VarAssignment")
  BY <1>1, NamedClasses DEF AssignsLValue, AnyAssignment, VarAssignment, Fixed, Required, IsList,
     Accepts, Expression, LValue
<1>3. AssignsLValue("ArrayAssignment")
  BY <1>1, NamedClasses DEF AssignsLValue, AnyAssignment, ArrayAssignment, Fixed, Required, IsList,
     Accepts, Expression, LValue
<1>4. AssignsLValue("UDTFieldAssignment")
  BY <1>1, NamedClasses DEF AssignsLValue, AnyAssignment, UDTFieldAssignment, Fixed, Required,
     IsList, Accepts, Expression, LValue
<1> QED
  BY <1>2, <1>3, <1>4 DEF AnyAssignment

Pair(k, a, b) ==
  /\ k = <<a, b>> /\ k \in Seq(Nat) /\ Entries(k) = {a, b} /\ DOMAIN k = {1, 2} /\ Len(k) = 2
  /\ k[1] = a /\ k[2] = b /\ Distinct(k)
\* Sequences of two.
LEMMA Pairs ==
  ASSUME NEW a \in Nat, NEW b \in Nat, a # b
  PROVE  \E k \in Seq(Nat) : Pair(k, a, b)
<1>1. <<a, b>> \in Seq(Nat)
  OBVIOUS
<1>2. PICK k \in Seq(Nat) : k = <<a, b>>
  BY <1>1
<1>3. /\ Entries(k) = {a, b} /\ DOMAIN k = {1, 2} /\ Len(k) = 2 /\ Distinct(k)
      /\ k[1] = a /\ k[2] = b
  BY <1>2 DEF Entries, Distinct
<1> QED
  BY <1>2, <1>3 DEF Pair

\* The copy, the sum and the assignment.
Assignment(h, g, p, T, R, c, class) ==
  /\ Sound(g, T, R, c, {})
  /\ p = Len(g) /\ p \in Nat /\ p # NULL /\ p \notin Nodes(h)
  /\ \A n \in Nodes(h) : g[n].class = h[n].class
  /\ g[p].class = class
\* INC and DEC: the assignment of a sum to a copy of what it reads.
LEMMA Assigning ==
  ASSUME NEW h, NEW T, NEW R, NEW c, Sound(h, T, R, c, {}), Rule.class \in AnyAssignment,
         NEW lv \in R, NEW am \in R, lv # am,
         h[lv].class \in Accepts(Rule.class, 1).types, h[am].class \in Expression
  PROVE  \E T2, p : Assignment(h, Assigned(h, lv, am), p, T2, (R \ {lv, am}) \cup {p}, c, Rule.class)
<1>1. Graph(h, R, c) /\ Forest(h, T, R, {}) /\ AllFit(h, T)
  BY DEF Sound
<1>2. /\ IsHeap(h) /\ Whole(h) /\ R \subseteq Nodes(h) /\ T \in SUBSET Nodes(h) /\ NULL \notin Nodes(h)
  BY <1>1, HeapFacts DEF Graph, Forest
<1>3. lv \in Nodes(h) /\ am \in Nodes(h) /\ lv \in Nat /\ am \in Nat
  BY <1>2, HeapFacts
<1>4. PICK class : class = Rule.class
  OBVIOUS
<1>5. AssignsLValue(class)
  BY <1>4, Assignments
\* The copy.
<1>6. PICK old : old = Below(h, lv)
  OBVIOUS
<1>7. PICK g1, K : Duplicate(h, lv) = [heap |-> g1, root |-> K[lv]] /\ Duplicated(h, g1, lv, old, K)
  BY <1>1, <1>6, DuplicateIs
<1>8. PICK q, T1 : q = K[lv] /\ T1 = T \cup {K[m] : m \in old}
  OBVIOUS
<1>9. /\ Graph(g1, R \cup {q}, c) /\ Forest(g1, T1, R \cup {q}, {})
      /\ lv \in old /\ old \subseteq T
  <2>1. Duplicated(h, g1, lv, old, K) /\ lv \in R
    BY <1>7
  <2>2. /\ Graph(g1, R \cup {K[lv]}, c)
        /\ Forest(g1, T \cup {K[m] : m \in old}, R \cup {K[lv]}, {})
        /\ lv \in old /\ old \subseteq T
    BY <1>1, <1>6, <2>1, DuplicateForest
  <2> QED
    BY <1>8, <2>2
<1>10. Copies(h, g1, old, K)
  BY <1>7 DEF Duplicated
<1>11. Closed(h, old)
  <2>1. lv \in Live(h) \cup {NULL}
    BY <1>1 DEF Graph
  <2> QED
    BY <1>2, <1>6, <2>1, BelowFacts
<1>12. AllFit(g1, T1)
  BY <1>1, <1>2, <1>8, <1>9, <1>10, <1>11, CopiesFit
<1>13. Sound(g1, T1, R \cup {q}, c, {})
  BY <1>9, <1>12 DEF Sound
<1>14. /\ q \in Nat /\ q # NULL /\ q \notin Nodes(h) /\ g1[q].class = h[lv].class
       /\ Nodes(h) \subseteq Nodes(g1) /\ \A n \in Nodes(h) : g1[n] = h[n]
  BY <1>8, <1>9, <1>10 DEF Copies
<1>15. q \in Nodes(g1)
  BY <1>8, <1>9, <1>10 DEF Copies
\* The sum.
<1>16. PICK k1 \in Seq(Nat) : Pair(k1, lv, am)
  BY <1>3, Pairs
<1>17. k1 = <<lv, am>> /\ Entries(k1) = {lv, am} /\ DOMAIN k1 = {1, 2} /\ Len(k1) = 2
       /\ k1[1] = lv /\ k1[2] = am /\ Distinct(k1)
  BY <1>16 DEF Pair
<1>18. PICK t1 : t1 = <<g1[lv].class, g1[am].class>>
  OBVIOUS
<1>19. DOMAIN t1 = {1, 2} /\ Len(t1) = 2 /\ t1[1] = g1[lv].class /\ t1[2] = g1[am].class
  BY <1>18
<1>20. TypesOf(g1, k1, t1)
  BY <1>2, <1>3, <1>17, <1>19 DEF TypesOf, TypeOf
<1>21. t1[1] \in Expression /\ t1[2] \in Expression /\ t1[1] # "null" /\ t1[2] # "null"
  <2>1. t1[1] \in Expression /\ t1[2] \in Expression
    BY <1>3, <1>4, <1>5, <1>14, <1>19 DEF AssignsLValue
  <2> QED
    BY <2>1, NullIsNoClass, ExpressionsAreClasses
<1>22. Constructs("BinaryOp", t1)
  <2>1. /\ ~IsList("BinaryOp") /\ Len(Class["BinaryOp"].slots) = 2
        /\ Accepts("BinaryOp", 1) = Required(Expression) /\ Accepts("BinaryOp", 2) = Required(Expression)
    BY WhatTheyAccept
  <2> QED
    BY <1>19, <1>21, <2>1 DEF Constructs, Required
<1>23. PICK g2, p2 : g2 = Construct(g1, "BinaryOp", "inc", k1) /\ p2 = Len(g1) + 1
  OBVIOUS
<1>24. PICK R2 : R2 = ((R \cup {q}) \ Entries(k1)) \cup {p2}
  OBVIOUS
<1>25. Built(g1, g2, p2, T1 \cup {p2}, R2, c, "BinaryOp")
  <2>1. "BinaryOp" \in ClassNames /\ "inc" \in Tags
    BY SomeClasses DEF Tags
  <2>2. Entries(k1) \subseteq (R \cup {q}) \cup {NULL}
    BY <1>17
  <2> QED
    BY <1>13, <1>17, <1>20, <1>22, <1>23, <1>24, <2>1, <2>2, Building
<1>26. /\ Sound(g2, T1 \cup {p2}, R2, c, {}) /\ p2 \notin Nodes(g1) /\ p2 # NULL /\ p2 \in Nat
       /\ Len(g2) = p2 /\ Nodes(g2) = Nodes(g1) \cup {p2}
       /\ \A n \in Nodes(g1) : g2[n].class = g1[n].class
       /\ g2[p2].class = "BinaryOp"
  BY <1>25 DEF Built
\* The assignment.
<1>27. q # p2
  BY <1>15, <1>26
<1>28. PICK k2 \in Seq(Nat) : Pair(k2, q, p2)
  BY <1>14, <1>26, <1>27, Pairs
<1>29. k2 = <<q, p2>> /\ Entries(k2) = {q, p2} /\ DOMAIN k2 = {1, 2} /\ Len(k2) = 2
       /\ k2[1] = q /\ k2[2] = p2 /\ Distinct(k2)
  BY <1>28 DEF Pair
<1>30. PICK t2 : t2 = <<h[lv].class, "BinaryOp">>
  OBVIOUS
<1>31. DOMAIN t2 = {1, 2} /\ Len(t2) = 2 /\ t2[1] = h[lv].class /\ t2[2] = "BinaryOp"
  BY <1>30
<1>32. TypesOf(g2, k2, t2)
  <2>1. g2[q].class = h[lv].class
    BY <1>14, <1>15, <1>26
  <2> QED
    BY <1>14, <1>26, <1>29, <1>31, <2>1 DEF TypesOf, TypeOf
<1>33. Constructs(class, t2)
  <2>1. "BinaryOp" \in Expression /\ h[lv].class \in Expression
    BY <1>4, <1>5 DEF AssignsLValue, Expression
  <2>2. t2[1] # "null" /\ t2[2] # "null"
    BY <1>31, <2>1, NullIsNoClass, ExpressionsAreClasses
  <2>3. t2[1] \in Accepts(class, 1).types /\ t2[2] \in Accepts(class, 2).types
    BY <1>4, <1>5, <1>31, <2>1 DEF AssignsLValue
  <2>4. ~IsList(class) /\ Len(Class[class].slots) = 2 /\ class # "UDTFieldOuter"
    BY <1>5 DEF AssignsLValue
  <2> QED
    BY <1>31, <2>2, <2>3, <2>4 DEF Constructs
<1>34. PICK g3, p3 : g3 = Construct(g2, class, "none", k2) /\ p3 = Len(g2) + 1
  OBVIOUS
<1>35. PICK R3 : R3 = (R2 \ Entries(k2)) \cup {p3}
  OBVIOUS
<1>36. Built(g2, g3, p3, (T1 \cup {p2}) \cup {p3}, R3, c, class)
  <2>1. class \in ClassNames /\ "none" \in Tags
    BY <1>5 DEF AssignsLValue, Tags
  <2>2. Entries(k2) \subseteq R2 \cup {NULL}
    BY <1>2, <1>3, <1>14, <1>17, <1>24, <1>29
  <2> QED
    BY <1>26, <1>29, <1>32, <1>33, <1>34, <1>35, <2>1, <2>2, Building
<1>37. /\ Sound(g3, (T1 \cup {p2}) \cup {p3}, R3, c, {}) /\ p3 \notin Nodes(g2) /\ p3 # NULL /\ p3 \in Nat
       /\ Len(g3) = p3 /\ \A n \in Nodes(g2) : g3[n].class = g2[n].class
       /\ g3[p3].class = class
  BY <1>36 DEF Built
<1>38. R3 = (R \ {lv, am}) \cup {p3}
  BY <1>2, <1>14, <1>15, <1>17, <1>24, <1>26, <1>29, <1>35
<1>39. g3 = Assigned(h, lv, am)
  <2>1. PICK d : d = CopyOf(h, lv)
    OBVIOUS
  <2>2. d.heap = g1 /\ d.root = q
    BY <1>7, <1>8, <2>1 DEF CopyOf
  <2>3. Assigned(h, lv, am) =
          Construct(Construct(d.heap, "BinaryOp", "inc", <<lv, am>>), Rule.class, "none",
                    <<d.root, Len(Construct(d.heap, "BinaryOp", "inc", <<lv, am>>))>>)
    BY <2>1 DEF Assigned
  <2> QED
    BY <1>4, <1>17, <1>23, <1>26, <1>29, <1>34, <2>2, <2>3
<1>40. \A n \in Nodes(h) : n \in Nodes(g1) /\ n \in Nodes(g2) /\ g3[n].class = h[n].class
  BY <1>14, <1>26, <1>37
<1>41. p3 \notin Nodes(h)
  BY <1>37, <1>40
<1>42. Assignment(h, g3, p3, (T1 \cup {p2}) \cup {p3}, (R \ {lv, am}) \cup {p3}, c, class)
  BY <1>37, <1>38, <1>40, <1>41 DEF Assignment
<1> QED
  BY <1>4, <1>39, <1>42

\* INC and DEC keep the invariant.
LEMMA IncDecKeeps ==
  ASSUME NEW T, NEW V, Holds(T, V), ReduceIncDec
  PROVE  IInv'
<1>1. In("parse") /\ pc <= Len(input[f]) /\ Rule.do = "incdec"
  BY DEF ReduceIncDec, Reducing
<1>2. /\ AtRule /\ StackAtRule /\ Sound(heap, T, Standing, Outside, {}) /\ IsHeap(heap)
      /\ Standing \subseteq Nodes(heap) /\ NULL \notin Nodes(heap)
      /\ Entries(Popped) \subseteq Standing \cup {NULL}
  BY <1>1, InParse
<1>3. PICK k \in Nat : k = Rule.pops
  BY <1>2 DEF AtRule
<1>4. /\ k \in {1, 2} /\ Rule.class \in AnyAssignment
      /\ PoppedTypes[1] \in Accepts(Rule.class, 1).types
      /\ k = 2 => PoppedTypes[2] \in Expression
  BY <1>1, <1>2, <1>3 DEF AtRule, Reduces
<1>5. /\ DOMAIN Popped = 1 .. k /\ Popped \in Seq(Nat) /\ Distinct(Popped)
      /\ \A j \in 1 .. k : PoppedTypes[j] = TypeOf(heap, Popped[j])
  BY <1>2, <1>3 DEF StackAtRule, SplitInto, SplitEntries
<1>6. PICK lv \in Nat : lv = Popped[1]
  <2>1. \A j \in DOMAIN Popped : Popped[j] \in Nat
    BY <1>5
  <2>2. 1 \in DOMAIN Popped
    BY <1>4, <1>5
  <2> QED
    BY <2>1, <2>2
<1>7. /\ lv \in Entries(Popped) /\ TypeOf(heap, lv) \in Accepts(Rule.class, 1).types
      /\ lv # NULL /\ lv \in Standing
  <2>1. lv \in Entries(Popped) /\ TypeOf(heap, lv) \in Accepts(Rule.class, 1).types
    BY <1>4, <1>5, <1>6 DEF Entries
  <2>2. TypeOf(heap, lv) # "null"
    BY <1>4, <2>1, Assignments, NullIsNoClass, ExpressionsAreClasses DEF AssignsLValue
  <2>3. lv # NULL
    BY <2>2 DEF TypeOf
  <2> QED
    BY <1>2, <2>1, <2>3
<1>8. heap[lv].class \in Accepts(Rule.class, 1).types
  BY <1>7 DEF TypeOf
<1>9. Becomes(Rule, PoppedTypes) = Rule.class
  BY <1>1 DEF Becomes
\* INC x
<1>10. CASE k = 1
  <2>1. PICK h1, p1 : h1 = Construct(heap, "Literal", "none", <<>>) /\ p1 = Len(heap) + 1
    OBVIOUS
  <2>2. Built(heap, h1, p1, T \cup {p1}, Standing \cup {p1}, Outside, "Literal")
    BY <1>2, <2>1, LiteralBuilt
  <2>3. /\ Sound(h1, T \cup {p1}, Standing \cup {p1}, Outside, {}) /\ p1 \notin Nodes(heap)
        /\ p1 # NULL /\ p1 \in Nat /\ Len(h1) = p1
        /\ \A m \in Nodes(heap) : h1[m].class = heap[m].class
        /\ h1[p1].class = "Literal" /\ Nodes(h1) = Nodes(heap) \cup {p1}
    BY <2>2 DEF Built
  <2>4. lv # p1 /\ h1[lv].class \in Accepts(Rule.class, 1).types /\ h1[p1].class \in Expression
        /\ lv \in Standing \cup {p1} /\ p1 \in Standing \cup {p1}
    BY <1>2, <1>7, <1>8, <2>3 DEF Expression
  <2>5. PICK h : h = Assigned(h1, lv, p1)
    OBVIOUS
  <2>6. PICK T2, p : Assignment(h1, h, p, T2, ((Standing \cup {p1}) \ {lv, p1}) \cup {p}, Outside, Rule.class)
    BY <1>4, <2>3, <2>4, <2>5, Assigning
  <2>7. Entries(Popped) = {lv}
    BY <1>5, <1>6, <1>10 DEF Entries
  <2>8. ((Standing \cup {p1}) \ {lv, p1}) \cup {p} = (Standing \ Entries(Popped)) \cup {p}
    BY <1>2, <2>3, <2>7
  <2>9. /\ Sound(h, T2, (Standing \ Entries(Popped)) \cup {p}, Outside, {})
        /\ p \in Nat /\ p # NULL /\ p \notin Nodes(heap) /\ p = Len(h)
        /\ \A n \in Nodes(heap) : h[n].class = heap[n].class
        /\ h[p].class = Becomes(Rule, PoppedTypes)
    BY <1>9, <2>3, <2>6, <2>8 DEF Assignment
  <2>10. Reduced(h, p, <<>>)
    BY <1>3, <1>6, <1>10, <2>1, <2>3, <2>5, <2>9 DEF ReduceIncDec
  <2>11. Holds(T2, V)'
    BY <1>1, <2>9, <2>10, NewValue
  <2> QED
    BY <2>11 DEF IInv
\* INC x, y
<1>11. CASE k = 2
  <2>1. PICK am \in Nat : am = Popped[2]
    <3>1. \A j \in DOMAIN Popped : Popped[j] \in Nat
      BY <1>5
    <3>2. 2 \in DOMAIN Popped
      BY <1>5, <1>11
    <3> QED
      BY <3>1, <3>2
  <2>2. DOMAIN Popped = {1, 2}
    BY <1>5, <1>11
  <2>3. Entries(Popped) = {lv, am}
    BY <1>6, <2>1, <2>2 DEF Entries
  <2>4. TypeOf(heap, am) \in Expression
    BY <1>4, <1>5, <1>11, <2>1
  <2>5. am # NULL /\ am \in Standing /\ heap[am].class \in Expression
    <3>1. am # NULL
      BY <2>4, NullIsNoClass, ExpressionsAreClasses DEF TypeOf
    <3> QED
      BY <1>2, <2>3, <2>4, <3>1 DEF TypeOf
  <2>6. lv # am
    <3>1. Distinct(Popped) /\ 1 \in DOMAIN Popped /\ 2 \in DOMAIN Popped /\ lv # NULL
      BY <1>5, <1>7, <2>2
    <3>2. Popped[1] = Popped[2] => 1 = 2 \/ Popped[1] = NULL
      BY <3>1 DEF Distinct
    <3> QED
      BY <1>6, <2>1, <3>1, <3>2
  <2>7. PICK h : h = Assigned(heap, lv, am)
    OBVIOUS
  <2>8. PICK T2, p : Assignment(heap, h, p, T2, (Standing \ {lv, am}) \cup {p}, Outside, Rule.class)
    BY <1>2, <1>4, <1>7, <1>8, <2>5, <2>6, <2>7, Assigning
  <2>9. /\ Sound(h, T2, (Standing \ Entries(Popped)) \cup {p}, Outside, {})
        /\ p \in Nat /\ p # NULL /\ p \notin Nodes(heap) /\ p = Len(h)
        /\ \A n \in Nodes(heap) : h[n].class = heap[n].class
        /\ h[p].class = Becomes(Rule, PoppedTypes)
    BY <1>9, <2>3, <2>8 DEF Assignment
  <2>10. Reduced(h, p, <<>>)
    BY <1>3, <1>6, <1>11, <2>1, <2>7, <2>9 DEF ReduceIncDec
  <2>11. Holds(T2, V)'
    BY <1>1, <2>9, <2>10, NewValue
  <2> QED
    BY <2>11 DEF IInv
<1> QED
  BY <1>4, <1>10, <1>11

-----------------------------------------------------------------------------
(* The other steps.                                                        *)

\* References held from outside, after a step.
LEMMA OutsideThen ==
  ASSUME Typed'
  PROVE  CountedBy(Outside', program', block', ast', gathered', later')
  BY HoldingIs DEF Typed, Outside

\* The facts about a state that most steps need.
Facts(T) ==
  /\ IsHeap(heap) /\ Whole(heap) /\ Standing \subseteq Live(heap) /\ Live(heap) \subseteq Nodes(heap)
  /\ NULL \notin Nodes(heap) /\ T \in SUBSET Nodes(heap) /\ Outside \in Counts
  /\ CountedBy(Outside, program, block, ast, gathered, later)
  /\ \A n \in {program, block, ast} : n # NULL => n \in Standing
  /\ \A n \in Entries(stack) : n # NULL => n \in Standing
\* What follows from the invariant at once.
LEMMA FactsAre ==
  ASSUME NEW T, NEW V, Holds(T, V)
  PROVE  Facts(T)
<1>1. Graph(heap, Standing, Outside) /\ Forest(heap, T, Standing, MovedOnes) /\ Typed
  BY DEF Holds, Sound
<1>2. IsHeap(heap) /\ Whole(heap) /\ Standing \subseteq Live(heap) /\ Outside \in Counts /\ T \subseteq Live(heap)
  BY <1>1 DEF Graph, Forest
<1>3. Live(heap) \subseteq Nodes(heap) /\ NULL \notin Nodes(heap)
  BY <1>2, HeapFacts
<1>4. CountedBy(Outside, program, block, ast, gathered, later)
  BY <1>1, OutsideIs
<1> QED
  BY <1>2, <1>3, <1>4 DEF Facts, Standing, Roots, Entries

\* A reference more.
Referenced(h, g, n, T, R, c, odd) ==
  /\ Sound(g, T, R, Plus(c, n), odd) /\ SameShape(h, g)
  /\ \A m \in Nodes(h) : g[m].class = h[m].class /\ g[m].tag = h[m].tag /\ g[m].parent = h[m].parent
\* A reference is taken to a node of a tree.
LEMMA Referencing ==
  ASSUME NEW h, NEW T, NEW R, NEW c, NEW odd, Sound(h, T, R, c, odd), NEW n \in Live(h) \cup {NULL}
  PROVE  Referenced(h, AddRef(h, n), n, T, R, c, odd)
<1>1. Graph(h, R, c) /\ Forest(h, T, R, odd) /\ AllFit(h, T)
  BY DEF Sound
<1>2. IsHeap(h) /\ Whole(h) /\ Live(h) \subseteq Nodes(h) /\ T \in SUBSET Nodes(h)
  BY <1>1, HeapFacts DEF Graph, Forest
<1>3. PICK g : g = AddRef(h, n)
  OBVIOUS
<1>4. Graph(g, R, Plus(c, n))
  BY <1>1, <1>3, AddRefGraph
<1>5. n \in Nodes(h) \cup {NULL}
  BY <1>2
<1>6. /\ SameShape(h, g)
      /\ \A m \in Nodes(h) : g[m].class = h[m].class /\ g[m].tag = h[m].tag /\ g[m].parent = h[m].parent
  BY <1>2, <1>3, <1>5, AddRefShape
<1>7. Forest(g, T, R, odd)
  BY <1>1, <1>2, <1>6, ForestKept
<1>8. \A m \in Nodes(h) : g[m].class = h[m].class /\ g[m].kids = h[m].kids
  BY <1>6 DEF SameShape
<1>9. AllFit(g, T)
  BY <1>1, <1>2, <1>8, AllFitKept
<1> QED
  BY <1>3, <1>4, <1>6, <1>7, <1>9 DEF Referenced, Sound

\* One reference more.
LEMMA PlusIs ==
  ASSUME NEW c \in Counts, NEW n \in Nat
  PROVE  Plus(c, n) \in Counts /\ \A m \in Nat : Plus(c, n)[m] = c[m] + (IF m = n THEN 1 ELSE 0)
<1>1. c[n] \in Nat /\ c[n] + 1 \in Nat
  BY DEF Counts
<1>2. Plus(c, n) \in Counts
  BY <1>1 DEF Plus, Counts
<1>3. \A m \in Nat : c[m] \in Nat /\ c[m] + 0 = c[m]
  BY DEF Counts
<1> QED
  BY <1>2, <1>3 DEF Plus, Counts

\* giveProgram keeps the invariant.
LEMMA GiveKeeps ==
  ASSUME NEW T, NEW V, Holds(T, V), GiveProgram
  PROVE  IInv'
<1>1. /\ In("parse") /\ pc <= Len(input[f]) /\ Rule.do = "program"
      /\ phase = "parse" /\ later = <<>>
  BY DEF GiveProgram, Reducing, In
<1>2. /\ AtRule /\ StackAtRule /\ Sound(heap, T, Standing, Outside, {}) /\ Facts(T)
  BY <1>1, InParse, FactsAre
<1>3. /\ pc = Len(input[f]) /\ Len(stack) = 1 /\ Reduces(Rule, PoppedTypes) /\ pc \in Nat
      /\ SymbolsOf(pc + 1) = Append(Under(SymbolsOf(pc), Rule.pops), Becomes(Rule, PoppedTypes))
      /\ Len(SymbolsOf(pc)) = Len(stack)
  BY <1>1, <1>2 DEF AtRule
<1>4. PoppedTypes = <<"Block">> /\ Becomes(Rule, PoppedTypes) = "Block"
  BY <1>1, <1>3 DEF Reduces, Becomes
<1>5. PICK k \in Nat : k = Rule.pops
  BY <1>2 DEF AtRule
<1>6. k = 1
  <2>1. Len(PoppedTypes) = k
    BY <1>2, <1>5 DEF StackAtRule, SplitInto
  <2> QED
    BY <1>4, <2>1
<1>7. PICK under : under = Under(SymbolsOf(pc), Rule.pops)
  OBVIOUS
<1>8. under = <<>>
  <2>1. under \in Seq(Types) /\ Len(under) = Len(SymbolsOf(pc)) - k
    BY <1>2, <1>5, <1>7 DEF StackAtRule, SplitInto
  <2>2. Len(under) = 0
    BY <1>3, <1>6, <2>1
  <2> QED
    BY <2>1, <2>2, EmptySeq
<1>9. SymbolsOf(pc + 1) = <<"Block">>
  BY <1>3, <1>4, <1>7, <1>8
<1>10. stack \in Seq(Nat) /\ Typed /\ Stages
  BY DEF Holds, Typed
<1>11. PICK n \in Nat : n = stack[1]
  <2>1. \A i \in DOMAIN stack : stack[i] \in Nat
    BY <1>10
  <2>2. 1 \in DOMAIN stack
    BY <1>3, <1>10
  <2> QED
    BY <2>1, <2>2
<1>12. stack = <<n>> /\ DOMAIN stack = {1} /\ stack[Len(stack)] = n
  BY <1>3, <1>10, <1>11
<1>13. TypeOf(heap, n) = "Block"
  <2>1. TypeOf(heap, stack[1]) = SymbolsOf(pc)[1]
    BY <1>1, <1>12 DEF Holds, Parsing
  <2>2. PoppedTypes[1] = TypeOf(heap, Popped[1])
    BY <1>2, <1>5, <1>6 DEF StackAtRule
  <2>3. Popped[1] = stack[Len(stack) - Rule.pops + 1]
    BY <1>2, <1>5, <1>6 DEF StackAtRule, SplitInto
  <2>4. Len(stack) - Rule.pops + 1 = 1
    BY <1>3, <1>5, <1>6
  <2>5. Popped[1] = n
    BY <1>11, <2>3, <2>4
  <2> QED
    BY <1>4, <2>2, <2>5
<1>14. n # NULL /\ heap[n].class = "Block"
  BY <1>13 DEF TypeOf
<1>15. n \in Standing /\ n # ast /\ n \in Live(heap) /\ n \in Nodes(heap)
  <2>1. n \in Entries(stack)
    BY <1>12 DEF Entries
  <2> QED
    BY <1>2, <1>14, <2>1 DEF Facts, StackAtRule
<1>16. /\ heap' = AddRef(heap, n) /\ program' = n /\ pc' = pc + 1 /\ stack' = stack /\ input' = input
       /\ ast' = ast /\ later' = later /\ phase' = phase /\ fault' = fault /\ f' = f /\ block' = block
       /\ moved' = moved /\ gathered' = gathered /\ todo' = todo /\ next' = next
  BY <1>12 DEF GiveProgram, Taken, pass
<1>17. Referenced(heap, heap', n, T, Standing, Outside, {})
  BY <1>2, <1>15, <1>16, Referencing
<1>18. /\ Sound(heap', T, Standing, Plus(Outside, n), {})
       /\ \A m \in Nodes(heap) : heap'[m].class = heap[m].class
  BY <1>17 DEF Referenced
<1>19. program = NULL /\ block = NULL /\ gathered = <<>>
  BY <1>2 DEF StackAtRule
<1>20. Typed'
  BY <1>10, <1>16 DEF Typed
<1>21. StackIsRaw'
  BY <1>16 DEF Holds, StackIsRaw
<1>22. Stages'
  <2>1. \A m \in {program', block', ast'} \ {NULL} : heap'[m].class = "Block"
    <3>1. block' = NULL /\ program' = n /\ ast' = ast
      BY <1>16, <1>19
    <3>2. ast # NULL => heap[ast].class = "Block" /\ ast \in Nodes(heap)
      BY <1>2, <1>10 DEF Stages, Facts
    <3> QED
      BY <1>14, <1>15, <1>18, <3>1, <3>2
  <2> QED
    BY <1>1, <1>10, <1>15, <1>16, <2>1 DEF Stages
<1>23. Parsing'
  <2>1. Len(stack) = Len(SymbolsOf(pc + 1)) /\ DOMAIN stack = {1}
    BY <1>3, <1>9, <1>12
  <2>2. TypeOf(heap', stack[1]) = SymbolsOf(pc + 1)[1]
    BY <1>9, <1>11, <1>14, <1>15, <1>18 DEF TypeOf
  <2>3. SymbolsOf(pc)' = SymbolsOf(pc + 1)
    BY <1>16 DEF SymbolsOf
  <2>4. pc + 1 = Len(input[f]) + 1 /\ pc + 1 \in 1 .. Len(input[f]) + 1
    BY <1>3
  <2> QED
    BY <1>12, <1>16, <2>1, <2>2, <2>3, <2>4 DEF Parsing
<1>24. Returning' /\ Gathering(V)' /\ Rewriting' /\ Covered(T)' /\ MovedOnes' = {}
  BY <1>1, <1>16 DEF Returning, Gathering, Rewriting, Covered, MovedOnes
<1>25. Standing' = Standing
  <2>1. \A i \in DOMAIN stack : stack[i] = n
    BY <1>11, <1>12
  <2>2. {stack[i] : i \in DOMAIN stack} = {n}
    BY <1>12, <2>1
  <2>3. Standing = {n, ast} \ {NULL}
    BY <1>19, <2>2 DEF Standing, Roots
  <2>4. Standing' = ({stack'[i] : i \in DOMAIN stack'} \cup {program', block', ast'}) \ {NULL}
    BY DEF Standing, Roots
  <2> QED
    BY <1>16, <1>19, <2>2, <2>3, <2>4
<1>26. CountedBy(Outside', n, block, ast, gathered, later)
  BY <1>16, <1>20, OutsideThen
<1>27. CountedBy(Outside, program, block, ast, gathered, later) /\ Outside \in Counts
  BY <1>2 DEF Facts
<1>28. \A m \in Nat \ {NULL} : Outside'[m] = Plus(Outside, n)[m]
  <2> SUFFICES ASSUME NEW m \in Nat \ {NULL} PROVE Outside'[m] = Outside[m] + (IF m = n THEN 1 ELSE 0)
    BY <1>27, PlusIs
  <2>1. PICK a, b, d, e \in Nat : a = Is(block, m) /\ b = Is(ast, m) /\ d = Occ(gathered, m) /\ e = Occ(later, m)
    BY <1>27 DEF CountedBy, Is
  <2>2. PICK x \in Nat : x = Is(n, m)
    BY DEF Is
  <2>3. Outside'[m] = x + a + b + d + e
    BY <1>26, <2>1, <2>2 DEF CountedBy
  <2>4. Is(program, m) = 0
    BY <1>19 DEF Is
  <2>5. Outside[m] = 0 + a + b + d + e
    BY <1>27, <2>1, <2>4 DEF CountedBy
  <2>6. x = IF m = n THEN 1 ELSE 0
    BY <2>2 DEF Is
  <2>7. x + a + b + d + e = (0 + a + b + d + e) + x
    OBVIOUS
  <2> QED
    BY <2>3, <2>5, <2>6, <2>7
<1>29. Sound(heap', T, Standing', Outside', MovedOnes')
  <2>1. PICK c2 \in Counts : c2 = Outside'
    BY <1>26 DEF CountedBy
  <2>2. Sound(heap', T, Standing, c2, {})
    BY <1>18, <1>28, <2>1, SoundWith
  <2> QED
    BY <1>24, <1>25, <2>1, <2>2
<1>30. Holds(T, V)'
  BY <1>20, <1>21, <1>22, <1>23, <1>24, <1>29 DEF Holds, Sound
<1> QED
  BY <1>30 DEF IInv

\* What has to be shown of a step that moves references about.
Moved(T2, V2, h, R, c) ==
  /\ Typed' /\ StackIsRaw' /\ Stages' /\ Parsing' /\ Returning' /\ Gathering(V2)' /\ Rewriting'
  /\ Covered(T2)'
  /\ Sound(h, T2, R, c, MovedOnes') /\ heap' = h /\ Standing' = R
  /\ \A m \in Nat \ {NULL} : Outside'[m] = c[m]
\* A step that moves references like this keeps the invariant.
LEMMA MovedHolds ==
  ASSUME NEW T2, NEW V2, NEW h, NEW R, NEW c, Moved(T2, V2, h, R, c)
  PROVE  Holds(T2, V2)'
<1>1. /\ Typed' /\ Sound(h, T2, R, c, MovedOnes') /\ heap' = h /\ Standing' = R
      /\ \A m \in Nat \ {NULL} : Outside'[m] = c[m]
  BY DEF Moved
<1>2. CountedBy(Outside', program', block', ast', gathered', later')
  BY <1>1, OutsideThen
<1>3. PICK c2 \in Counts : c2 = Outside'
  BY <1>2 DEF CountedBy
<1>4. Sound(h, T2, R, c2, MovedOnes')
  BY <1>1, <1>3, SoundWith
<1>5. Sound(heap', T2, Standing', Outside', MovedOnes')
  BY <1>1, <1>3, <1>4
<1> QED
  BY <1>5 DEF Moved, Holds, Sound

\* How often a node is held from outside.
Held5(m, p, b, a, g, l, x, y, z, u, w) ==
  /\ x \in Nat /\ y \in Nat /\ z \in Nat /\ u \in Nat /\ w \in Nat
  /\ x = Is(p, m) /\ y = Is(b, m) /\ z = Is(a, m) /\ u = Occ(g, m) /\ w = Occ(l, m)
Tallied(c, m, p, b, a, g, l) ==
  \E x, y, z, u, w \in Nat : Held5(m, p, b, a, g, l, x, y, z, u, w) /\ c[m] = x + y + z + u + w
\* The references to one node, holder by holder.
LEMMA Tally ==
  ASSUME NEW c, NEW p, NEW b, NEW a, NEW g, NEW l, CountedBy(c, p, b, a, g, l), NEW m \in Nat
  PROVE  Tallied(c, m, p, b, a, g, l)
<1>1. PICK x, y, z, u, w \in Nat :
        x = Is(p, m) /\ y = Is(b, m) /\ z = Is(a, m) /\ u = Occ(g, m) /\ w = Occ(l, m)
  BY DEF CountedBy, Is
<1>2. c[m] = x + y + z + u + w
  BY <1>1 DEF CountedBy
<1>3. Held5(m, p, b, a, g, l, x, y, z, u, w)
  BY <1>1 DEF Held5
<1> QED
  BY <1>2, <1>3 DEF Tallied

\* YYACCEPT keeps the invariant.
LEMMA AcceptKeeps ==
  ASSUME NEW T, NEW V, Holds(T, V), AcceptInput
  PROVE  IInv'
<1>1. In("parse") /\ pc > Len(input[f]) /\ phase = "parse" /\ later = <<>>
  BY DEF AcceptInput, In
<1>2. Facts(T) /\ Typed /\ Stages /\ Sound(heap, T, Standing, Outside, MovedOnes)
  BY FactsAre DEF Holds
<1>3. stack = <<program>>
  <2>1. IsParse(input[f], Symbols[input[f]])
    BY <1>1, TheParse
  <2>2. Len(input[f]) \in Nat
    BY <2>1 DEF IsParse
  <2>3. /\ pc \in 1 .. Len(input[f]) + 1
        /\ IF pc = Len(input[f]) + 1 THEN stack = <<program>> ELSE program = NULL
    BY <1>1 DEF Holds, Parsing
  <2>4. pc = Len(input[f]) + 1
    BY <1>1, <2>2, <2>3
  <2> QED
    BY <2>3, <2>4
<1>4. stack[Len(stack)] = program
  BY <1>3
<1>5. /\ heap' = AddRef(heap, program) /\ later' = <<program>> /\ stack' = <<>> /\ phase' = "accepted"
      /\ input' = input /\ ast' = ast /\ fault' = fault /\ f' = f /\ program' = program
      /\ block' = block /\ moved' = moved /\ gathered' = gathered /\ todo' = todo /\ next' = next
  BY <1>4 DEF AcceptInput, Touch, pass
<1>6. program \in Nat /\ program \in Live(heap) \cup {NULL}
  BY <1>2 DEF Typed, Facts
<1>7. MovedOnes = {} /\ MovedOnes' = {}
  BY <1>1, <1>5 DEF MovedOnes
<1>8. Referenced(heap, heap', program, T, Standing, Outside, {})
  BY <1>2, <1>5, <1>6, <1>7, Referencing
<1>9. /\ Sound(heap', T, Standing, Plus(Outside, program), {})
      /\ \A m \in Nodes(heap) : heap'[m].class = heap[m].class
  BY <1>8 DEF Referenced
<1>10. Typed'
  <2>1. <<program>> \in Seq(Nat) /\ <<>> \in Seq(Nat)
    BY <1>6
  <2> QED
    BY <1>2, <1>5, <2>1 DEF Typed
<1>11. StackIsRaw'
  BY <1>5 DEF StackIsRaw, Distinct, Entries
<1>12. Stages'
  <2>1. \A m \in {program, block, ast} \ {NULL} : m \in Nodes(heap) /\ heap[m].class = "Block"
    BY <1>2 DEF Stages, Facts
  <2> QED
    BY <1>1, <1>2, <1>5, <1>9, <2>1 DEF Stages
<1>13. Parsing' /\ Returning' /\ Gathering(V)' /\ Rewriting' /\ Covered(T)'
  BY <1>5 DEF Parsing, Returning, Gathering, Rewriting, Covered
<1>14. Standing' = Standing
  <2>1. {stack[i] : i \in DOMAIN stack} = {program} /\ {stack'[i] : i \in DOMAIN stack'} = {}
    BY <1>3, <1>5
  <2> QED
    BY <1>5, <2>1 DEF Standing, Roots
<1>15. CountedBy(Outside', program, block, ast, gathered, <<program>>)
  BY <1>5, <1>10, OutsideThen
<1>16. CountedBy(Outside, program, block, ast, gathered, <<>>) /\ Outside \in Counts
  BY <1>1, <1>2 DEF Facts
<1>17. \A m \in Nat \ {NULL} : Outside'[m] = Plus(Outside, program)[m]
  <2> SUFFICES ASSUME NEW m \in Nat \ {NULL} PROVE Outside'[m] = Outside[m] + (IF m = program THEN 1 ELSE 0)
    BY <1>6, <1>16, PlusIs
  <2>1. PICK x, y, z, u, w \in Nat : /\ Held5(m, program, block, ast, gathered, <<>>, x, y, z, u, w)
                                     /\ Outside[m] = x + y + z + u + w
    <3>1. Tallied(Outside, m, program, block, ast, gathered, <<>>)
      BY <1>16, Tally
    <3> QED
      BY <3>1 DEF Tallied
  <2>2. PICK x2, y2, z2, u2, w2 \in Nat :
          /\ Held5(m, program, block, ast, gathered, <<program>>, x2, y2, z2, u2, w2)
          /\ Outside'[m] = x2 + y2 + z2 + u2 + w2
    <3>1. Tallied(Outside', m, program, block, ast, gathered, <<program>>)
      BY <1>15, Tally
    <3> QED
      BY <3>1 DEF Tallied
  <2>3. x2 = x /\ y2 = y /\ z2 = z /\ u2 = u
    BY <2>1, <2>2 DEF Held5
  <2>4. w = 0
    BY <2>1, OccEmpty DEF Held5
  <2>5. w2 = IF m = program THEN 1 ELSE 0
    BY <2>2, OccSingle DEF Held5
  <2>6. Outside[m] = x + y + z + u + 0 /\ Outside'[m] = x + y + z + u + w2
    BY <2>1, <2>2, <2>3, <2>4
  <2>7. x + y + z + u + w2 = (x + y + z + u + 0) + w2
    OBVIOUS
  <2> QED
    BY <2>5, <2>6, <2>7
<1>18. Moved(T, V, heap', Standing, Plus(Outside, program))
  BY <1>7, <1>9, <1>10, <1>11, <1>12, <1>13, <1>14, <1>17 DEF Moved
<1>19. Holds(T, V)'
  BY <1>18, MovedHolds
<1> QED
  BY <1>19 DEF IInv

\* A reference that is given up and taken again.
LEMMA SameCount ==
  ASSUME NEW h, IsHeap(h), NEW n \in Nodes(h)
  PROVE  AddRef([h EXCEPT ![n].refs = @ - 1], n) = h
<1>1. n # NULL /\ h[n] \in Node /\ h[n].refs \in Nat
  BY HeapFacts
<1>2. PICK x \in Node : x = h[n]
  BY <1>1
<1>3. PICK y : y = [x EXCEPT !.refs = @ - 1]
  OBVIOUS
<1>4. [y EXCEPT !.refs = @ + 1] = x
  <2>1. x.refs \in Nat /\ x.refs - 1 + 1 = x.refs
    BY DEF Node
  <2>2. [y EXCEPT !.refs = @ + 1] = [x EXCEPT !.refs = x.refs - 1 + 1]
    BY <1>3 DEF Node
  <2>3. [x EXCEPT !.refs = x.refs] = x
    BY DEF Node
  <2> QED
    BY <2>1, <2>2, <2>3
<1>5. PICK g : g = [h EXCEPT ![n] = y]
  OBVIOUS
<1>6. g = [h EXCEPT ![n].refs = @ - 1] /\ g[n] = y
  BY <1>2, <1>3, <1>5 DEF Nodes
<1>7. AddRef(g, n) = [g EXCEPT ![n] = x]
  BY <1>1, <1>4, <1>6 DEF AddRef
<1>8. [g EXCEPT ![n] = x] = h
  <2>1. h \in Seq(Node)
    BY DEF IsHeap
  <2>2. h = [m \in Nodes(h) |-> h[m]]
    BY <2>1 DEF Nodes
  <2>3. DOMAIN g = Nodes(h) /\ \A m \in Nodes(h) : m # n => g[m] = h[m]
    BY <1>5 DEF Nodes
  <2>4. [g EXCEPT ![n] = x] = [m \in Nodes(h) |-> IF m = n THEN x ELSE g[m]]
    BY <2>3
  <2>5. \A m \in Nodes(h) : (IF m = n THEN x ELSE g[m]) = h[m]
    BY <1>2, <2>3
  <2> QED
    BY <2>2, <2>4, <2>5
<1> QED
  BY <1>6, <1>7, <1>8

\* The return of the program from the driver keeps it.
LEMMA ReturnKeeps ==
  ASSUME NEW T, NEW V, Holds(T, V), ReturnProgram
  PROVE  IInv'
<1>1. phase = "accepted" /\ later = <<>>
  BY DEF ReturnProgram, In
<1>2. Facts(T) /\ Typed /\ Stages /\ Sound(heap, T, Standing, Outside, MovedOnes)
  BY FactsAre DEF Holds
<1>3. /\ block' = program /\ program' = NULL /\ input' = input /\ ast' = ast /\ later' = later
      /\ fault' = fault /\ f' = f /\ stack' = stack /\ moved' = moved /\ gathered' = gathered
      /\ todo' = todo /\ next' = next
      /\ phase' = IF program = NULL THEN "exit" ELSE "returned"
      /\ heap' = IF program = NULL THEN heap
                 ELSE AddRef([heap EXCEPT ![program].refs = @ - 1], program)
  BY DEF ReturnProgram, pass
<1>4. heap' = heap
  <2>1. CASE program = NULL
    BY <1>3, <2>1
  <2>2. CASE program # NULL
    <3>1. program \in Nodes(heap) /\ IsHeap(heap)
      BY <1>2, <2>2 DEF Facts
    <3>2. AddRef([heap EXCEPT ![program].refs = @ - 1], program) = heap
      BY <3>1, SameCount
    <3> QED
      BY <1>3, <2>2, <3>2
  <2> QED
    BY <2>1, <2>2
<1>5. stack = <<>> /\ block = NULL /\ moved = 0 /\ gathered = <<>> /\ (program # ast \/ program = NULL)
  BY <1>1, <1>2 DEF Stages
<1>6. stack = <<>> /\ block = NULL /\ moved = 0 /\ gathered = <<>> /\ f \in DOMAIN input
  BY <1>1, <1>2 DEF Stages
<1>7. program # ast \/ program = NULL
  BY <1>2 DEF Stages
<1>8. MovedOnes = {} /\ MovedOnes' = {}
  <2>1. 1 .. moved' = {}
    BY <1>3, <1>6
  <2> QED
    BY <1>1, <2>1 DEF MovedOnes
<1>9. Typed'
  BY <1>2, <1>3 DEF Typed, NULL
<1>10. StackIsRaw'
  BY <1>3, <1>6 DEF StackIsRaw, Distinct, Entries
<1>11. Stages'
  <2>1. \A m \in {program, block, ast} \ {NULL} : heap[m].class = "Block"
    BY <1>2 DEF Stages
  <2>2. \A m \in {program', block', ast'} \ {NULL} : heap'[m].class = "Block"
    BY <1>3, <1>4, <2>1
  <2> QED
    BY <1>3, <1>6, <2>2 DEF Stages
<1>12. Parsing' /\ Gathering(V)' /\ Rewriting' /\ Covered(T)'
  BY <1>3 DEF Parsing, Gathering, Rewriting, Covered
<1>13. Returning'
  <2>1. ASSUME phase' = "returned" PROVE program # NULL
    BY <1>3, <2>1
  <2>2. 1 .. moved' = {} /\ moved' = 0
    BY <1>3, <1>6
  <2>3. Len(heap[program].kids) \in Nat \/ program = NULL
    <3>1. program # NULL => heap[program].kids \in Seq(Nat)
      BY <1>2, HeapFacts DEF Facts
    <3> QED
      BY <3>1
  <2>4. phase' = "returned" => 0 \in 0 .. Len(heap[program].kids)
    BY <2>1, <2>3
  <2> QED
    BY <1>1, <1>3, <1>4, <1>7, <2>1, <2>2, <2>4 DEF Returning
<1>14. Standing' = Standing
  BY <1>3, <1>6 DEF Standing, Roots
<1>15. CountedBy(Outside', NULL, program, ast, gathered, later)
  BY <1>3, <1>9, OutsideThen
<1>16. CountedBy(Outside, program, NULL, ast, gathered, later)
  BY <1>2, <1>6 DEF Facts
<1>17. \A m \in Nat \ {NULL} : Outside'[m] = Outside[m]
  <2> SUFFICES ASSUME NEW m \in Nat \ {NULL} PROVE Outside'[m] = Outside[m]
    OBVIOUS
  <2>1. PICK x, y, z, u, w \in Nat : /\ Held5(m, program, NULL, ast, gathered, later, x, y, z, u, w)
                                     /\ Outside[m] = x + y + z + u + w
    <3>1. Tallied(Outside, m, program, NULL, ast, gathered, later)
      BY <1>16, Tally
    <3> QED
      BY <3>1 DEF Tallied
  <2>2. PICK x2, y2, z2, u2, w2 \in Nat :
          /\ Held5(m, NULL, program, ast, gathered, later, x2, y2, z2, u2, w2)
          /\ Outside'[m] = x2 + y2 + z2 + u2 + w2
    <3>1. Tallied(Outside', m, NULL, program, ast, gathered, later)
      BY <1>15, Tally
    <3> QED
      BY <3>1 DEF Tallied
  <2>3. x2 = y /\ y2 = x /\ z2 = z /\ u2 = u /\ w2 = w
    BY <2>1, <2>2 DEF Held5
  <2>4. y + x + z + u + w = x + y + z + u + w
    OBVIOUS
  <2> QED
    BY <2>1, <2>2, <2>3, <2>4
<1>18. Moved(T, V, heap', Standing, Outside)
  BY <1>2, <1>4, <1>8, <1>9, <1>10, <1>11, <1>12, <1>13, <1>14, <1>17 DEF Moved
<1>19. Holds(T, V)'
  BY <1>18, MovedHolds
<1> QED
  BY <1>19 DEF IInv

\* A syntax error keeps it.
LEMMA ErrorKeeps ==
  ASSUME NEW T, NEW V, Holds(T, V), SyntaxError
  PROVE  IInv'
<1>1. phase = "parse" /\ later = <<>> /\ phase' = "discard"
  BY DEF SyntaxError, In
<1>2. /\ heap' = heap /\ input' = input /\ ast' = ast /\ later' = later /\ fault' = fault /\ f' = f
      /\ stack' = stack /\ program' = program /\ block' = block /\ moved' = moved
      /\ gathered' = gathered /\ todo' = todo /\ next' = next
  BY DEF SyntaxError, parser, pass
<1>3. Sound(heap, T, Standing, Outside, MovedOnes) /\ Typed /\ Stages /\ StackIsRaw
  BY DEF Holds
<1>4. MovedOnes = {} /\ MovedOnes' = {}
  BY <1>1 DEF MovedOnes
<1>5. Standing' = Standing /\ Outside' = Outside
  BY <1>2 DEF Standing, Roots, Outside
<1>6. Typed' /\ StackIsRaw'
  BY <1>2, <1>3 DEF Typed, StackIsRaw
<1>7. Stages'
  BY <1>1, <1>2, <1>3 DEF Stages
<1>8. Parsing' /\ Returning' /\ Gathering(V)' /\ Rewriting' /\ Covered(T)'
  BY <1>1 DEF Parsing, Returning, Gathering, Rewriting, Covered
<1>9. Moved(T, V, heap, Standing, Outside)
  BY <1>2, <1>3, <1>4, <1>5, <1>6, <1>7, <1>8 DEF Moved
<1>10. Holds(T, V)'
  BY <1>9, MovedHolds
<1> QED
  BY <1>10 DEF IInv

\* A file that cannot be opened keeps it.
LEMMA NotOpenedKeeps ==
  ASSUME NEW T, NEW V, Holds(T, V), FileNotOpened
  PROVE  IInv'
<1>1. phase = "parse" /\ later = <<>> /\ phase' = "exit" /\ pc = 1
  BY DEF FileNotOpened, In
<1>2. /\ heap' = heap /\ input' = input /\ ast' = ast /\ later' = later /\ fault' = fault /\ f' = f
      /\ stack' = stack /\ program' = program /\ block' = block /\ moved' = moved
      /\ gathered' = gathered /\ todo' = todo /\ next' = next
  BY DEF FileNotOpened, parser, pass
<1>3. Sound(heap, T, Standing, Outside, MovedOnes) /\ Typed /\ Stages /\ StackIsRaw /\ Parsing
  BY DEF Holds
<1>4. stack = <<>> /\ program = NULL
  <2>1. IsParse(input[f], Symbols[input[f]])
    BY <1>1, TheParse
  <2>2. SymbolsOf(1) = <<>> /\ Len(input[f]) \in Nat /\ 1 # Len(input[f]) + 1
    <3>1. SymbolsOf(1) = <<>> /\ input[f] \in Seq(Rules)
      BY <2>1 DEF IsParse, SymbolsOf
    <3>2. Len(input[f]) \in Nat
      BY <3>1
    <3>3. input[f] # <<>> \/ Len(input[f]) = 1
      BY <2>1 DEF IsParse
    <3>4. PICK file \in Seq(Rules) : file = input[f]
      BY <3>1
    <3>5. CASE file = <<>>
      BY <3>1, <3>2, <3>3, <3>4, <3>5
    <3>6. CASE file # <<>>
      <4>1. Len(file) # 0
        BY <3>4, <3>6, EmptySeq
      <4> QED
        BY <3>1, <3>2, <3>4, <4>1
    <3> QED
      BY <3>5, <3>6
  <2>3. Len(stack) = 0 /\ program = NULL
    BY <1>1, <1>3, <2>2 DEF Parsing
  <2>4. stack \in Seq(Nat)
    BY <1>3 DEF Typed
  <2> QED
    BY <2>3, <2>4, EmptySeq
<1>5. MovedOnes = {} /\ MovedOnes' = {}
  BY <1>1 DEF MovedOnes
<1>6. Standing' = Standing /\ Outside' = Outside
  BY <1>2 DEF Standing, Roots, Outside
<1>7. Typed' /\ StackIsRaw'
  BY <1>2, <1>3 DEF Typed, StackIsRaw
<1>8. Stages'
  BY <1>1, <1>2, <1>3, <1>4 DEF Stages
<1>9. Parsing' /\ Returning' /\ Gathering(V)' /\ Rewriting' /\ Covered(T)'
  BY <1>1 DEF Parsing, Returning, Gathering, Rewriting, Covered
<1>10. Moved(T, V, heap, Standing, Outside)
  BY <1>2, <1>3, <1>5, <1>6, <1>7, <1>8, <1>9 DEF Moved
<1>11. Holds(T, V)'
  BY <1>10, MovedHolds
<1> QED
  BY <1>11 DEF IInv

\* A root that is held from outside need not be one.
LEMMA FewerRoots ==
  ASSUME NEW h, NEW T, NEW R, NEW c, Sound(h, T, R, c, {}), NEW r \in R \cup {NULL}, r = NULL \/ c[r] # 0
  PROVE  \E T2 \in SUBSET T : Sound(h, T2, R \ {r}, c, {})
<1>1. Graph(h, R, c) /\ Forest(h, T, R, {}) /\ AllFit(h, T)
  BY DEF Sound
<1>2. CASE r = NULL
  <2>1. NULL \notin R
    BY <1>1, HeapFacts DEF Graph
  <2>2. R \ {r} = R
    BY <1>2, <2>1
  <2> QED
    BY <2>2
<1>3. CASE r # NULL
  <2>1. r \in R /\ c[r] # 0
    BY <1>3
  <2>2. Graph(h, R \ {r}, c) /\ Forest(h, T \ Below(h, r), R \ {r}, {})
    BY <1>1, <2>1, DropRoot
  <2>3. AllFit(h, T \ Below(h, r))
    BY <1>1 DEF AllFit
  <2>4. Sound(h, T \ Below(h, r), R \ {r}, c, {})
    BY <2>2, <2>3 DEF Sound
  <2> QED
    BY <2>4
<1> QED
  BY <1>2, <1>3

\* The last element of a sequence is taken away.
LastTaken(s, r, x) ==
  /\ x \in Nat /\ r \in Seq(Nat) /\ Entries(s) = Entries(r) \cup {x}
  /\ Distinct(s) => Distinct(r) /\ (x \in Entries(r) => x = NULL)
\* The last entry of a sequence, and the others.
LEMMA TakingLast ==
  ASSUME NEW s \in Seq(Nat), s # <<>>
  PROVE  LastTaken(s, SubSeq(s, 1, Len(s) - 1), s[Len(s)])
<1>1. PICK L \in Nat : L = Len(s)
  OBVIOUS
<1>2. L # 0 /\ DOMAIN s = 1 .. L
  BY <1>1, EmptySeq
<1>3. PICK k \in Nat : L = k + 1 /\ k = L - 1
  BY <1>2
<1>4. PICK r : r = SubSeq(s, 1, k)
  OBVIOUS
<1>5. /\ r \in Seq(Nat) /\ Len(r) = k /\ DOMAIN r = 1 .. k /\ \A i \in 1 .. k : r[i] = s[i]
  <2>1. k + 1 - 1 = k /\ k - 1 + 1 = k /\ k <= L
    BY <1>3
  <2>2. \A i \in 1 .. k : s[i] \in Nat
    BY <1>2, <2>1
  <2>3. r = [i \in 1 .. k |-> s[i]]
    BY <1>4, <2>1
  <2>4. r \in Seq(Nat)
    BY <2>2, <2>3
  <2>5. DOMAIN r = 1 .. k /\ \A i \in 1 .. k : r[i] = s[i]
    BY <2>3
  <2>6. Len(r) = k
    BY <2>4, <2>5
  <2> QED
    BY <2>4, <2>5, <2>6
<1>6. PICK x : x = s[L]
  OBVIOUS
<1>7. x \in Nat
  BY <1>2, <1>6
<1>8. /\ 1 .. L = (1 .. k) \cup {L} /\ L \notin 1 .. k
  BY <1>3
<1>9. Entries(s) = Entries(r) \cup {x}
  BY <1>2, <1>5, <1>6, <1>8 DEF Entries
<1>10. Distinct(s) => Distinct(r) /\ (x \in Entries(r) => x = NULL)
  BY <1>2, <1>5, <1>6, <1>8 DEF Entries, Distinct
<1>11. LastTaken(s, r, x)
  BY <1>5, <1>7, <1>9, <1>10 DEF LastTaken
<1> QED
  BY <1>1, <1>3, <1>4, <1>6, <1>11

\* A %destructor keeps the invariant.
LEMMA DiscardKeeps ==
  ASSUME NEW T, NEW V, Holds(T, V), DiscardValue
  PROVE  IInv'
<1>1. phase = "discard" /\ later = <<>> /\ stack # <<>>
  BY DEF DiscardValue, In
<1>2. Facts(T) /\ Typed /\ Stages /\ StackIsRaw /\ Sound(heap, T, Standing, Outside, MovedOnes)
  BY FactsAre DEF Holds
<1>3. stack \in Seq(Nat)
  BY <1>2 DEF Typed
<1>4. PICK n, rest : n = stack[Len(stack)] /\ rest = SubSeq(stack, 1, Len(stack) - 1)
  OBVIOUS
<1>5. LastTaken(stack, rest, n)
  BY <1>1, <1>3, <1>4, TakingLast
<1>6. /\ heap' = AddRef(heap, n) /\ later' = <<n>> /\ stack' = rest /\ phase' = phase
      /\ input' = input /\ ast' = ast /\ fault' = fault /\ f' = f /\ program' = program
      /\ block' = block /\ moved' = moved /\ gathered' = gathered /\ todo' = todo /\ next' = next
  BY <1>4 DEF DiscardValue, Touch, pass
<1>7. /\ n \in Nat /\ rest \in Seq(Nat) /\ Entries(stack) = Entries(rest) \cup {n}
      /\ Distinct(rest) /\ (n \in Entries(rest) => n = NULL)
  BY <1>2, <1>5 DEF LastTaken, StackIsRaw
<1>8. n # NULL => n \in Standing /\ n \in Live(heap) /\ n # ast
  BY <1>2, <1>7 DEF Facts, StackIsRaw
<1>9. MovedOnes = {} /\ MovedOnes' = {}
  BY <1>1, <1>6 DEF MovedOnes
<1>10. PICK h, c : h = heap' /\ c = Plus(Outside, n)
  OBVIOUS
<1>11. Referenced(heap, h, n, T, Standing, Outside, {})
  <2>1. n \in Live(heap) \cup {NULL}
    BY <1>8
  <2> QED
    BY <1>2, <1>6, <1>9, <1>10, <2>1, Referencing
<1>12. Sound(h, T, Standing, c, {}) /\ \A m \in Nodes(heap) : h[m].class = heap[m].class
  BY <1>10, <1>11 DEF Referenced
<1>13. Outside \in Counts /\ c \in Counts /\ \A m \in Nat : c[m] = Outside[m] + (IF m = n THEN 1 ELSE 0)
  BY <1>2, <1>7, <1>10, PlusIs DEF Facts
<1>14. block = NULL /\ gathered = <<>>
  BY <1>1, <1>2 DEF Stages
<1>15. Standing = (Entries(rest) \cup {n, program, ast}) \ {NULL}
       /\ Standing' = (Entries(rest) \cup {program, ast}) \ {NULL}
  <2>1. Standing = (Entries(stack) \cup {program, block, ast}) \ {NULL}
    BY DEF Standing, Roots, Entries
  <2>2. Standing' = (Entries(stack') \cup {program', block', ast'}) \ {NULL}
    BY DEF Standing, Roots, Entries
  <2> QED
    BY <1>6, <1>7, <1>14, <2>1, <2>2
<1>16. PICK T2 \in SUBSET T : Sound(h, T2, Standing', c, {})
  <2>1. CASE n = NULL \/ n = program
    <3>1. Standing' = Standing
      BY <1>15, <2>1
    <3> QED
      BY <1>12, <3>1
  <2>2. CASE n # NULL /\ n # program
    <3>1. Standing' = Standing \ {n}
      BY <1>7, <1>8, <1>15, <2>2
    <3>2. c[n] # 0
      <4>1. PICK x \in Nat : x = Outside[n]
        BY <1>7, <1>13 DEF Counts
      <4>2. c[n] = x + 1
        BY <1>7, <1>13, <4>1
      <4> QED
        BY <4>2
    <3>3. \E T2 \in SUBSET T : Sound(h, T2, Standing \ {n}, c, {})
      BY <1>8, <1>12, <2>2, <3>2, FewerRoots
    <3> QED
      BY <3>1, <3>3
  <2> QED
    BY <2>1, <2>2
<1>17. Typed'
  <2>1. <<n>> \in Seq(Nat)
    BY <1>7
  <2> QED
    BY <1>2, <1>6, <1>7, <2>1 DEF Typed
<1>18. StackIsRaw'
  <2>1. Entries(<<n>>) = {n}
    BY DEF Entries
  <2>2. \A s \in Entries(stack) \ {NULL} : s # ast
    BY <1>2 DEF StackIsRaw
  <2> QED
    BY <1>6, <1>7, <2>1, <2>2 DEF StackIsRaw
<1>19. Stages'
  <2>1. \A m \in {program, block, ast} \ {NULL} : m \in Nodes(heap) /\ heap[m].class = "Block"
    BY <1>2 DEF Stages, Facts
  <2>2. \A m \in {program', block', ast'} \ {NULL} : heap'[m].class = "Block"
    BY <1>6, <1>10, <1>12, <2>1
  <2> QED
    BY <1>1, <1>2, <1>6, <2>2 DEF Stages
<1>20. Parsing' /\ Returning' /\ Gathering(V)' /\ Rewriting' /\ Covered(T2)'
  BY <1>1, <1>6 DEF Parsing, Returning, Gathering, Rewriting, Covered
<1>21. CountedBy(Outside', program, block, ast, gathered, <<n>>)
  BY <1>6, <1>17, OutsideThen
<1>22. CountedBy(Outside, program, block, ast, gathered, <<>>)
  BY <1>1, <1>2 DEF Facts
<1>23. \A m \in Nat \ {NULL} : Outside'[m] = c[m]
  <2> SUFFICES ASSUME NEW m \in Nat \ {NULL} PROVE Outside'[m] = Outside[m] + (IF m = n THEN 1 ELSE 0)
    BY <1>13
  <2>1. PICK x, y, z, u, w \in Nat : /\ Held5(m, program, block, ast, gathered, <<>>, x, y, z, u, w)
                                     /\ Outside[m] = x + y + z + u + w
    <3>1. Tallied(Outside, m, program, block, ast, gathered, <<>>)
      BY <1>22, Tally
    <3> QED
      BY <3>1 DEF Tallied
  <2>2. PICK x2, y2, z2, u2, w2 \in Nat :
          /\ Held5(m, program, block, ast, gathered, <<n>>, x2, y2, z2, u2, w2)
          /\ Outside'[m] = x2 + y2 + z2 + u2 + w2
    <3>1. Tallied(Outside', m, program, block, ast, gathered, <<n>>)
      BY <1>21, Tally
    <3> QED
      BY <3>1 DEF Tallied
  <2>3. x2 = x /\ y2 = y /\ z2 = z /\ u2 = u
    BY <2>1, <2>2 DEF Held5
  <2>4. w = 0
    BY <2>1, OccEmpty DEF Held5
  <2>5. w2 = IF m = n THEN 1 ELSE 0
    BY <2>2, OccSingle DEF Held5
  <2>6. Outside[m] = x + y + z + u + 0 /\ Outside'[m] = x + y + z + u + w2
    BY <2>1, <2>2, <2>3, <2>4
  <2>7. x + y + z + u + w2 = (x + y + z + u + 0) + w2
    OBVIOUS
  <2> QED
    BY <2>5, <2>6, <2>7
<1>24. Moved(T2, V, h, Standing', c)
  BY <1>9, <1>10, <1>16, <1>17, <1>18, <1>19, <1>20, <1>23 DEF Moved
<1>25. Holds(T2, V)'
  BY <1>24, MovedHolds
<1> QED
  BY <1>25 DEF IInv

\* The end of a parse that failed keeps it.
LEMMA GiveUpKeeps ==
  ASSUME NEW T, NEW V, Holds(T, V), GiveUp
  PROVE  IInv'
<1>1. phase = "discard" /\ later = <<>> /\ stack = <<>>
  BY DEF GiveUp, In
<1>2. Facts(T) /\ Typed /\ Stages /\ Sound(heap, T, Standing, Outside, MovedOnes)
  BY FactsAre DEF Holds
<1>3. /\ heap' = heap /\ later' = <<program>> /\ program' = NULL /\ phase' = "exit"
      /\ input' = input /\ ast' = ast /\ fault' = fault /\ f' = f /\ stack' = stack
      /\ block' = block /\ moved' = moved /\ gathered' = gathered /\ todo' = todo /\ next' = next
  BY DEF GiveUp, pass
<1>4. block = NULL /\ gathered = <<>> /\ (program = NULL \/ program # ast) /\ program \in Nat
  BY <1>1, <1>2 DEF Stages, Typed
<1>5. MovedOnes = {} /\ MovedOnes' = {}
  BY <1>1, <1>3 DEF MovedOnes
<1>6. Standing = {program, ast} \ {NULL} /\ Standing' = {ast} \ {NULL}
  BY <1>1, <1>3, <1>4 DEF Standing, Roots
<1>7. Typed'
  <2>1. <<program>> \in Seq(Nat)
    BY <1>4
  <2> QED
    BY <1>2, <1>3, <2>1 DEF Typed, NULL
<1>8. CountedBy(Outside', NULL, block, ast, gathered, <<program>>)
  BY <1>3, <1>7, OutsideThen
<1>9. CountedBy(Outside, program, block, ast, gathered, <<>>) /\ Outside \in Counts
  BY <1>1, <1>2 DEF Facts
<1>10. program # NULL => Outside[program] # 0
  <2>1. PICK x, y, z, u, w \in Nat : /\ Held5(program, program, block, ast, gathered, <<>>, x, y, z, u, w)
                                     /\ Outside[program] = x + y + z + u + w
    <3>1. Tallied(Outside, program, program, block, ast, gathered, <<>>)
      BY <1>4, <1>9, Tally
    <3> QED
      BY <3>1 DEF Tallied
  <2>2. x = 1
    BY <2>1 DEF Held5, Is
  <2> QED
    BY <2>1, <2>2
<1>11. PICK T2 \in SUBSET T : Sound(heap, T2, Standing', Outside, {})
  <2>1. program \in Standing \cup {NULL}
    BY <1>6
  <2>2. \E T2 \in SUBSET T : Sound(heap, T2, Standing \ {program}, Outside, {})
    BY <1>2, <1>5, <1>10, <2>1, FewerRoots
  <2>3. Standing \ {program} = Standing'
    BY <1>4, <1>6
  <2> QED
    BY <2>2, <2>3
<1>12. StackIsRaw'
  BY <1>1, <1>3 DEF StackIsRaw, Distinct, Entries
<1>13. Stages'
  BY <1>1, <1>2, <1>3, <1>4 DEF Stages
<1>14. Parsing' /\ Returning' /\ Gathering(V)' /\ Rewriting' /\ Covered(T2)'
  BY <1>3 DEF Parsing, Returning, Gathering, Rewriting, Covered
<1>15. \A m \in Nat \ {NULL} : Outside'[m] = Outside[m]
  <2> SUFFICES ASSUME NEW m \in Nat \ {NULL} PROVE Outside'[m] = Outside[m]
    OBVIOUS
  <2>1. PICK x, y, z, u, w \in Nat : /\ Held5(m, program, block, ast, gathered, <<>>, x, y, z, u, w)
                                     /\ Outside[m] = x + y + z + u + w
    <3>1. Tallied(Outside, m, program, block, ast, gathered, <<>>)
      BY <1>9, Tally
    <3> QED
      BY <3>1 DEF Tallied
  <2>2. PICK x2, y2, z2, u2, w2 \in Nat :
          /\ Held5(m, NULL, block, ast, gathered, <<program>>, x2, y2, z2, u2, w2)
          /\ Outside'[m] = x2 + y2 + z2 + u2 + w2
    <3>1. Tallied(Outside', m, NULL, block, ast, gathered, <<program>>)
      BY <1>8, Tally
    <3> QED
      BY <3>1 DEF Tallied
  <2>3. y2 = y /\ z2 = z /\ u2 = u
    BY <2>1, <2>2 DEF Held5
  <2>4. w = 0 /\ x2 = 0
    BY <2>1, <2>2, OccEmpty DEF Held5, Is
  <2>5. w2 = x
    BY <2>1, <2>2, OccSingle DEF Held5, Is
  <2>6. Outside[m] = x + y + z + u + 0 /\ Outside'[m] = 0 + y + z + u + x
    BY <2>1, <2>2, <2>3, <2>4, <2>5
  <2>7. 0 + y + z + u + x = x + y + z + u + 0
    OBVIOUS
  <2> QED
    BY <2>6, <2>7
<1>16. Moved(T2, V, heap, Standing', Outside)
  BY <1>3, <1>5, <1>7, <1>11, <1>12, <1>13, <1>14, <1>15 DEF Moved
<1>17. Holds(T2, V)'
  BY <1>16, MovedHolds
<1> QED
  BY <1>17 DEF IInv

\* The next file is at its first reduction.
Starts ==
  /\ phase' \in {"parse", "parsed"} /\ moved' = 0 /\ Parsing'
  /\ phase' = "parse" => f' \in DOMAIN input'
\* Bison's stack is empty when a file begins.
LEMMA FileStarts ==
  ASSUME Typed, Stages, phase = "returned", NextFile,
         input' = input, stack' = stack, program' = program
  PROVE  Starts
<1>1. f \in DOMAIN input /\ stack = <<>> /\ program = NULL
  BY DEF Stages
<1>2. f' = f + 1 /\ pc' = 1 /\ moved' = 0 /\ phase' = IF f < Len(input) THEN "parse" ELSE "parsed"
  BY DEF NextFile
<1>3. input \in Seq(DOMAIN Symbols)
  BY InputsAreParses DEF Typed
<1>4. PICK L \in Nat : L = Len(input) /\ DOMAIN input = 1 .. L
  BY <1>3
<1>5. CASE f < Len(input)
  <2>1. f + 1 \in 1 .. L
    BY <1>1, <1>4, <1>5
  <2>2. input[f + 1] \in DOMAIN Symbols
    BY <1>3, <1>4, <2>1
  <2>3. PICK file : file = input[f + 1]
    OBVIOUS
  <2>4. IsParse(file, Symbols[file])
    BY <2>2, <2>3, InputsAreParses
  <2>5. Symbols[file][1] = <<>> /\ Len(file) \in Nat
    BY <2>4 DEF IsParse
  <2>6. Len(file) # 0
    <3>1. file \in Seq(Rules) /\ (file # <<>> \/ Len(file) = 1)
      BY <2>4 DEF IsParse
    <3>2. CASE file = <<>>
      BY <2>5, <3>1, <3>2
    <3>3. CASE file # <<>>
      BY <3>1, <3>3, EmptySeq
    <3> QED
      BY <3>2, <3>3
  <2>7. SymbolsOf(pc)' = <<>>
    BY <1>2, <2>3, <2>5 DEF SymbolsOf
  <2>8. input'[f'] = file
    BY <1>2, <2>3
  <2>9. 1 \in 1 .. Len(file) + 1 /\ 1 # Len(file) + 1
    BY <2>5, <2>6
  <2>10. stack' = <<>> /\ program' = NULL /\ DOMAIN stack' = {}
    BY <1>1
  <2>11. Parsing'
    BY <1>2, <2>7, <2>8, <2>9, <2>10 DEF Parsing
  <2> QED
    BY <1>2, <1>4, <1>5, <2>1, <2>11 DEF Starts
<1>6. CASE ~(f < Len(input))
  <2>1. phase' = "parsed"
    BY <1>2, <1>6
  <2> QED
    BY <1>2, <2>1 DEF Starts, Parsing
<1> QED
  BY <1>5, <1>6

\* ast_ = block keeps the invariant.
LEMMA KeepKeeps ==
  ASSUME NEW T, NEW V, Holds(T, V), KeepFirst
  PROVE  IInv'
<1>1. phase = "returned" /\ later = <<>> /\ ast = NULL
  BY DEF KeepFirst, In
<1>2. Facts(T) /\ Typed /\ Stages /\ Returning /\ Sound(heap, T, Standing, Outside, MovedOnes)
  BY FactsAre DEF Holds
<1>3. /\ heap' = AddRef(heap, block) /\ later' = <<block>> /\ block' = NULL /\ ast' = block /\ NextFile
      /\ input' = input /\ fault' = fault /\ stack' = stack /\ program' = program
      /\ gathered' = gathered /\ todo' = todo /\ next' = next
  BY DEF KeepFirst, pass
<1>4. stack = <<>> /\ program = NULL /\ gathered = <<>> /\ block # NULL /\ moved = 0 /\ block \in Nat
  BY <1>1, <1>2 DEF Stages, Returning, Typed
<1>5. Starts
  BY <1>1, <1>2, <1>3, FileStarts
<1>6. MovedOnes = {} /\ MovedOnes' = {}
  <2>1. 1 .. moved = {}
    BY <1>4
  <2>2. phase' # "returned"
    BY <1>5 DEF Starts
  <2> QED
    BY <2>1, <2>2 DEF MovedOnes
<1>7. block \in Live(heap) /\ block \in Nodes(heap) /\ heap[block].class = "Block"
  BY <1>2, <1>4 DEF Facts, Stages
<1>8. Referenced(heap, heap', block, T, Standing, Outside, {})
  BY <1>2, <1>3, <1>6, <1>7, Referencing
<1>9. /\ Sound(heap', T, Standing, Plus(Outside, block), {})
      /\ heap'[block].class = "Block"
  BY <1>7, <1>8 DEF Referenced
<1>10. Standing' = Standing
  <2>1. Standing = {block} /\ Standing' = {block}
    BY <1>1, <1>3, <1>4 DEF Standing, Roots
  <2> QED
    BY <2>1
<1>11. Typed'
  <2>1. <<block>> \in Seq(Nat)
    BY <1>4
  <2> QED
    BY <1>2, <1>3, <1>4, <2>1 DEF Typed, NULL
<1>12. StackIsRaw'
  BY <1>3, <1>4 DEF StackIsRaw, Distinct, Entries
<1>13. Stages'
  <2>1. \A n \in {program', block', ast'} \ {NULL} : heap'[n].class = "Block"
    BY <1>3, <1>4, <1>9
  <2>2. stack' = <<>> /\ program' = NULL /\ block' = NULL /\ gathered' = <<>> /\ ast' # NULL
    BY <1>3, <1>4
  <2>3. phase' \in {"parse", "parsed"} /\ moved' = 0 /\ (phase' = "parse" => f' \in DOMAIN input')
    BY <1>5 DEF Starts
  <2> QED
    BY <2>1, <2>2, <2>3 DEF Stages
<1>14. Parsing' /\ Returning' /\ Gathering(V)' /\ Rewriting' /\ Covered(T)'
  <2>1. phase' \in {"parse", "parsed"} /\ Parsing'
    BY <1>5 DEF Starts
  <2> QED
    BY <2>1 DEF Returning, Gathering, Rewriting, Covered
<1>15. CountedBy(Outside', program, NULL, block, gathered, <<block>>)
  BY <1>3, <1>11, OutsideThen
<1>16. CountedBy(Outside, program, block, NULL, gathered, <<>>) /\ Outside \in Counts
  BY <1>1, <1>2 DEF Facts
<1>17. \A m \in Nat \ {NULL} : Outside'[m] = Plus(Outside, block)[m]
  <2> SUFFICES ASSUME NEW m \in Nat \ {NULL} PROVE Outside'[m] = Outside[m] + (IF m = block THEN 1 ELSE 0)
    BY <1>4, <1>16, PlusIs
  <2>1. PICK x, y, z, u, w \in Nat : /\ Held5(m, program, block, NULL, gathered, <<>>, x, y, z, u, w)
                                     /\ Outside[m] = x + y + z + u + w
    <3>1. Tallied(Outside, m, program, block, NULL, gathered, <<>>)
      BY <1>16, Tally
    <3> QED
      BY <3>1 DEF Tallied
  <2>2. PICK x2, y2, z2, u2, w2 \in Nat :
          /\ Held5(m, program, NULL, block, gathered, <<block>>, x2, y2, z2, u2, w2)
          /\ Outside'[m] = x2 + y2 + z2 + u2 + w2
    <3>1. Tallied(Outside', m, program, NULL, block, gathered, <<block>>)
      BY <1>15, Tally
    <3> QED
      BY <3>1 DEF Tallied
  <2>3. x2 = x /\ y2 = z /\ z2 = y /\ u2 = u
    BY <2>1, <2>2 DEF Held5
  <2>4. w = 0
    BY <2>1, OccEmpty DEF Held5
  <2>5. w2 = IF m = block THEN 1 ELSE 0
    BY <2>2, OccSingle DEF Held5
  <2>6. Outside[m] = x + y + z + u + 0 /\ Outside'[m] = x + z + y + u + w2
    BY <2>1, <2>2, <2>3, <2>4
  <2>7. x + z + y + u + w2 = (x + y + z + u + 0) + w2
    OBVIOUS
  <2> QED
    BY <2>5, <2>6, <2>7
<1>18. Moved(T, V, heap', Standing, Plus(Outside, block))
  BY <1>6, <1>9, <1>10, <1>11, <1>12, <1>13, <1>14, <1>17 DEF Moved
<1>19. Holds(T, V)'
  BY <1>18, MovedHolds
<1> QED
  BY <1>19 DEF IInv

\* While merge() moves statements: the block it takes them from and ast_ are
\* two trees.
Merging(T) ==
  /\ block \in Nodes(heap) /\ ast \in Nodes(heap) /\ block \in Live(heap) /\ ast \in Live(heap)
  /\ block # NULL /\ ast # NULL /\ block # ast /\ block \in Nat /\ ast \in Nat
  /\ heap[block].class = "Block" /\ heap[ast].class = "Block"
  /\ Standing = {block, ast} /\ block \in T /\ ast \in T
  /\ stack = <<>> /\ program = NULL /\ gathered = <<>> /\ later = <<>>
  /\ moved \in Nat
\* What merge() finds.
LEMMA MergingIs ==
  ASSUME NEW T, NEW V, Holds(T, V), phase = "returned", ast # NULL
  PROVE  Merging(T)
<1>1. Facts(T) /\ Typed /\ Stages /\ Returning /\ Sound(heap, T, Standing, Outside, MovedOnes)
  BY FactsAre DEF Holds
<1>2. /\ stack = <<>> /\ program = NULL /\ gathered = <<>> /\ later = <<>> /\ block # NULL
      /\ block # ast /\ block \in Nat /\ ast \in Nat
  BY <1>1 DEF Stages, Returning, Typed
<1>3. moved \in Nat
  <2>1. moved \in 0 .. Len(heap[block].kids)
    BY <1>1 DEF Returning
  <2>2. heap[block].kids \in Seq(Nat)
    BY <1>1, <1>2, HeapFacts DEF Facts
  <2>3. Len(heap[block].kids) \in Nat
    BY <2>2
  <2> QED
    BY <2>1, <2>3
<1>4. Standing = {block, ast}
  BY <1>2 DEF Standing, Roots
<1>5. Standing \subseteq T
  BY <1>1 DEF Sound, Forest
<1>6. heap[block].class = "Block" /\ heap[ast].class = "Block"
  BY <1>1, <1>2 DEF Stages
<1> QED
  BY <1>1, <1>2, <1>3, <1>4, <1>5, <1>6 DEF Facts, Merging

\* The statement that is moved next.
ToMove(T, n) ==
  /\ n \in Nodes(heap) /\ n \in Live(heap) /\ n \in T /\ n # NULL /\ n # ast /\ n # block
  /\ n \in Nat /\ n \notin Children(heap, ast) /\ heap[n].class \in Statement
  /\ \A o \in T : n \in Children(heap, o) => o = block
\* The next statement of merge() is a child of the block, and not of ast_ yet.
LEMMA Moving ==
  ASSUME NEW T, NEW V, Holds(T, V), phase = "returned", ast # NULL, moved < Len(heap[block].kids),
         NEW n, n = heap[block].kids[moved + 1]
  PROVE  ToMove(T, n)
<1>1. Merging(T) /\ Facts(T) /\ Sound(heap, T, Standing, Outside, MovedOnes)
  BY MergingIs, FactsAre DEF Holds
<1>2. Graph(heap, Standing, Outside) /\ Forest(heap, T, Standing, MovedOnes) /\ AllFit(heap, T)
  BY <1>1 DEF Sound
<1>3. PICK k \in Seq(Nat) : k = heap[block].kids
  BY <1>1, HeapFacts DEF Facts, Merging
<1>4. PICK i \in Nat : i = moved + 1 /\ i \in DOMAIN k
  <2>1. moved \in Nat /\ moved < Len(k)
    BY <1>1, <1>3 DEF Merging
  <2>2. moved + 1 \in Nat /\ moved + 1 \in 1 .. Len(k)
    BY <2>1
  <2> QED
    BY <2>2
<1>5. n = k[i] /\ n \in Nat
  <2>1. \A j \in DOMAIN k : k[j] \in Nat
    OBVIOUS
  <2> QED
    BY <1>3, <1>4, <2>1
<1>6. n # NULL /\ heap[n].class \in Statement
  <2>1. Fits(heap, block)
    BY <1>1, <1>2 DEF AllFit, Merging
  <2>2. i \in Slots(heap, block) /\ heap[block].kids[i] = n /\ heap[block].class = "Block"
    BY <1>1, <1>3, <1>4, <1>5 DEF Slots, Merging
  <2>3. IF n = NULL THEN Accepts("Block", i).optional ELSE Permits("Block", i, heap[n].class)
    BY <2>1, <2>2 DEF Fits
  <2>4. Accepts("Block", i) = Required(Statement)
    BY WhatTheyAccept
  <2> QED
    BY <2>3, <2>4 DEF Permits, Required
<1>7. n \in Children(heap, block)
  BY <1>3, <1>4, <1>5, <1>6 DEF Children, Slots
<1>8. n \in T /\ n \in Live(heap) /\ n \in Nodes(heap)
  BY <1>1, <1>2, <1>7 DEF Forest, Merging, Facts
<1>9. \A r \in {block, ast} : \A o \in Live(heap) : r \notin Children(heap, o)
  BY <1>1, <1>2, RootHasNoOwner DEF Merging
<1>10. n # ast /\ n # block
  BY <1>1, <1>7, <1>9 DEF Merging
<1>11. \A o : <<o, n>> \notin MovedOnes
  <2> SUFFICES ASSUME NEW o, <<o, n>> \in MovedOnes PROVE FALSE
    OBVIOUS
  <2>1. PICK j \in 1 .. moved : n = k[j]
    BY <1>3 DEF MovedOnes
  <2>2. moved \in Nat /\ moved < Len(k)
    BY <1>1, <1>3 DEF Merging
  <2>3. j \in DOMAIN k /\ j # i
    BY <1>4, <2>1, <2>2
  <2>4. Distinct(k)
    BY <1>1, <1>2, <1>3 DEF Graph, Whole, Merging
  <2> QED
    BY <1>4, <1>5, <1>6, <2>1, <2>3, <2>4 DEF Distinct
<1>12. heap[n].parent = block
  BY <1>1, <1>2, <1>7, <1>11 DEF Forest, Merging
<1>13. \A o \in T : n \in Children(heap, o) => o = block
  BY <1>2, <1>11, <1>12 DEF Forest
<1>14. n \notin Children(heap, ast)
  BY <1>1, <1>13 DEF Merging
<1> QED
  BY <1>5, <1>6, <1>8, <1>10, <1>13, <1>14 DEF ToMove

\* A statement that merge() moves keeps the invariant: it has two owners for a while.
LEMMA MergeKeeps ==
  ASSUME NEW T, NEW V, Holds(T, V), MergeStatement
  PROVE  IInv'
<1>1. phase = "returned" /\ later = <<>> /\ ast # NULL /\ moved < Len(heap[block].kids)
  BY DEF MergeStatement, In
<1>2. Facts(T) /\ Typed /\ Stages /\ Returning /\ StackIsRaw
      /\ Sound(heap, T, Standing, Outside, MovedOnes)
  BY FactsAre DEF Holds
<1>3. PICK n : n = heap[block].kids[moved + 1]
  OBVIOUS
<1>4. Merging(T) /\ ToMove(T, n)
  BY <1>1, <1>3, MergingIs, Moving
<1>5. PICK g : g = AppendChild(heap, ast, n)
  OBVIOUS
<1>6. /\ heap' = g /\ moved' = moved + 1 /\ phase' = phase /\ block' = block /\ ast' = ast
      /\ input' = input /\ fault' = fault /\ stack' = stack /\ program' = program /\ later' = later
      /\ f' = f /\ gathered' = gathered /\ todo' = todo /\ next' = next
  BY <1>3, <1>5 DEF MergeStatement, pass
<1>7. Graph(heap, Standing, Outside) /\ Forest(heap, T, Standing, MovedOnes) /\ AllFit(heap, T)
  BY <1>2 DEF Sound
<1>8. Linked(heap, g, ast, n, {}) /\ Entries(g[ast].kids) = Entries(heap[ast].kids) \cup {n}
  <2>1. Distinct(heap[ast].kids)
    BY <1>4, <1>7 DEF Graph, Whole, Merging
  <2>2. IsHeap(heap) /\ ast \in Nodes(heap) /\ n \in Nodes(heap) /\ n # ast /\ n \notin Children(heap, ast)
    BY <1>2, <1>4 DEF Facts, Merging, ToMove
  <2> QED
    BY <1>5, <2>1, <2>2, AppendIs
<1>9. /\ g[block].kids = heap[block].kids /\ IsHeap(g)
      /\ \A m \in Nodes(heap) : g[m].class = heap[m].class
  BY <1>4, <1>8 DEF Linked, Merging
<1>10. MovedOnes' = {<<block, heap[block].kids[i]>> : i \in 1 .. moved + 1}
  BY <1>1, <1>6, <1>9 DEF MovedOnes
<1>11. moved \in Nat /\ 1 .. moved + 1 = (1 .. moved) \cup {moved + 1}
  BY <1>4 DEF Merging
<1>12. MovedOnes \subseteq MovedOnes' /\ <<block, n>> \in MovedOnes'
  BY <1>1, <1>3, <1>10, <1>11 DEF MovedOnes
<1>13. \A o \in T : n \in Children(heap, o) => <<o, n>> \in MovedOnes'
  BY <1>4, <1>12 DEF ToMove
<1>14. Graph(g, Standing \ {n}, Outside) /\ Forest(g, T, Standing \ {n}, MovedOnes')
  <2>1. ast \in Standing /\ n \in T /\ n # ast /\ n \notin Children(heap, ast)
    BY <1>4 DEF Merging, ToMove
  <2> QED
    BY <1>7, <1>8, <1>12, <1>13, <2>1, LinkForest
<1>15. Standing \ {n} = Standing
  BY <1>4 DEF Merging, ToMove
<1>16. AllFit(g, T)
  <2>1. IsList("Block") /\ Class["Block"].elements = Statement
    BY WhatTheyAccept, SomeClasses DEF Block, ListOf
  <2>2. /\ IsList(heap[ast].class) /\ heap[n].class \in Class[heap[ast].class].elements
        /\ heap[ast].class # "UDTFieldOuter"
    BY <1>4, <2>1 DEF Merging, ToMove
  <2>3. IsHeap(heap) /\ Whole(heap) /\ T \in SUBSET Nodes(heap) /\ ast \in T /\ n \in Nodes(heap)
    BY <1>2, <1>4 DEF Facts, Merging, ToMove
  <2> QED
    BY <1>7, <1>8, <2>2, <2>3, AppendFits
<1>17. Sound(g, T, Standing, Outside, MovedOnes')
  BY <1>14, <1>15, <1>16 DEF Sound
<1>18. Typed' /\ StackIsRaw'
  BY <1>2, <1>6 DEF Typed, StackIsRaw
<1>19. Stages'
  <2>1. \A m \in {program, block, ast} \ {NULL} : g[m].class = "Block"
    BY <1>4, <1>9 DEF Merging
  <2> QED
    BY <1>1, <1>2, <1>6, <2>1 DEF Stages
<1>20. Returning'
  <2>1. moved + 1 \in 0 .. Len(heap[block].kids)
    <3>1. moved \in 0 .. Len(heap[block].kids)
      BY <1>1, <1>2 DEF Returning
    <3>2. heap[block].kids \in Seq(Nat)
      BY <1>2, <1>4, HeapFacts DEF Facts, Merging
    <3>3. Len(heap[block].kids) \in Nat
      BY <3>2
    <3> QED
      BY <1>1, <3>1, <3>3
  <2>2. ASSUME NEW i \in 1 .. moved + 1
        PROVE  heap[block].kids[i] \in Children(g, ast)
    <3>1. Children(g, ast) = Children(heap, ast) \cup {n}
      <4>1. Children(g, ast) = Entries(g[ast].kids) \ {NULL} /\ Children(heap, ast) = Entries(heap[ast].kids) \ {NULL}
        BY DEF Children, Slots, Entries
      <4> QED
        BY <1>4, <1>8, <4>1 DEF ToMove
    <3>2. CASE i \in 1 .. moved
      BY <1>1, <1>2, <3>1, <3>2 DEF Returning
    <3>3. CASE i = moved + 1
      BY <1>3, <3>1, <3>3
    <3> QED
      BY <1>11, <3>2, <3>3
  <2> QED
    BY <1>1, <1>4, <1>6, <1>9, <2>1, <2>2 DEF Returning, Merging
<1>21. Parsing' /\ Gathering(V)' /\ Rewriting' /\ Covered(T)'
  BY <1>1, <1>6 DEF Parsing, Gathering, Rewriting, Covered
<1>22. Standing' = Standing /\ Outside' = Outside
  BY <1>6 DEF Standing, Roots, Outside
<1>23. Moved(T, V, g, Standing, Outside)
  BY <1>6, <1>17, <1>18, <1>19, <1>20, <1>21, <1>22 DEF Moved
<1>24. Holds(T, V)'
  BY <1>23, MovedHolds
<1> QED
  BY <1>24 DEF IInv

\* The block whose statements have been moved is cleared and no root any more.
Emptied(g, T, c) ==
  /\ \E T2 \in SUBSET T : Sound(g, T2, {ast}, c, {})
  /\ \A n \in Nodes(heap) : g[n].class = heap[n].class
\* The block that is cleared gives up what ast_ has by now.
LEMMA Clearing ==
  ASSUME NEW T, NEW V, Holds(T, V), phase = "returned", ast # NULL,
         moved = Len(heap[block].kids), NEW g, g = Cleared,
         NEW kids, kids = heap[block].kids
  PROVE  Emptied(g, T, WithDropped(Outside, kids))
<1>1. Facts(T) /\ Returning /\ Merging(T) /\ Sound(heap, T, Standing, Outside, MovedOnes)
  BY MergingIs, FactsAre DEF Holds
<1>2. Graph(heap, Standing, Outside) /\ Forest(heap, T, Standing, MovedOnes) /\ AllFit(heap, T)
  BY <1>1 DEF Sound
<1>3. PICK k \in Seq(Nat) : k = kids
  BY <1>1, HeapFacts DEF Facts, Merging
<1>4. DOMAIN k = 1 .. moved /\ Children(heap, block) = Entries(k) \ {NULL}
  BY <1>3 DEF Children, Slots, Entries
<1>5. \A o, m : <<o, m>> \in MovedOnes => o = block
  BY DEF MovedOnes
<1>6. \A m \in Children(heap, block) : \E a \in T : a # block /\ m \in Children(heap, a)
  <2> SUFFICES ASSUME NEW m \in Children(heap, block) PROVE m \in Children(heap, ast)
    BY <1>1 DEF Merging
  <2>1. PICK i \in DOMAIN k : m = k[i]
    BY <1>4 DEF Entries
  <2>2. \A j \in 1 .. moved : heap[block].kids[j] \in Children(heap, ast)
    BY <1>1 DEF Returning
  <2> QED
    BY <1>3, <1>4, <2>1, <2>2
<1>7. PICK c : c = WithDropped(Outside, k)
  OBVIOUS
<1>8. c \in Counts /\ \A m \in Nat : c[m] = Outside[m] + Occ(k, m)
  BY <1>1, <1>7, WithDroppedIs DEF Facts
<1>9. \A m \in Nat \ {NULL} : c[m] = Outside[m] + (IF m \in Children(heap, block) THEN 1 ELSE 0)
  <2>1. Distinct(k)
    BY <1>1, <1>2, <1>3 DEF Graph, Whole, Merging
  <2>2. \A m \in Nat \ {NULL} : Occ(k, m) = IF m \in Entries(k) THEN 1 ELSE 0
    BY <2>1, OccOnce
  <2> QED
    BY <1>4, <1>8, <2>2
<1>10. g = [heap EXCEPT ![block].kids = <<>>] /\ block \in Standing
  BY <1>1 DEF Cleared, Merging
<1>11. /\ Graph(g, Standing, c) /\ Forest(g, T, Standing, {}) /\ Children(g, block) = {}
       /\ \A n \in Nodes(heap) : g[n].class = heap[n].class /\ (n # block => g[n] = heap[n])
       /\ Nodes(g) = Nodes(heap)
  <2>1. c \in Counts /\ block \in Standing /\ g = NoKids(heap, block)
    BY <1>8, <1>10 DEF NoKids
  <2>2. Graph(heap, Standing, Outside) /\ Forest(heap, T, Standing, MovedOnes)
    BY <1>2
  <2> QED
    BY <1>5, <1>6, <1>9, <2>1, <2>2, ClearedForest
<1>12. AllFit(g, T)
  <2> SUFFICES ASSUME NEW n \in T PROVE Fits(g, n)
    BY DEF AllFit
  <2>1. n \in Nodes(heap) /\ Fits(heap, n) /\ Children(heap, n) \subseteq Nodes(heap)
    BY <1>1, <1>2 DEF Facts, AllFit, Whole
  <2>2. CASE n = block
    <3>1. g[n].class = "Block" /\ IsList("Block")
      BY <1>1, <1>11, <2>1, <2>2, WhatTheyAccept DEF Merging
    <3>2. Slots(g, n) = {}
      <4>1. PICK x \in Node : x = heap[n]
        BY <1>1, <2>1, HeapFacts DEF Facts
      <4>2. g[n] = [x EXCEPT !.kids = <<>>]
        BY <1>10, <2>1, <2>2, <4>1 DEF Nodes
      <4>3. g[n].kids = <<>>
        BY <4>2 DEF Node
      <4> QED
        BY <4>3 DEF Slots
    <3> QED
      BY <3>1, <3>2 DEF Fits
  <2>3. CASE n # block
    <3>1. g[n] = heap[n]
      BY <1>11, <2>1, <2>3
    <3>2. \A i \in DOMAIN heap[n].kids :
            heap[n].kids[i] # NULL => g[heap[n].kids[i]].class = heap[heap[n].kids[i]].class
      BY <1>11, <2>1 DEF Children, Slots
    <3> QED
      BY <2>1, <3>1, <3>2, FitsKept
  <2> QED
    BY <2>2, <2>3
<1>13. Sound(g, T, Standing, c, {})
  BY <1>11, <1>12 DEF Sound
<1>14. c[block] # 0
  <2>1. PICK x, y, z, u, w \in Nat : /\ Held5(block, program, block, ast, gathered, later, x, y, z, u, w)
                                     /\ Outside[block] = x + y + z + u + w
    <3>1. Tallied(Outside, block, program, block, ast, gathered, later)
      BY <1>1, Tally DEF Facts, Merging
    <3> QED
      BY <3>1 DEF Tallied
  <2>2. y = 1
    BY <2>1 DEF Held5, Is
  <2>3. PICK v \in Nat : v = Occ(k, block)
    BY PlacesAreFinite
  <2>4. c[block] = x + 1 + z + u + w + v
    BY <1>1, <1>8, <2>1, <2>2, <2>3 DEF Merging
  <2> QED
    BY <2>4
<1>15. \E T2 \in SUBSET T : Sound(g, T2, Standing \ {block}, c, {})
  BY <1>10, <1>13, <1>14, FewerRoots
<1>16. Standing \ {block} = {ast}
  BY <1>1 DEF Merging
<1> QED
  BY <1>3, <1>7, <1>11, <1>15, <1>16 DEF Emptied

\* The end of merge() keeps the invariant.
LEMMA MergeEndsKeeps ==
  ASSUME NEW T, NEW V, Holds(T, V), MergeEnds
  PROVE  IInv'
<1>1. phase = "returned" /\ later = <<>> /\ ast # NULL /\ moved = Len(heap[block].kids)
  BY DEF MergeEnds, In
<1>2. Facts(T) /\ Typed /\ Stages /\ Merging(T)
  BY <1>1, FactsAre, MergingIs DEF Holds
<1>3. PICK k \in Seq(Nat) : k = heap[block].kids
  BY <1>2, HeapFacts DEF Facts, Merging
<1>4. PICK g : g = Cleared
  OBVIOUS
<1>5. /\ heap' = g /\ later' = k \o <<block>> /\ block' = NULL /\ NextFile
      /\ input' = input /\ ast' = ast /\ fault' = fault /\ stack' = stack /\ program' = program
      /\ gathered' = gathered /\ todo' = todo /\ next' = next
  BY <1>3, <1>4 DEF MergeEnds, pass
<1>6. Starts
  BY <1>1, <1>2, <1>5, FileStarts
<1>7. MovedOnes' = {}
  BY <1>6 DEF MovedOnes, Starts
<1>8. PICK c : c = WithDropped(Outside, k)
  OBVIOUS
<1>9. Emptied(g, T, c)
  BY <1>1, <1>3, <1>4, <1>8, Clearing
<1>10. PICK T2 \in SUBSET T : Sound(g, T2, {ast}, c, {})
  BY <1>9 DEF Emptied
<1>11. stack = <<>> /\ program = NULL /\ gathered = <<>> /\ block \in Nat /\ ast \in Nat
  BY <1>2 DEF Merging
<1>12. Standing' = {ast}
  BY <1>1, <1>5, <1>11 DEF Standing, Roots
<1>13. <<block>> \in Seq(Nat) /\ k \o <<block>> \in Seq(Nat)
  <2>1. <<block>> \in Seq(Nat)
    BY <1>11
  <2> QED
    BY <2>1
<1>14. Typed'
  BY <1>2, <1>5, <1>13 DEF Typed, NULL
<1>15. StackIsRaw'
  BY <1>5, <1>11 DEF StackIsRaw, Distinct, Entries
<1>16. Stages'
  <2>1. heap'[ast].class = "Block"
    BY <1>2, <1>5, <1>9 DEF Merging, Emptied
  <2>2. \A n \in {program', block', ast'} \ {NULL} : heap'[n].class = "Block"
    BY <1>5, <1>11, <2>1
  <2>3. stack' = <<>> /\ program' = NULL /\ block' = NULL /\ gathered' = <<>> /\ ast' # NULL
    BY <1>1, <1>5, <1>11
  <2>4. phase' \in {"parse", "parsed"} /\ moved' = 0 /\ (phase' = "parse" => f' \in DOMAIN input')
    BY <1>6 DEF Starts
  <2> QED
    BY <2>2, <2>3, <2>4 DEF Stages
<1>17. Parsing' /\ Returning' /\ Gathering(V)' /\ Rewriting' /\ Covered(T2)'
  <2>1. phase' \in {"parse", "parsed"} /\ Parsing'
    BY <1>6 DEF Starts
  <2> QED
    BY <2>1 DEF Returning, Gathering, Rewriting, Covered
<1>18. CountedBy(Outside', program, NULL, ast, gathered, k \o <<block>>)
  BY <1>5, <1>14, OutsideThen
<1>19. CountedBy(Outside, program, block, ast, gathered, <<>>) /\ Outside \in Counts
  BY <1>1, <1>2 DEF Facts
<1>20. \A m \in Nat \ {NULL} : Outside'[m] = c[m]
  <2> SUFFICES ASSUME NEW m \in Nat \ {NULL} PROVE Outside'[m] = Outside[m] + Occ(k, m)
    BY <1>8, <1>19, WithDroppedIs
  <2>1. PICK x, y, z, u, w \in Nat : /\ Held5(m, program, block, ast, gathered, <<>>, x, y, z, u, w)
                                     /\ Outside[m] = x + y + z + u + w
    <3>1. Tallied(Outside, m, program, block, ast, gathered, <<>>)
      BY <1>19, Tally
    <3> QED
      BY <3>1 DEF Tallied
  <2>2. PICK x2, y2, z2, u2, w2 \in Nat :
          /\ Held5(m, program, NULL, ast, gathered, k \o <<block>>, x2, y2, z2, u2, w2)
          /\ Outside'[m] = x2 + y2 + z2 + u2 + w2
    <3>1. Tallied(Outside', m, program, NULL, ast, gathered, k \o <<block>>)
      BY <1>18, Tally
    <3> QED
      BY <3>1 DEF Tallied
  <2>3. x2 = x /\ z2 = z /\ u2 = u
    BY <2>1, <2>2 DEF Held5
  <2>4. w = 0 /\ y2 = 0
    BY <2>1, <2>2, OccEmpty DEF Held5, Is
  <2>5. PICK v \in Nat : v = Occ(k, m)
    BY PlacesAreFinite
  <2>6. w2 = v + y
    <3>1. <<block>> \in Seq(Nat)
      BY <1>11
    <3>2. Occ(k \o <<block>>, m) = Occ(k, m) + Occ(<<block>>, m)
      BY <3>1, OccConcat
    <3>3. Occ(<<block>>, m) = y
      BY <2>1, OccSingle DEF Held5, Is
    <3>4. w2 = Occ(k \o <<block>>, m)
      BY <2>2 DEF Held5
    <3> QED
      BY <2>5, <3>2, <3>3, <3>4
  <2>7. Outside[m] = x + y + z + u + 0 /\ Outside'[m] = x + 0 + z + u + (v + y)
    BY <2>1, <2>2, <2>3, <2>4, <2>6
  <2>8. x + 0 + z + u + (v + y) = (x + y + z + u + 0) + v
    OBVIOUS
  <2> QED
    BY <2>5, <2>7, <2>8
<1>21. Moved(T2, V, g, {ast}, c)
  BY <1>5, <1>7, <1>10, <1>12, <1>14, <1>15, <1>16, <1>17, <1>20 DEF Moved
<1>22. Holds(T2, V)'
  BY <1>21, MovedHolds
<1> QED
  BY <1>22 DEF IInv

-----------------------------------------------------------------------------
(* Steps that leave the heap and the references alone.                     *)

Quiet ==
  /\ heap' = heap /\ input' = input /\ ast' = ast /\ later' = later /\ fault' = fault
  /\ f' = f /\ stack' = stack /\ program' = program /\ block' = block /\ moved' = moved
  /\ gathered' = gathered
\* A step that leaves heap and references alone keeps it.
LEMMA QuietKeeps ==
  ASSUME NEW T, NEW V, Holds(T, V), Quiet, phase \notin {"parse", "returned", "discard", "accepted"},
         phase' \notin {"parse", "returned", "discard", "accepted"},
         todo' \in Seq(Nat), next' \in Nat \ {0},
         phase' \in {"parsed", "group", "gather", "rewrite"} => ast # NULL,
         phase' \in {"gather", "rewrite"} \/ gathered = <<>>,
         NEW V2, Gathering(V2)', Rewriting', Covered(T)'
  PROVE  IInv'
<1>1. Typed /\ Stages /\ StackIsRaw /\ Sound(heap, T, Standing, Outside, MovedOnes)
  BY DEF Holds
<1>2. Typed' /\ StackIsRaw'
  BY <1>1 DEF Typed, StackIsRaw, Quiet
<1>3. Stages'
  BY <1>1 DEF Stages, Quiet
<1>4. Parsing' /\ Returning'
  BY DEF Parsing, Returning
<1>5. MovedOnes = {} /\ MovedOnes' = {}
  BY DEF MovedOnes
<1>6. Standing' = Standing /\ Outside' = Outside
  BY DEF Standing, Roots, Outside, Quiet
<1>7. Moved(T, V2, heap, Standing, Outside)
  BY <1>1, <1>2, <1>3, <1>4, <1>5, <1>6 DEF Moved, Quiet
<1>8. Holds(T, V2)'
  BY <1>7, MovedHolds
<1> QED
  BY <1>8 DEF IInv

\* The processes that only look at the tree keep it.
LEMMA GroupKeeps ==
  ASSUME NEW T, NEW V, Holds(T, V),
         ExecuteGroup \/ GroupEnds \/ EnforceSingleDefaultCase \/ ValidateUDTFieldNames
  PROVE  IInv'
<1>1. phase \in {"parsed", "group"} /\ phase' \in {"group", "exit", "crashed"}
      /\ todo' = todo /\ next' = next /\ Quiet
  <2>1. CASE ExecuteGroup
    BY <2>1 DEF ExecuteGroup, In, parser, Quiet
  <2>2. CASE GroupEnds
    BY <2>2 DEF GroupEnds, In, parser, pass, Quiet
  <2>3. CASE EnforceSingleDefaultCase
    <3>1. phase = "group"
      BY <2>3 DEF EnforceSingleDefaultCase, Executing, In
    <3>2. phase' \in {"group", "crashed"}
      BY <2>3, <3>1 DEF EnforceSingleDefaultCase
    <3>3. todo' = todo /\ next' = next /\ Quiet
      BY <2>3 DEF EnforceSingleDefaultCase, parser, Quiet
    <3> QED
      BY <3>1, <3>2, <3>3
  <2>4. CASE ValidateUDTFieldNames
    BY <2>4 DEF ValidateUDTFieldNames, Executing, In, parser, Quiet
  <2> QED
    BY <2>1, <2>2, <2>3, <2>4
<1>2. Typed /\ Stages
  BY DEF Holds
<1>3. todo' \in Seq(Nat) /\ next' \in Nat \ {0} /\ ast # NULL /\ gathered = <<>>
  BY <1>1, <1>2 DEF Typed, Stages
<1>4. Gathering(V)' /\ Rewriting' /\ Covered(T)'
  BY <1>1 DEF Gathering, Rewriting, Covered
<1> QED
  BY <1>1, <1>3, <1>4, QuietKeeps

\* The tree of ast_ is all there is when the pass begins.
LEMMA AllInTree ==
  ASSUME NEW T, NEW V, Holds(T, V), phase = "group", later = <<>>
  PROVE  Live(heap) = T
<1>1. Facts(T) /\ Typed /\ Stages /\ Sound(heap, T, Standing, Outside, MovedOnes)
  BY FactsAre DEF Holds
<1>2. Graph(heap, Standing, Outside) /\ Forest(heap, T, Standing, MovedOnes)
  BY <1>1 DEF Sound
<1>3. stack = <<>> /\ program = NULL /\ block = NULL /\ gathered = <<>> /\ ast # NULL /\ ast \in Nat
  BY <1>1 DEF Stages, Typed
<1>4. Standing = {ast} /\ ast \in T /\ T \subseteq Live(heap)
  <2>1. Standing = {ast}
    BY <1>3 DEF Standing, Roots
  <2> QED
    BY <1>2, <2>1 DEF Forest
<1>5. \A r \in Live(heap) : Outside[r] # 0 => r = ast
  <2> SUFFICES ASSUME NEW r \in Live(heap), r # ast PROVE Outside[r] = 0
    OBVIOUS
  <2>1. r \in Nat /\ r # NULL
    BY <1>1, HeapFacts DEF Facts
  <2>2. PICK x, y, z, u, w \in Nat : /\ Held5(r, NULL, NULL, ast, <<>>, <<>>, x, y, z, u, w)
                                     /\ Outside[r] = x + y + z + u + w
    <3>1. CountedBy(Outside, NULL, NULL, ast, <<>>, <<>>)
      BY <1>1, <1>3 DEF Facts
    <3>2. Tallied(Outside, r, NULL, NULL, ast, <<>>, <<>>)
      BY <2>1, <3>1, Tally
    <3> QED
      BY <3>2 DEF Tallied
  <2>3. x = 0 /\ y = 0 /\ z = 0 /\ u = 0 /\ w = 0
    BY <2>1, <2>2, OccEmpty DEF Held5, Is
  <2> QED
    BY <2>2, <2>3
<1>6. Below(heap, ast) \subseteq T
  <2>1. T \in SUBSET Nodes(heap) /\ Closed(heap, T)
    BY <1>1, <1>2 DEF Facts, Forest, Closed
  <2>2. ast \in Live(heap) \cup {NULL} /\ IsHeap(heap) /\ Whole(heap) /\ ast \in T \cup {NULL}
    BY <1>1, <1>4 DEF Facts
  <2> QED
    BY <2>1, <2>2, BelowFacts
<1>7. \A n \in Live(heap) : n \in Below(heap, ast)
  BY <1>2, <1>4, <1>5, Reachable
<1> QED
  BY <1>4, <1>6, <1>7

\* The start of EliminateBitwiseNotRHS keeps it.
LEMMA GatheringStarts ==
  ASSUME NEW T, NEW V, Holds(T, V), StartGathering
  PROVE  IInv'
<1>1. phase = "group" /\ later = <<>> /\ phase' = "gather" /\ todo' = <<ast>> /\ next' = 1 /\ Quiet
  BY DEF StartGathering, Executing, In, parser, Quiet
<1>2. Facts(T) /\ Typed /\ Stages
  BY FactsAre DEF Holds
<1>3. Live(heap) = T
  BY <1>1, AllInTree
<1>4. ast # NULL /\ ast \in Nat /\ ast \in Live(heap) /\ gathered = <<>>
  BY <1>1, <1>2 DEF Stages, Typed, Facts
<1>5. Entries(<<ast>>) = {ast} /\ Distinct(<<ast>>) /\ Entries(<<>>) = {} /\ Distinct(<<>>)
  BY DEF Entries, Distinct
<1>6. Gathering({})'
  BY <1>1, <1>4, <1>5 DEF Gathering, Quiet
<1>7. Rewriting' /\ Covered(T)'
  BY <1>1, <1>3 DEF Rewriting, Covered, Quiet
<1>8. todo' \in Seq(Nat) /\ next' \in Nat \ {0}
  BY <1>1, <1>4
<1> QED
  BY <1>1, <1>4, <1>6, <1>7, <1>8, QuietKeeps

\* When all nodes have been visited, every operator that was gathered is in the tree.
LEMMA RewritingStarts ==
  ASSUME NEW T, NEW V, Holds(T, V), StartRewriting
  PROVE  IInv'
<1>1. phase = "gather" /\ later = <<>> /\ phase' = "rewrite" /\ todo = <<>> /\ todo' = todo
      /\ next' = next /\ Quiet
  BY DEF StartRewriting, In, parser, pass, Quiet
<1>2. Facts(T) /\ Typed /\ Stages /\ Gathering(V) /\ Covered(T)
      /\ Sound(heap, T, Standing, Outside, MovedOnes)
  BY FactsAre DEF Holds
<1>3. MovedOnes = {}
  BY <1>1 DEF MovedOnes
<1>4. Forest(heap, T, Standing, {}) /\ AllFit(heap, T) /\ Live(heap) = T
  BY <1>1, <1>2, <1>3 DEF Sound, Covered
<1>5. /\ Entries(todo) = {} /\ V \subseteq Live(heap) /\ next = 1
      /\ \A m \in V \ {NULL} : m = ast \/ \E o \in V : m \in Children(heap, o)
      /\ Entries(gathered) \subseteq V /\ Distinct(gathered)
      /\ \A n \in Entries(gathered) : IsBitwiseNot(heap, n)
  BY <1>1, <1>2 DEF Gathering, Entries
<1>6. NULL \notin Entries(gathered)
  BY <1>2, <1>5 DEF Facts
<1>7. \A o \in Live(heap) : \A m \in Children(heap, o) : heap[m].parent = o
  BY <1>4 DEF Forest
<1>8. ASSUME NEW n \in Entries(gathered)
      PROVE  heap[n].parent \in Live(heap) /\ n \in Children(heap, heap[n].parent)
  <2>1. n # ast
    <3>1. heap[n].class = "BinaryOp"
      BY <1>5 DEF IsBitwiseNot
    <3>2. ast # NULL /\ heap[ast].class = "Block"
      BY <1>1, <1>2 DEF Stages
    <3> QED
      BY <3>1, <3>2
  <2>2. PICK o \in V : n \in Children(heap, o)
    BY <1>5, <1>6, <2>1
  <2> QED
    BY <1>5, <1>7, <2>2
<1>9. Replaced' = {}
  <2>1. \A j \in DOMAIN gathered : ~(j < 1)
    <3>1. gathered \in Seq(Nat)
      BY <1>2 DEF Typed
    <3>2. DOMAIN gathered = 1 .. Len(gathered)
      BY <3>1
    <3> QED
      BY <3>1, <3>2
  <2> QED
    BY <1>1, <1>5, <2>1 DEF Replaced, Quiet
<1>10. Rewriting'
  <2>1. Entries(later) = {}
    BY <1>1 DEF Entries
  <2>2. \A k \in DOMAIN gathered : gathered[k] \in Entries(gathered)
    BY DEF Entries
  <2>3. \A k \in DOMAIN gathered : /\ heap[gathered[k]].parent \in Live(heap)
                                   /\ gathered[k] \in Children(heap, heap[gathered[k]].parent)
    BY <1>8, <2>2
  <2> QED
    BY <1>1, <1>4, <1>5, <1>6, <1>7, <1>9, <2>1, <2>3 DEF Rewriting, Quiet
<1>11. Gathering(V)' /\ Covered(T)'
  BY <1>1, <1>9 DEF Gathering, Covered
<1>12. ast # NULL /\ todo' \in Seq(Nat) /\ next' \in Nat \ {0}
  BY <1>1, <1>2 DEF Typed, Stages
<1> QED
  BY <1>1, <1>10, <1>11, <1>12, QuietKeeps

\* A right hand side with side effects keeps the invariant.
LEMMA RefuseKeeps ==
  ASSUME NEW T, NEW V, Holds(T, V), RefuseOperator
  PROVE  IInv'
<1>1. phase = "rewrite" /\ phase' = phase /\ todo' = todo /\ next' = next /\ Quiet
  BY DEF RefuseOperator, AtOperator, In, parser, Quiet
<1>2. Typed /\ Stages /\ Rewriting /\ Covered(T)
  BY DEF Holds
<1>3. Rewriting' /\ Gathering(V)' /\ Covered(T)'
  BY <1>1, <1>2 DEF Rewriting, Gathering, Covered, Replaced, Quiet
<1>4. ast # NULL /\ todo' \in Seq(Nat) /\ next' \in Nat \ {0}
  BY <1>1, <1>2 DEF Typed, Stages
<1> QED
  BY <1>1, <1>3, <1>4, QuietKeeps

\* So does no step.
LEMMA StutterKeeps ==
  ASSUME NEW T, NEW V, Holds(T, V), UNCHANGED vars
  PROVE  IInv'
<1>1. Quiet /\ phase' = phase /\ pc' = pc /\ todo' = todo /\ next' = next
  BY DEF vars, parser, pass, Quiet
<1>2. Typed' /\ StackIsRaw' /\ Stages'
  BY <1>1 DEF Holds, Typed, StackIsRaw, Stages, Quiet
<1>3. Parsing' /\ Returning'
  BY <1>1 DEF Holds, Parsing, SymbolsOf, Returning, Quiet
<1>4. Gathering(V)' /\ Rewriting' /\ Covered(T)'
  BY <1>1 DEF Holds, Gathering, Rewriting, Covered, Replaced, Quiet
<1>5. Standing' = Standing /\ Outside' = Outside /\ MovedOnes' = MovedOnes
  BY <1>1 DEF Standing, Roots, Outside, MovedOnes, Quiet
<1>6. Sound(heap, T, Standing, Outside, MovedOnes)
  BY DEF Holds
<1>7. Moved(T, V, heap, Standing, Outside)
  BY <1>1, <1>2, <1>3, <1>4, <1>5, <1>6 DEF Moved, Quiet
<1>8. Holds(T, V)'
  BY <1>7, MovedHolds
<1> QED
  BY <1>8 DEF IInv

-----------------------------------------------------------------------------
(* The visitor.                                                            *)

HeadTaken(s, x, r) ==
  /\ x \in Nat /\ r \in Seq(Nat) /\ Entries(s) = Entries(r) \cup {x}
  /\ Distinct(s) => Distinct(r) /\ (x \in Entries(r) => x = NULL)
\* The first entry of a sequence, and the others.
LEMMA TakingHead ==
  ASSUME NEW s \in Seq(Nat), s # <<>>
  PROVE  HeadTaken(s, Head(s), Tail(s))
<1>1. PICK L \in Nat : L = Len(s) /\ DOMAIN s = 1 .. L
  OBVIOUS
<1>2. L # 0
  BY <1>1, EmptySeq
<1>3. PICK k \in Nat : L = k + 1
  BY <1>2
<1>4. PICK r : r = Tail(s)
  OBVIOUS
<1>5. r \in Seq(Nat) /\ Len(r) = k /\ DOMAIN r = 1 .. k /\ \A i \in 1 .. k : r[i] = s[i + 1]
  <2>1. /\ r \in Seq(Nat) /\ Len(r) = Len(s) - 1
        /\ \A i \in 1 .. Len(r) : r[i] = s[i + 1]
    BY <1>4, HeadTailProperties
  <2>2. Len(r) = k
    BY <1>1, <1>3, <2>1
  <2>3. DOMAIN r = 1 .. Len(r)
    BY <2>1
  <2>4. DOMAIN r = 1 .. k
    BY <2>2, <2>3
  <2>5. \A i \in 1 .. k : r[i] = s[i + 1]
    BY <2>1, <2>2
  <2> QED
    BY <2>1, <2>2, <2>4, <2>5
<1>6. \A i \in 1 .. k : r[i] = s[i + 1]
  BY <1>5
<1>7. PICK x : x = s[1]
  OBVIOUS
<1>8. x \in Nat /\ 1 \in 1 .. L
  BY <1>1, <1>3, <1>7
<1>9. \A i \in 1 .. k : i + 1 \in 1 .. L /\ i + 1 # 1
  BY <1>3
<1>10. \A i \in 1 .. L : i = 1 \/ \E j \in 1 .. k : i = j + 1
  <2> SUFFICES ASSUME NEW i \in 1 .. L, i # 1 PROVE \E j \in 1 .. k : i = j + 1
    OBVIOUS
  <2>1. i - 1 \in 1 .. k /\ i = (i - 1) + 1
    BY <1>3
  <2> QED
    BY <2>1
<1>11. Entries(s) = Entries(r) \cup {x}
  <2>1. ASSUME NEW i \in 1 .. L
        PROVE  s[i] \in Entries(r) \cup {x}
    <3>1. CASE i = 1
      BY <1>7, <3>1
    <3>2. CASE \E j \in 1 .. k : i = j + 1
      <4>1. PICK j \in 1 .. k : i = j + 1
        BY <3>2
      <4>2. s[i] = r[j]
        BY <1>6, <4>1
      <4> QED
        BY <1>5, <4>2 DEF Entries
    <3> QED
      BY <1>10, <3>1, <3>2
  <2>2. ASSUME NEW j \in 1 .. k
        PROVE  r[j] \in Entries(s)
    BY <1>1, <1>6, <1>9 DEF Entries
  <2>3. x \in Entries(s)
    BY <1>1, <1>7, <1>8 DEF Entries
  <2>4. Entries(s) = {s[i] : i \in 1 .. L} /\ Entries(r) = {r[j] : j \in 1 .. k}
    BY <1>1, <1>5 DEF Entries
  <2>5. Entries(s) \subseteq Entries(r) \cup {x}
    BY <2>1, <2>4
  <2>6. Entries(r) \subseteq Entries(s)
    BY <2>2, <2>4
  <2> QED
    BY <2>3, <2>5, <2>6
<1>12. Distinct(s) => Distinct(r) /\ (x \in Entries(r) => x = NULL)
  <2> SUFFICES ASSUME Distinct(s) PROVE Distinct(r) /\ (x \in Entries(r) => x = NULL)
    OBVIOUS
  <2>1. \A i, j \in 1 .. k : r[i] = r[j] => i = j \/ r[i] = NULL
    <3> SUFFICES ASSUME NEW i \in 1 .. k, NEW j \in 1 .. k, r[i] = r[j], r[i] # NULL PROVE i = j
      OBVIOUS
    <3>1. s[i + 1] = s[j + 1] /\ s[i + 1] # NULL
      BY <1>6
    <3>2. i + 1 = j + 1
      BY <1>1, <1>9, <3>1 DEF Distinct
    <3> QED
      BY <3>2
  <2>2. x \in Entries(r) => x = NULL
    <3> SUFFICES ASSUME x \in Entries(r), x # NULL PROVE FALSE
      OBVIOUS
    <3>1. PICK i \in 1 .. k : x = r[i]
      BY <1>5 DEF Entries
    <3>2. s[i + 1] = s[1] /\ s[1] # NULL
      BY <1>6, <1>7, <3>1
    <3>3. i + 1 = 1
      BY <1>1, <1>8, <1>9, <3>2 DEF Distinct
    <3> QED
      BY <1>9, <3>3
  <2> QED
    BY <1>5, <2>1, <2>2 DEF Distinct
<1>13. HeadTaken(s, x, r)
  BY <1>5, <1>8, <1>11, <1>12 DEF HeadTaken
<1> QED
  BY <1>4, <1>7, <1>13

Joined(s, t, u) ==
  /\ u \in Seq(Nat) /\ Entries(u) = Entries(s) \cup Entries(t)
  /\ Distinct(s) /\ Distinct(t) /\ Entries(s) \cap Entries(t) \subseteq {NULL} => Distinct(u)
\* The entries of two sequences.
LEMMA Joining ==
  ASSUME NEW s \in Seq(Nat), NEW t \in Seq(Nat)
  PROVE  Joined(s, t, s \o t)
<1>1. PICK K \in Nat, L \in Nat : K = Len(s) /\ DOMAIN s = 1 .. K /\ L = Len(t) /\ DOMAIN t = 1 .. L
  OBVIOUS
<1>2. PICK u : u = s \o t
  OBVIOUS
<1>3. /\ u \in Seq(Nat) /\ Len(u) = K + L
      /\ \A i \in 1 .. (K + L) : u[i] = IF i <= K THEN s[i] ELSE t[i - K]
  BY <1>1, <1>2, ConcatProperties
<1>4. DOMAIN u = 1 .. (K + L)
  BY <1>3
<1>5. \A i \in 1 .. K : i \in 1 .. (K + L) /\ u[i] = s[i]
  BY <1>3
<1>6. \A i \in 1 .. L : i + K \in 1 .. (K + L) /\ u[i + K] = t[i]
  <2> SUFFICES ASSUME NEW i \in 1 .. L PROVE i + K \in 1 .. (K + L) /\ u[i + K] = t[i]
    OBVIOUS
  <2>1. i + K \in 1 .. (K + L) /\ ~(i + K <= K) /\ (i + K) - K = i
    OBVIOUS
  <2> QED
    BY <1>3, <2>1
<1>7. ASSUME NEW i \in 1 .. (K + L)
      PROVE  i \in 1 .. K \/ \E j \in 1 .. L : i = j + K
  <2>1. CASE i <= K
    BY <2>1
  <2>2. CASE ~(i <= K)
    <3>1. i - K \in 1 .. L /\ i = (i - K) + K
      BY <2>2
    <3> QED
      BY <3>1
  <2> QED
    BY <2>1, <2>2
<1>8. Entries(u) = Entries(s) \cup Entries(t)
  <2>1. /\ Entries(u) = {u[i] : i \in 1 .. (K + L)} /\ Entries(s) = {s[i] : i \in 1 .. K}
        /\ Entries(t) = {t[i] : i \in 1 .. L}
    BY <1>1, <1>4 DEF Entries
  <2>2. ASSUME NEW i \in 1 .. (K + L)
        PROVE  u[i] \in Entries(s) \cup Entries(t)
    <3>1. CASE i \in 1 .. K
      BY <1>5, <2>1, <3>1
    <3>2. CASE \E j \in 1 .. L : i = j + K
      <4>1. PICK j \in 1 .. L : i = j + K
        BY <3>2
      <4>2. u[i] = t[j]
        BY <1>6, <4>1
      <4> QED
        BY <2>1, <4>2
    <3> QED
      BY <1>7, <3>1, <3>2
  <2>3. ASSUME NEW i \in 1 .. K
        PROVE  s[i] \in Entries(u)
    BY <1>5, <2>1
  <2>4. ASSUME NEW i \in 1 .. L
        PROVE  t[i] \in Entries(u)
    BY <1>6, <2>1
  <2>5. Entries(u) \subseteq Entries(s) \cup Entries(t)
    BY <2>1, <2>2
  <2>6. Entries(s) \subseteq Entries(u) /\ Entries(t) \subseteq Entries(u)
    BY <2>1, <2>3, <2>4
  <2> QED
    BY <2>5, <2>6
<1>9. ASSUME Distinct(s), Distinct(t), Entries(s) \cap Entries(t) \subseteq {NULL},
             NEW i \in 1 .. (K + L), NEW j \in 1 .. (K + L), u[i] = u[j], u[i] # NULL
      PROVE  i = j
  <2>1. CASE i \in 1 .. K /\ j \in 1 .. K
    BY <1>1, <1>5, <1>9, <2>1 DEF Distinct
  <2>2. CASE i \in 1 .. K /\ \E b \in 1 .. L : j = b + K
    <3>1. PICK b \in 1 .. L : j = b + K
      BY <2>2
    <3>2. u[i] = s[i] /\ u[j] = t[b] /\ s[i] = t[b] /\ s[i] # NULL
      BY <1>5, <1>6, <1>9, <2>2, <3>1
    <3>3. s[i] \in Entries(s) /\ t[b] \in Entries(t)
      BY <1>1, <2>2 DEF Entries
    <3> QED
      BY <1>9, <3>2, <3>3
  <2>3. CASE j \in 1 .. K /\ \E b \in 1 .. L : i = b + K
    <3>1. PICK b \in 1 .. L : i = b + K
      BY <2>3
    <3>2. u[j] = s[j] /\ u[i] = t[b] /\ s[j] = t[b] /\ s[j] # NULL
      BY <1>5, <1>6, <1>9, <2>3, <3>1
    <3>3. s[j] \in Entries(s) /\ t[b] \in Entries(t)
      BY <1>1, <2>3 DEF Entries
    <3> QED
      BY <1>9, <3>2, <3>3
  <2>4. CASE (\E a \in 1 .. L : i = a + K) /\ (\E b \in 1 .. L : j = b + K)
    <3>1. PICK a \in 1 .. L, b \in 1 .. L : i = a + K /\ j = b + K
      BY <2>4
    <3>2. t[a] = t[b] /\ t[a] # NULL
      BY <1>6, <1>9, <3>1
    <3>3. a = b
      BY <1>1, <1>9, <3>2 DEF Distinct
    <3> QED
      BY <3>1, <3>3
  <2> QED
    BY <1>7, <2>1, <2>2, <2>3, <2>4
<1>10. Distinct(s) /\ Distinct(t) /\ Entries(s) \cap Entries(t) \subseteq {NULL} => Distinct(u)
  BY <1>4, <1>9 DEF Distinct
<1>11. Joined(s, t, u)
  BY <1>3, <1>8, <1>10 DEF Joined
<1> QED
  BY <1>2, <1>11

\* What there is to visit after a node, and what has been visited.
Visited(V, n, todo2) ==
  /\ todo2 \in Seq(Nat) /\ Distinct(todo2) /\ Entries(todo2) \subseteq Live(heap) \cup {NULL}
  /\ V \cup {n} \subseteq Live(heap) /\ (V \cup {n}) \cap Entries(todo2) = {}
  /\ \A m \in ((V \cup {n}) \cup Entries(todo2)) \ {NULL} :
       m = ast \/ \E o \in V \cup {n} : m \in Children(heap, o)
  /\ n \notin V /\ n \in Live(heap)
\* A node's children have not been visited before and are not waiting yet: each has
\* one owner.
LEMMA Visiting ==
  ASSUME NEW T, NEW V, Holds(T, V), phase = "gather", todo # <<>>,
         NEW n, n = Head(todo), n # NULL
  PROVE  Visited(V, n, heap[n].kids \o Tail(todo))
<1>1. Facts(T) /\ Typed /\ Stages /\ Gathering(V) /\ Covered(T)
      /\ Sound(heap, T, Standing, Outside, MovedOnes)
  BY FactsAre DEF Holds
<1>2. MovedOnes = {} /\ ast # NULL
  BY <1>1 DEF MovedOnes, Stages
<1>3. /\ Graph(heap, Standing, Outside) /\ Forest(heap, T, Standing, {})
      /\ Live(heap) = T /\ Whole(heap) /\ IsHeap(heap)
  BY <1>1, <1>2 DEF Sound, Covered, Graph
<1>4. PICK r : r = Tail(todo)
  OBVIOUS
<1>5. todo \in Seq(Nat) /\ HeadTaken(todo, n, r)
  BY <1>1, <1>4, TakingHead DEF Typed
<1>6. /\ Distinct(todo) /\ Entries(todo) \subseteq Live(heap) \cup {NULL}
      /\ V \subseteq Live(heap) /\ V \cap Entries(todo) = {}
      /\ \A m \in (V \cup Entries(todo)) \ {NULL} : m = ast \/ \E o \in V : m \in Children(heap, o)
  BY <1>1 DEF Gathering
<1>7. /\ n \in Nat /\ r \in Seq(Nat) /\ Entries(todo) = Entries(r) \cup {n}
      /\ Distinct(r) /\ n \notin Entries(r)
  BY <1>5, <1>6 DEF HeadTaken
<1>8. n \in Live(heap) /\ n \notin V /\ n \in Nodes(heap)
  BY <1>1, <1>6, <1>7 DEF Facts
<1>9. PICK k \in Seq(Nat) : k = heap[n].kids
  BY <1>3, <1>8, HeapFacts
<1>10. Distinct(k) /\ Children(heap, n) = Entries(k) \ {NULL} /\ Children(heap, n) \subseteq Live(heap)
  BY <1>3, <1>8, <1>9 DEF Whole, Children, Slots, Entries
<1>11. ASSUME NEW m \in Children(heap, n), m \in V \cup Entries(todo) PROVE FALSE
  <2>1. m # NULL
    BY <1>10
  <2>2. CASE m = ast
    <3>1. ast \in Standing
      BY <1>1, <1>2 DEF Facts
    <3> QED
      BY <1>3, <1>8, <1>11, <2>2, <3>1, RootHasNoOwner
  <2>3. CASE \E o \in V : m \in Children(heap, o)
    <3>1. PICK o \in V : m \in Children(heap, o)
      BY <2>3
    <3>2. heap[m].parent = o /\ heap[m].parent = n
      BY <1>3, <1>6, <1>8, <1>11, <3>1 DEF Forest
    <3> QED
      BY <1>8, <3>1, <3>2
  <2> QED
    BY <1>6, <1>11, <2>1, <2>2, <2>3
<1>12. PICK t : t = k \o r
  OBVIOUS
<1>13. Joined(k, r, t)
  BY <1>7, <1>12, Joining
<1>14. Entries(k) \cap Entries(r) \subseteq {NULL}
  BY <1>7, <1>10, <1>11
<1>15. t \in Seq(Nat) /\ Distinct(t) /\ Entries(t) = Entries(k) \cup Entries(r)
  BY <1>7, <1>10, <1>13, <1>14 DEF Joined
<1>16. Entries(t) \subseteq Live(heap) \cup {NULL}
  BY <1>6, <1>7, <1>10, <1>15
<1>17. (V \cup {n}) \cap Entries(t) = {}
  <2>1. NULL \notin V \cup {n}
    BY <1>1, <1>6, <1>8 DEF Facts
  <2>2. (V \cup {n}) \cap Entries(k) = {}
    BY <1>7, <1>10, <1>11, <2>1
  <2>3. (V \cup {n}) \cap Entries(r) = {}
    BY <1>6, <1>7
  <2> QED
    BY <1>15, <2>2, <2>3
<1>18. ASSUME NEW m \in ((V \cup {n}) \cup Entries(t)) \ {NULL}
       PROVE  m = ast \/ \E o \in V \cup {n} : m \in Children(heap, o)
  <2>1. CASE m \in V \cup Entries(todo)
    BY <1>6, <2>1
  <2>2. CASE m \in Entries(k)
    BY <1>10, <2>2
  <2> QED
    BY <1>7, <1>15, <2>1, <2>2
<1>19. Visited(V, n, t)
  BY <1>6, <1>8, <1>15, <1>16, <1>17, <1>18 DEF Visited
<1> QED
  BY <1>4, <1>9, <1>12, <1>19

\* A child that is null keeps the invariant,
LEMMA NullPassedOver ==
  ASSUME NEW T, NEW V, Holds(T, V), VisitNode, Head(todo) = NULL
  PROVE  IInv'
<1>1. phase = "gather" /\ todo # <<>> /\ later = <<>> /\ phase' = phase /\ next' = next
  BY DEF VisitNode, In
<1>2. Typed /\ Stages /\ Gathering(V) /\ Covered(T)
  BY DEF Holds
<1>3. PICK r : r = Tail(todo)
  OBVIOUS
<1>4. HeadTaken(todo, NULL, r)
  BY <1>1, <1>2, <1>3, TakingHead DEF Typed
<1>5. r \in Seq(Nat) /\ Entries(todo) = Entries(r) \cup {NULL} /\ (Distinct(todo) => Distinct(r))
  BY <1>4 DEF HeadTaken
<1>6. todo' = r
  <2>1. todo' = <<>> \o r
    BY <1>3 DEF VisitNode
  <2>2. <<>> \o r = r
    BY <1>5, ConcatEmptySeq
  <2> QED
    BY <2>1, <2>2
<1>7. gathered' = gathered /\ heap' = heap
  BY DEF VisitNode
<1>8. Quiet
  BY <1>7 DEF VisitNode, parser, Quiet
<1>9. Gathering(V)'
  BY <1>1, <1>2, <1>5, <1>6, <1>8 DEF Gathering, Quiet
<1>10. Rewriting' /\ Covered(T)'
  BY <1>1, <1>2, <1>8 DEF Rewriting, Covered, Quiet
<1>11. ast # NULL /\ todo' \in Seq(Nat) /\ next' \in Nat \ {0}
  BY <1>1, <1>2, <1>5, <1>6 DEF Typed, Stages
<1> QED
  BY <1>1, <1>8, <1>9, <1>10, <1>11, QuietKeeps

\* a node that is no such operator keeps it,
LEMMA OtherPassedBy ==
  ASSUME NEW T, NEW V, Holds(T, V), VisitNode,
         NEW n, n = Head(todo), n # NULL, ~IsBitwiseNot(heap, n)
  PROVE  IInv'
<1>1. phase = "gather" /\ todo # <<>> /\ later = <<>> /\ phase' = phase /\ next' = next
  BY DEF VisitNode, In
<1>2. Typed /\ Stages /\ Gathering(V) /\ Covered(T)
  BY DEF Holds
<1>3. PICK t : t = heap[n].kids \o Tail(todo)
  OBVIOUS
<1>4. Visited(V, n, t)
  BY <1>1, <1>3, Visiting
<1>5. todo' = t /\ gathered' = gathered /\ heap' = heap
  BY <1>3 DEF VisitNode
<1>6. Quiet
  BY <1>5 DEF VisitNode, parser, Quiet
<1>7. Gathering(V \cup {n})'
  BY <1>1, <1>2, <1>4, <1>5, <1>6 DEF Gathering, Visited, Quiet
<1>8. Rewriting' /\ Covered(T)'
  BY <1>1, <1>2, <1>6 DEF Rewriting, Covered, Quiet
<1>9. ast # NULL /\ todo' \in Seq(Nat) /\ next' \in Nat \ {0}
  BY <1>1, <1>2, <1>4, <1>5 DEF Typed, Stages, Visited
<1> QED
  BY <1>1, <1>6, <1>7, <1>8, <1>9, QuietKeeps

\* an operator that is gathered keeps it,
LEMMA OperatorGathered ==
  ASSUME NEW T, NEW V, Holds(T, V), VisitNode,
         NEW n, n = Head(todo), n # NULL, IsBitwiseNot(heap, n)
  PROVE  IInv'
<1>1. phase = "gather" /\ todo # <<>> /\ later = <<>> /\ phase' = phase /\ next' = next
  BY DEF VisitNode, In
<1>2. Facts(T) /\ Typed /\ Stages /\ StackIsRaw /\ Gathering(V) /\ Covered(T)
      /\ Sound(heap, T, Standing, Outside, MovedOnes)
  BY FactsAre DEF Holds
<1>3. PICK t : t = heap[n].kids \o Tail(todo)
  OBVIOUS
<1>4. Visited(V, n, t)
  BY <1>1, <1>3, Visiting
<1>5. n \in Live(heap) /\ n \in Nat /\ n \in Nodes(heap)
  <2>1. n \in Live(heap) /\ n \in Nodes(heap)
    BY <1>2, <1>4 DEF Visited, Facts
  <2> QED
    BY <1>2, <2>1, HeapFacts DEF Facts
<1>6. PICK g : g = AddRef(heap, n)
  OBVIOUS
<1>7. PICK more : more = Append(gathered, n)
  OBVIOUS
<1>8. /\ todo' = t /\ gathered' = more /\ heap' = g /\ later' = later /\ input' = input
      /\ ast' = ast /\ fault' = fault /\ f' = f /\ stack' = stack /\ program' = program
      /\ block' = block /\ moved' = moved
  BY <1>3, <1>6, <1>7 DEF VisitNode, Held, parser
<1>9. MovedOnes = {} /\ MovedOnes' = {}
  BY <1>1 DEF MovedOnes
<1>10. Referenced(heap, g, n, T, Standing, Outside, {})
  BY <1>2, <1>5, <1>6, <1>9, Referencing
<1>11. /\ Sound(g, T, Standing, Plus(Outside, n), {}) /\ SameShape(heap, g)
       /\ \A m \in Nodes(heap) : g[m].class = heap[m].class /\ g[m].tag = heap[m].tag
  BY <1>10 DEF Referenced
<1>12. /\ Live(g) = Live(heap) /\ Nodes(g) = Nodes(heap)
       /\ \A m \in Nodes(heap) : Children(g, m) = Children(heap, m)
  BY <1>2, <1>11, ShapeKept DEF Facts
<1>13. /\ gathered \in Seq(Nat) /\ Entries(gathered) \subseteq V /\ Distinct(gathered)
       /\ \A m \in Entries(gathered) : IsBitwiseNot(heap, m)
  BY <1>1, <1>2 DEF Typed, Gathering
<1>14. more \in Seq(Nat) /\ Entries(more) = Entries(gathered) \cup {n} /\ Distinct(more)
  <2>1. Joined(gathered, <<n>>, gathered \o <<n>>)
    <3>1. <<n>> \in Seq(Nat)
      BY <1>5
    <3> QED
      BY <1>13, <3>1, Joining
  <2>2. more = gathered \o <<n>>
    BY <1>5, <1>7, <1>13
  <2>3. Entries(<<n>>) = {n} /\ Distinct(<<n>>)
    BY DEF Entries, Distinct
  <2>4. n \notin Entries(gathered)
    BY <1>4, <1>13 DEF Visited
  <2> QED
    BY <1>13, <2>1, <2>2, <2>3, <2>4 DEF Joined
<1>15. Typed'
  BY <1>2, <1>4, <1>8, <1>14, <1>1 DEF Typed, Visited
<1>16. StackIsRaw'
  BY <1>2, <1>8 DEF StackIsRaw
<1>17. Stages'
  <2>1. \A m \in {program, block, ast} \ {NULL} : g[m].class = "Block"
    <3>1. \A m \in {program, block, ast} \ {NULL} : m \in Nodes(heap) /\ heap[m].class = "Block"
      BY <1>2 DEF Stages, Facts
    <3> QED
      BY <1>11, <3>1
  <2> QED
    BY <1>1, <1>2, <1>8, <2>1 DEF Stages
<1>18. Parsing' /\ Returning' /\ Rewriting'
  BY <1>1 DEF Parsing, Returning, Rewriting
<1>19. Gathering(V \cup {n})'
  <2>1. V \cup {n} \subseteq Nodes(heap)
    BY <1>2, <1>4 DEF Visited, Facts
  <2>2. \A m \in Entries(more) : IsBitwiseNot(g, m)
    BY <1>11, <1>13, <1>14, <2>1 DEF IsBitwiseNot
  <2>3. \A m \in ((V \cup {n}) \cup Entries(t)) \ {NULL} :
          m = ast \/ \E o \in V \cup {n} : m \in Children(g, o)
    BY <1>4, <1>12, <2>1 DEF Visited
  <2>4. next = 1
    BY <1>1, <1>2 DEF Gathering
  <2> QED
    BY <1>1, <1>4, <1>8, <1>12, <1>13, <1>14, <2>2, <2>3, <2>4 DEF Gathering, Visited
<1>20. Covered(T)'
  BY <1>1, <1>2, <1>8, <1>12 DEF Covered
<1>21. Standing' = Standing
  BY <1>8 DEF Standing, Roots
<1>22. CountedBy(Outside', program, block, ast, more, later)
  BY <1>8, <1>15, OutsideThen
<1>23. CountedBy(Outside, program, block, ast, gathered, later) /\ Outside \in Counts
  BY <1>2 DEF Facts
<1>24. \A m \in Nat \ {NULL} : Outside'[m] = Plus(Outside, n)[m]
  <2> SUFFICES ASSUME NEW m \in Nat \ {NULL} PROVE Outside'[m] = Outside[m] + (IF m = n THEN 1 ELSE 0)
    BY <1>5, <1>23, PlusIs
  <2>1. PICK x, y, z, u, w \in Nat : /\ Held5(m, program, block, ast, gathered, later, x, y, z, u, w)
                                     /\ Outside[m] = x + y + z + u + w
    <3>1. Tallied(Outside, m, program, block, ast, gathered, later)
      BY <1>23, Tally
    <3> QED
      BY <3>1 DEF Tallied
  <2>2. PICK x2, y2, z2, u2, w2 \in Nat :
          /\ Held5(m, program, block, ast, more, later, x2, y2, z2, u2, w2)
          /\ Outside'[m] = x2 + y2 + z2 + u2 + w2
    <3>1. Tallied(Outside', m, program, block, ast, more, later)
      BY <1>22, Tally
    <3> QED
      BY <3>1 DEF Tallied
  <2>3. x2 = x /\ y2 = y /\ z2 = z /\ w2 = w
    BY <2>1, <2>2 DEF Held5
  <2>4. PICK v \in Nat : v = IF m = n THEN 1 ELSE 0
    OBVIOUS
  <2>5. u2 = u + v
    <3>1. Occ(more, m) = Occ(gathered, m) + (IF m = n THEN 1 ELSE 0)
      BY <1>5, <1>7, <1>13, OccAppend
    <3> QED
      BY <2>1, <2>2, <2>4, <3>1 DEF Held5
  <2>6. Outside[m] = x + y + z + u + w /\ Outside'[m] = x + y + z + (u + v) + w
    BY <2>1, <2>2, <2>3, <2>5
  <2>7. x + y + z + (u + v) + w = (x + y + z + u + w) + v
    OBVIOUS
  <2> QED
    BY <2>4, <2>6, <2>7
<1>25. Moved(T, V \cup {n}, g, Standing, Plus(Outside, n))
  BY <1>8, <1>9, <1>11, <1>15, <1>16, <1>17, <1>18, <1>19, <1>20, <1>21, <1>24 DEF Moved
<1>26. Holds(T, V \cup {n})'
  BY <1>25, MovedHolds
<1> QED
  BY <1>26 DEF IInv

\* so a visit does.
LEMMA VisitKeeps ==
  ASSUME NEW T, NEW V, Holds(T, V), VisitNode
  PROVE  IInv'
<1>1. PICK n : n = Head(todo)
  OBVIOUS
<1>2. CASE n = NULL
  BY <1>1, <1>2, NullPassedOver
<1>3. CASE n # NULL /\ ~IsBitwiseNot(heap, n)
  BY <1>1, <1>3, OtherPassedBy
<1>4. CASE n # NULL /\ IsBitwiseNot(heap, n)
  BY <1>1, <1>4, OperatorGathered
<1> QED
  BY <1>2, <1>3, <1>4

-----------------------------------------------------------------------------
(* The rewriting.                                                          *)

\* The gatherer keeps what it has found alive.
LEMMA GatheredAreAlive ==
  ASSUME NEW T, NEW V, Holds(T, V)
  PROVE  \A n \in Entries(gathered) : n = NULL \/ n \in Live(heap)
<1>1. Facts(T) /\ Typed /\ Graph(heap, Standing, Outside)
  BY FactsAre DEF Holds, Sound
<1>2. SUFFICES ASSUME NEW n \in Entries(gathered), n # NULL PROVE n \in Live(heap)
  OBVIOUS
<1>3. gathered \in Seq(Nat) /\ n \in Nat
  BY <1>1, <1>2, EntriesOf DEF Typed
<1>4. PICK x, y, z, u, w \in Nat : /\ Held5(n, program, block, ast, gathered, later, x, y, z, u, w)
                                   /\ Outside[n] = x + y + z + u + w
  <2>1. Tallied(Outside, n, program, block, ast, gathered, later)
    BY <1>1, <1>3, Tally DEF Facts
  <2> QED
    BY <2>1 DEF Tallied
<1>5. u # 0
  BY <1>2, <1>3, <1>4, OccNone DEF Held5
<1>6. Outside[n] # 0
  BY <1>4, <1>5
<1> QED
  BY <1>1, <1>2, <1>3, <1>6 DEF Graph

\* The operator that is replaced next.
ToSwap(op, p) ==
  /\ op \in Live(heap) /\ op # NULL /\ op \in Nat /\ op \in Nodes(heap)
  /\ op \in Entries(gathered) /\ IsBitwiseNot(heap, op) /\ heap[op].class = "BinaryOp"
  /\ p \in Live(heap) /\ op \in Children(heap, p) /\ heap[op].parent = p /\ p \in Nodes(heap)
  /\ op \notin Replaced
  /\ next \in DOMAIN gathered /\ next \in Nat /\ gathered[next] = op
\* The operator that is next is alive and a child of its parent, whatever has been
\* replaced before.
LEMMA NextToSwap ==
  ASSUME NEW T, NEW V, Holds(T, V), phase = "rewrite", next <= Len(gathered),
         NEW op, op = gathered[next], NEW p, p = heap[op].parent
  PROVE  ToSwap(op, p)
<1>1. Facts(T) /\ Typed /\ Rewriting
  BY FactsAre DEF Holds
<1>2. gathered \in Seq(Nat) /\ next \in Nat \ {0}
  BY <1>1 DEF Typed
<1>3. next \in DOMAIN gathered
  <2>1. PICK L \in Nat : L = Len(gathered) /\ DOMAIN gathered = 1 .. L
    BY <1>2
  <2> QED
    BY <1>2, <2>1
<1>4. op \in Entries(gathered)
  BY <1>3 DEF Entries
<1>5. /\ Distinct(gathered) /\ NULL \notin Entries(gathered) /\ IsBitwiseNot(heap, op)
      /\ p \in Live(heap) /\ op \in Children(heap, p)
  BY <1>1, <1>2, <1>3, <1>4 DEF Rewriting
<1>6. op \in Live(heap) /\ op # NULL /\ op \in Nodes(heap) /\ p \in Nodes(heap)
  BY <1>1, <1>4, <1>5, GatheredAreAlive DEF Facts
<1>7. op \in Nat
  BY <1>1, <1>6, HeapFacts DEF Facts
<1>8. op \notin Replaced
  <2> SUFFICES ASSUME NEW j \in DOMAIN gathered, j < next, gathered[j] = op PROVE FALSE
    BY DEF Replaced
  <2>1. j = next
    BY <1>3, <1>5, <1>6 DEF Distinct
  <2> QED
    BY <1>2, <2>1
<1> QED
  BY <1>2, <1>3, <1>4, <1>5, <1>6, <1>7, <1>8 DEF ToSwap, IsBitwiseNot

\* The heap after the swap.
AfterSwap(g, T2, c, p, op, u, kid) ==
  /\ Swapped(heap, g, p, op, u, kid) /\ Sound(g, T2, Standing, c, {}) /\ AllFit(g, Live(g))
  /\ c = WithDropped(Outside, <<op>>)
  /\ op \notin T2 /\ FaultOf(op, p) = "none"
  /\ kid \in Children(heap, op) /\ kid # op /\ kid = heap[op].kids[1]
  /\ SwappedKids(heap, g, p, op, u, kid) /\ u = Len(Complement(op))
Swapping(T, g, op, p) ==
  \E T2, c, u, kid : AfterSwap(g, T2, c, p, op, u, kid) /\ T2 \subseteq T \cup {u}
\* Replacing it, in the tree of ast_ or in an operand that was discarded.
LEMMA SwappingIs ==
  ASSUME NEW T, NEW V, Holds(T, V), phase = "rewrite", NEW op, NEW p, ToSwap(op, p),
         NEW g, g = SwapChild(Complement(op), p, op, Len(Complement(op)))
  PROVE  Swapping(T, g, op, p)
<1>1. Facts(T) /\ Typed /\ Rewriting /\ Sound(heap, T, Standing, Outside, MovedOnes)
  BY FactsAre DEF Holds
<1>2. MovedOnes = {}
  BY DEF MovedOnes
<1>3. /\ Graph(heap, Standing, Outside) /\ Forest(heap, T, Standing, {}) /\ AllFit(heap, Live(heap))
      /\ IsHeap(heap) /\ Whole(heap) /\ Acyclic(heap)
  BY <1>1, <1>2 DEF Sound, Rewriting, Graph
<1>4. PICK kid, disc : kid = heap[op].kids[1] /\ disc = heap[op].kids[2]
  OBVIOUS
<1>5. /\ disc # NULL /\ kid # op /\ kid # disc /\ Children(heap, op) = {kid, disc}
  <2>1. op \in Live(heap) /\ heap[op].class = "BinaryOp" /\ Fits(heap, op)
    BY <1>3 DEF ToSwap, AllFit
  <2> QED
    BY <1>3, <1>4, <2>1, Operands
<1>6. PICK h1 : h1 = Construct(heap, "UnaryOp", "not", <<kid>>)
  OBVIOUS
<1>7. PICK u : u = Len(h1)
  OBVIOUS
<1>8. g = SwapChild(h1, p, op, u)
  BY <1>4, <1>6, <1>7 DEF Complement
<1>9. PICK c : c = WithDropped(Outside, <<op>>)
  OBVIOUS
<1>10. /\ c \in Counts /\ \A m \in Nat : c[m] = Outside[m] + Occ(<<op>>, m)
  <2>1. <<op>> \in Seq(Nat) /\ Outside \in Counts
    BY <1>1 DEF ToSwap, Facts
  <2> QED
    BY <1>9, <2>1, WithDroppedIs
<1>11. \A m \in Nat \ {NULL} : c[m] = Outside[m] + (IF m \in {op} THEN 1 ELSE 0)
  <2>1. \A m \in Nat : Occ(<<op>>, m) = IF m \in {op} THEN 1 ELSE 0
    BY OccSingle
  <2> QED
    BY <1>10, <2>1
<1>12. /\ Swapped(heap, g, p, op, u, kid) /\ Graph(g, Standing, c) /\ AllFit(g, Live(g))
       /\ Swappable(heap, p, op) # {} /\ SwappedKids(heap, g, p, op, u, kid)
  <2>1. op \in Live(heap) /\ heap[op].class = "BinaryOp" /\ p \in Live(heap) /\ op \in Children(heap, p)
    BY DEF ToSwap
  <2>2. c \in Counts
    BY <1>10
  <2>3. Graph(heap, Standing, Outside) /\ AllFit(heap, Live(heap))
    BY <1>3
  <2> QED
    BY <1>4, <1>6, <1>7, <1>8, <1>11, <2>1, <2>2, <2>3, OperatorSwapped
<1>13. FaultOf(op, p) = "none"
  BY <1>1, <1>12 DEF FaultOf, ToSwap, Live
<1>14. \E T2 : Forest(g, T2, Standing, {}) /\ op \notin T2 /\ T2 \subseteq T \cup {u}
  <2>1. CASE op \in T
    <3>1. PICK T2 : T2 = (T \ ({op} \cup Below(heap, disc))) \cup {u}
      OBVIOUS
    <3>2. Forest(g, T2, Standing, {})
      BY <1>3, <1>5, <1>12, <2>1, <3>1, SwapInTree DEF ToSwap
    <3>3. op # u
      BY <1>12 DEF Swapped, ToSwap
    <3> QED
      BY <3>1, <3>2, <3>3
  <2>2. CASE op \notin T
    <3>1. kid \in Children(heap, op) /\ heap[kid].parent = op
      BY <1>1, <1>5 DEF Rewriting, ToSwap
    <3>2. Forest(g, T, Standing, {})
      BY <1>3, <1>12, <2>2, <3>1, SwapBeside DEF ToSwap
    <3> QED
      BY <2>2, <3>2
  <2> QED
    BY <2>1, <2>2
<1>15. PICK T2 : Forest(g, T2, Standing, {}) /\ op \notin T2 /\ T2 \subseteq T \cup {u}
  BY <1>14
<1>16. Sound(g, T2, Standing, c, {})
  BY <1>12, <1>15 DEF Sound, Forest, AllFit
<1>17. kid \in Children(heap, op)
  BY <1>5
<1>18. AfterSwap(g, T2, c, p, op, u, kid)
  <2>1. u = Len(Complement(op))
    BY <1>4, <1>6, <1>7 DEF Complement
  <2> QED
    BY <1>4, <1>5, <1>9, <1>12, <1>13, <1>15, <1>16, <1>17, <2>1 DEF AfterSwap
<1> QED
  BY <1>15, <1>18 DEF Swapping

\* Who is parent of whom after the swap.
ParentsAfter(g, R2) ==
  /\ \A o \in Live(g) \ R2 : \A m \in Children(g, o) : g[m].parent = o
  /\ \A k \in DOMAIN gathered : k >= next + 1 =>
       /\ g[gathered[k]].parent \in Live(g)
       /\ gathered[k] \in Children(g, g[gathered[k]].parent)
\* Every node that was not replaced is still the parent of its children.
LEMMA ParentsAre ==
  ASSUME NEW T, NEW V, Holds(T, V), phase = "rewrite", NEW op, NEW p, ToSwap(op, p),
         NEW g, NEW u, NEW kid, Swapped(heap, g, p, op, u, kid),
         kid \in Children(heap, op), kid # op
  PROVE  ParentsAfter(g, Replaced \cup {op})
<1>1. Facts(T) /\ Typed /\ Rewriting
  BY FactsAre DEF Holds
<1>2. /\ \A o \in Live(heap) \ Replaced : \A m \in Children(heap, o) : heap[m].parent = o
      /\ \A k \in DOMAIN gathered : k >= next =>
           /\ heap[gathered[k]].parent \in Live(heap)
           /\ gathered[k] \in Children(heap, heap[gathered[k]].parent)
      /\ Distinct(gathered) /\ NULL \notin Entries(gathered)
  BY <1>1 DEF Rewriting
<1>3. /\ u \notin Nodes(heap) /\ Live(g) = Live(heap) \cup {u}
      /\ \A n \in Nodes(heap) :
           /\ g[n].parent = IF n = kid THEN u ELSE heap[n].parent
           /\ n # p => Children(g, n) = Children(heap, n)
      /\ Children(g, p) = (Children(heap, p) \ {op}) \cup {u}
      /\ Children(g, u) = {kid} /\ g[u].parent = p
  BY DEF Swapped
<1>4. op \in Live(heap) \ Replaced /\ heap[kid].parent = op /\ p \in Live(heap)
  BY <1>2 DEF ToSwap
<1>5. \A o \in Live(heap) : o \in Nodes(heap) /\ Children(heap, o) \subseteq Nodes(heap)
  BY <1>1 DEF Facts, Whole
<1>6. ASSUME NEW o \in Live(g) \ (Replaced \cup {op}), NEW m \in Children(g, o)
      PROVE  g[m].parent = o
  <2>1. CASE o = u
    <3>1. m = kid /\ kid \in Nodes(heap)
      BY <1>3, <1>4, <1>5, <1>6, <2>1
    <3> QED
      BY <1>3, <2>1, <3>1
  <2>2. CASE o # u
    <3>1. o \in Live(heap) \ Replaced /\ o # op
      BY <1>3, <1>6, <2>2
    <3>2. CASE m = u
      <4>1. m \notin Children(heap, o)
        BY <1>3, <1>5, <3>1, <3>2
      <4>2. o = p
        BY <1>3, <1>5, <1>6, <3>1, <4>1
      <4> QED
        BY <1>3, <3>2, <4>2
    <3>3. CASE m # u
      <4>1. m \in Children(heap, o)
        BY <1>3, <1>5, <1>6, <3>1, <3>3
      <4>2. heap[m].parent = o /\ m \in Nodes(heap)
        BY <1>2, <1>5, <3>1, <4>1
      <4>3. m # kid
        BY <1>4, <3>1, <4>2
      <4> QED
        BY <1>3, <4>2, <4>3
    <3> QED
      BY <3>2, <3>3
  <2> QED
    BY <2>1, <2>2
<1>7. ASSUME NEW k \in DOMAIN gathered, k >= next + 1, NEW q, q = gathered[k]
      PROVE  g[q].parent \in Live(g) /\ q \in Children(g, g[q].parent)
  <2>1. next \in Nat /\ next \in DOMAIN gathered /\ gathered[next] = op
    BY DEF ToSwap
  <2>2. k \in Nat
    <3>1. gathered \in Seq(Nat)
      BY <1>1 DEF Typed
    <3>2. DOMAIN gathered = 1 .. Len(gathered)
      BY <3>1
    <3> QED
      BY <3>2
  <2>3. k >= next /\ k # next
    BY <1>7, <2>1, <2>2
  <2>4. q # op /\ q # NULL
    <3>1. q \in Entries(gathered)
      BY <1>7 DEF Entries
    <3>2. q # NULL
      BY <1>2, <3>1
    <3> QED
      BY <1>2, <1>7, <2>1, <2>3, <3>2 DEF Distinct
  <2>5. heap[q].parent \in Live(heap) /\ q \in Children(heap, heap[q].parent)
    BY <1>2, <1>7, <2>3
  <2>6. q \in Nodes(heap)
    BY <1>5, <2>5
  <2>7. CASE q = kid
    BY <1>3, <2>6, <2>7
  <2>8. CASE q # kid
    <3>1. g[q].parent = heap[q].parent
      BY <1>3, <2>6, <2>8
    <3>2. PICK w \in Live(heap) : w = heap[q].parent
      BY <2>5
    <3>3. q \in Children(g, w)
      BY <1>3, <1>5, <2>4, <2>5, <3>2
    <3> QED
      BY <1>3, <3>1, <3>2, <3>3
  <2> QED
    BY <2>7, <2>8
<1> QED
  BY <1>6, <1>7 DEF ParentsAfter

\* A swap keeps the invariant.
LEMMA SwapKeeps ==
  ASSUME NEW T, NEW V, Holds(T, V), SwapOperator
  PROVE  IInv'
<1>1. phase = "rewrite" /\ later = <<>> /\ next <= Len(gathered)
  BY DEF SwapOperator, AtOperator, In
<1>2. Facts(T) /\ Typed /\ Stages /\ Rewriting /\ Covered(T)
  BY FactsAre DEF Holds
<1>3. PICK op : op = gathered[next]
  OBVIOUS
<1>4. PICK p : p = heap[op].parent
  OBVIOUS
<1>5. ToSwap(op, p)
  BY <1>1, <1>3, <1>4, NextToSwap
<1>6. PICK g : g = SwapChild(Complement(op), p, op, Len(Complement(op)))
  OBVIOUS
<1>7. Swapping(T, g, op, p)
  BY <1>1, <1>5, <1>6, SwappingIs
<1>8. PICK T2, c, u, kid : AfterSwap(g, T2, c, p, op, u, kid) /\ T2 \subseteq T \cup {u}
  BY <1>7 DEF Swapping
<1>9. /\ Swapped(heap, g, p, op, u, kid) /\ Sound(g, T2, Standing, c, {}) /\ AllFit(g, Live(g))
      /\ c = WithDropped(Outside, <<op>>) /\ op \notin T2 /\ FaultOf(op, p) = "none"
      /\ kid \in Children(heap, op) /\ kid # op
  BY <1>8 DEF AfterSwap
<1>10. /\ heap' = g /\ phase' = phase /\ fault' = "none" /\ later' = <<op>> /\ next' = next + 1
       /\ input' = input /\ ast' = ast /\ f' = f /\ stack' = stack /\ program' = program
       /\ block' = block /\ moved' = moved /\ gathered' = gathered /\ todo' = todo
  BY <1>3, <1>4, <1>6, <1>9 DEF SwapOperator, ParentNow, parser
<1>11. /\ u \notin Nodes(heap) /\ Live(g) = Live(heap) \cup {u}
       /\ \A n \in Nodes(heap) : g[n].class = heap[n].class /\ g[n].tag = heap[n].tag
  BY <1>9 DEF Swapped
<1>12. op \in Nat /\ op # NULL /\ op \in Entries(gathered) /\ next \in Nat
  BY <1>5 DEF ToSwap
<1>13. Typed'
  <2>1. <<op>> \in Seq(Nat) /\ next + 1 \in Nat \ {0}
    BY <1>12
  <2> QED
    BY <1>2, <1>10, <2>1 DEF Typed
<1>14. stack = <<>> /\ StackIsRaw'
  <2>1. stack = <<>>
    BY <1>1, <1>2 DEF Stages
  <2> QED
    BY <1>10, <2>1 DEF StackIsRaw, Distinct, Entries
<1>15. Stages'
  <2>1. \A m \in {program, block, ast} \ {NULL} : m \in Nodes(heap) /\ heap[m].class = "Block"
    BY <1>2 DEF Stages, Facts
  <2>2. \A m \in {program, block, ast} \ {NULL} : g[m].class = "Block"
    BY <1>11, <2>1
  <2> QED
    BY <1>1, <1>2, <1>10, <2>2 DEF Stages
<1>16. Parsing' /\ Returning' /\ Gathering(V)' /\ MovedOnes' = {}
  BY <1>1, <1>10 DEF Parsing, Returning, Gathering, MovedOnes
<1>17. Replaced' = Replaced \cup {op}
  <2>1. gathered \in Seq(Nat)
    BY <1>2 DEF Typed
  <2>2. DOMAIN gathered \subseteq Nat
    BY <2>1
  <2>3. {j \in DOMAIN gathered : j < next + 1} = {j \in DOMAIN gathered : j < next} \cup {next}
    BY <1>5, <1>12, <2>2 DEF ToSwap
  <2> QED
    BY <1>3, <1>10, <2>3 DEF Replaced
<1>18. ParentsAfter(g, Replaced \cup {op})
  BY <1>1, <1>5, <1>9, ParentsAre
<1>19. \A n \in Entries(gathered) : n \in Nodes(heap) /\ IsBitwiseNot(g, n)
  <2>1. \A n \in Entries(gathered) : n \in Nodes(heap) /\ IsBitwiseNot(heap, n)
    BY <1>1, <1>2, GatheredAreAlive DEF Rewriting, Facts
  <2> QED
    BY <1>11, <2>1 DEF IsBitwiseNot
<1>20. Rewriting'
  <2>1. Entries(<<op>>) = {op}
    BY DEF Entries
  <2>2. /\ Distinct(gathered) /\ NULL \notin Entries(gathered)
    BY <1>1, <1>2 DEF Rewriting
  <2>3. /\ \A o \in Live(g) \ (Replaced \cup {op}) : \A m \in Children(g, o) : g[m].parent = o
        /\ \A k \in DOMAIN gathered : k >= next + 1 =>
             /\ g[gathered[k]].parent \in Live(g)
             /\ gathered[k] \in Children(g, g[gathered[k]].parent)
    BY <1>18 DEF ParentsAfter
  <2> QED
    BY <1>9, <1>10, <1>12, <1>17, <1>19, <2>1, <2>2, <2>3 DEF Rewriting
<1>21. Covered(T2)'
  <2>1. T \cap Replaced = {}
    BY <1>1, <1>2 DEF Covered
  <2>2. u \notin Replaced
    BY <1>11, <1>19 DEF Replaced, Entries
  <2> QED
    BY <1>1, <1>8, <1>9, <1>10, <1>17, <2>1, <2>2 DEF Covered
<1>22. Standing' = Standing
  BY <1>10 DEF Standing, Roots
<1>23. CountedBy(Outside', program, block, ast, gathered, <<op>>)
  BY <1>10, <1>13, OutsideThen
<1>24. CountedBy(Outside, program, block, ast, gathered, <<>>) /\ Outside \in Counts
  BY <1>1, <1>2 DEF Facts
<1>25. \A m \in Nat \ {NULL} : Outside'[m] = c[m]
  <2> SUFFICES ASSUME NEW m \in Nat \ {NULL} PROVE Outside'[m] = Outside[m] + Occ(<<op>>, m)
    <3>1. <<op>> \in Seq(Nat)
      BY <1>12
    <3> QED
      BY <1>9, <1>24, <3>1, WithDroppedIs
  <2>1. PICK x, y, z, q, w \in Nat : /\ Held5(m, program, block, ast, gathered, <<>>, x, y, z, q, w)
                                     /\ Outside[m] = x + y + z + q + w
    <3>1. Tallied(Outside, m, program, block, ast, gathered, <<>>)
      BY <1>24, Tally
    <3> QED
      BY <3>1 DEF Tallied
  <2>2. PICK x2, y2, z2, q2, w2 \in Nat :
          /\ Held5(m, program, block, ast, gathered, <<op>>, x2, y2, z2, q2, w2)
          /\ Outside'[m] = x2 + y2 + z2 + q2 + w2
    <3>1. Tallied(Outside', m, program, block, ast, gathered, <<op>>)
      BY <1>23, Tally
    <3> QED
      BY <3>1 DEF Tallied
  <2>3. x2 = x /\ y2 = y /\ z2 = z /\ q2 = q /\ w2 = Occ(<<op>>, m)
    BY <2>1, <2>2 DEF Held5
  <2>4. w = 0
    BY <2>1, OccEmpty DEF Held5
  <2>5. Outside[m] = x + y + z + q + 0 /\ Outside'[m] = x + y + z + q + w2
    BY <2>1, <2>2, <2>3, <2>4
  <2>6. x + y + z + q + w2 = (x + y + z + q + 0) + w2
    OBVIOUS
  <2> QED
    BY <2>3, <2>5, <2>6
<1>26. Moved(T2, V, g, Standing, c)
  BY <1>9, <1>10, <1>13, <1>14, <1>15, <1>16, <1>20, <1>21, <1>22, <1>25 DEF Moved
<1>27. Holds(T2, V)'
  BY <1>26, MovedHolds
<1> QED
  BY <1>27 DEF IInv

\* The end of EliminateBitwiseNotRHS keeps it.
LEMMA DropKeeps ==
  ASSUME NEW T, NEW V, Holds(T, V), DropGatherer
  PROVE  IInv'
<1>1. phase = "rewrite" /\ later = <<>>
  BY DEF DropGatherer, Rewritten, In
<1>2. Facts(T) /\ Typed /\ Stages /\ Sound(heap, T, Standing, Outside, MovedOnes)
  BY FactsAre DEF Holds
<1>3. /\ heap' = heap /\ later' = gathered /\ gathered' = <<>> /\ phase' = "group"
      /\ input' = input /\ ast' = ast /\ fault' = fault /\ f' = f /\ stack' = stack
      /\ program' = program /\ block' = block /\ moved' = moved /\ todo' = todo /\ next' = next
  BY DEF DropGatherer, parser
<1>4. MovedOnes = {} /\ MovedOnes' = {}
  BY <1>1, <1>3 DEF MovedOnes
<1>5. Standing' = Standing
  BY <1>3 DEF Standing, Roots
<1>6. Typed'
  BY <1>2, <1>3 DEF Typed
<1>7. StackIsRaw'
  <2>1. stack = <<>>
    BY <1>1, <1>2 DEF Stages
  <2> QED
    BY <1>3, <2>1 DEF StackIsRaw, Distinct, Entries
<1>8. Stages'
  BY <1>1, <1>2, <1>3 DEF Stages
<1>9. Parsing' /\ Returning' /\ Gathering(V)' /\ Rewriting' /\ Covered(T)'
  BY <1>3 DEF Parsing, Returning, Gathering, Rewriting, Covered
<1>10. CountedBy(Outside', program, block, ast, <<>>, gathered)
  BY <1>3, <1>6, OutsideThen
<1>11. CountedBy(Outside, program, block, ast, gathered, <<>>)
  BY <1>1, <1>2 DEF Facts
<1>12. \A m \in Nat \ {NULL} : Outside'[m] = Outside[m]
  <2> SUFFICES ASSUME NEW m \in Nat \ {NULL} PROVE Outside'[m] = Outside[m]
    OBVIOUS
  <2>1. PICK x, y, z, u, w \in Nat : /\ Held5(m, program, block, ast, gathered, <<>>, x, y, z, u, w)
                                     /\ Outside[m] = x + y + z + u + w
    <3>1. Tallied(Outside, m, program, block, ast, gathered, <<>>)
      BY <1>11, Tally
    <3> QED
      BY <3>1 DEF Tallied
  <2>2. PICK x2, y2, z2, u2, w2 \in Nat :
          /\ Held5(m, program, block, ast, <<>>, gathered, x2, y2, z2, u2, w2)
          /\ Outside'[m] = x2 + y2 + z2 + u2 + w2
    <3>1. Tallied(Outside', m, program, block, ast, <<>>, gathered)
      BY <1>10, Tally
    <3> QED
      BY <3>1 DEF Tallied
  <2>3. x2 = x /\ y2 = y /\ z2 = z /\ w2 = u
    BY <2>1, <2>2 DEF Held5
  <2>4. w = 0 /\ u2 = 0
    BY <2>1, <2>2, OccEmpty DEF Held5
  <2>5. Outside[m] = x + y + z + u + 0 /\ Outside'[m] = x + y + z + 0 + u
    BY <2>1, <2>2, <2>3, <2>4
  <2> QED
    BY <2>5
<1>13. Moved(T, V, heap, Standing, Outside)
  BY <1>2, <1>3, <1>4, <1>5, <1>6, <1>7, <1>8, <1>9, <1>12 DEF Moved
<1>14. Holds(T, V)'
  BY <1>13, MovedHolds
<1> QED
  BY <1>14 DEF IInv

\* The end of main keeps it.
LEMMA ExitKeeps ==
  ASSUME NEW T, NEW V, Holds(T, V), Exits
  PROVE  IInv'
<1>1. phase = "exit" /\ later = <<>>
  BY DEF Exits, In
<1>2. Facts(T) /\ Typed /\ Stages /\ Sound(heap, T, Standing, Outside, MovedOnes)
  BY FactsAre DEF Holds
<1>3. /\ heap' = heap /\ later' = <<ast>> /\ ast' = NULL /\ phase' = "gone"
      /\ input' = input /\ fault' = fault /\ f' = f /\ stack' = stack /\ program' = program
      /\ block' = block /\ moved' = moved /\ gathered' = gathered /\ todo' = todo /\ next' = next
  BY DEF Exits, parser, pass
<1>4. stack = <<>> /\ program = NULL /\ block = NULL /\ gathered = <<>> /\ ast \in Nat
  BY <1>1, <1>2 DEF Stages, Typed
<1>5. MovedOnes = {} /\ MovedOnes' = {}
  BY <1>1, <1>3 DEF MovedOnes
<1>6. Standing = {ast} \ {NULL} /\ Standing' = {}
  BY <1>3, <1>4 DEF Standing, Roots
<1>7. Typed'
  <2>1. <<ast>> \in Seq(Nat)
    BY <1>4
  <2> QED
    BY <1>2, <1>3, <2>1 DEF Typed, NULL
<1>8. CountedBy(Outside', program, block, NULL, gathered, <<ast>>)
  BY <1>3, <1>7, OutsideThen
<1>9. CountedBy(Outside, program, block, ast, gathered, <<>>)
  BY <1>1, <1>2 DEF Facts
<1>10. ast # NULL => Outside[ast] # 0
  <2>1. PICK x, y, z, u, w \in Nat : /\ Held5(ast, program, block, ast, gathered, <<>>, x, y, z, u, w)
                                     /\ Outside[ast] = x + y + z + u + w
    <3>1. Tallied(Outside, ast, program, block, ast, gathered, <<>>)
      BY <1>4, <1>9, Tally
    <3> QED
      BY <3>1 DEF Tallied
  <2>2. z = 1
    BY <2>1 DEF Held5, Is
  <2> QED
    BY <2>1, <2>2
<1>11. PICK T2 \in SUBSET T : Sound(heap, T2, Standing', Outside, {})
  <2>1. ast \in Standing \cup {NULL}
    BY <1>6
  <2>2. \E T2 \in SUBSET T : Sound(heap, T2, Standing \ {ast}, Outside, {})
    BY <1>2, <1>5, <1>10, <2>1, FewerRoots
  <2>3. Standing \ {ast} = Standing'
    BY <1>6
  <2> QED
    BY <2>2, <2>3
<1>12. StackIsRaw'
  BY <1>3, <1>4 DEF StackIsRaw, Distinct, Entries
<1>13. Stages'
  BY <1>1, <1>2, <1>3, <1>4 DEF Stages
<1>14. Parsing' /\ Returning' /\ Gathering(V)' /\ Rewriting' /\ Covered(T2)'
  BY <1>3 DEF Parsing, Returning, Gathering, Rewriting, Covered
<1>15. \A m \in Nat \ {NULL} : Outside'[m] = Outside[m]
  <2> SUFFICES ASSUME NEW m \in Nat \ {NULL} PROVE Outside'[m] = Outside[m]
    OBVIOUS
  <2>1. PICK x, y, z, u, w \in Nat : /\ Held5(m, program, block, ast, gathered, <<>>, x, y, z, u, w)
                                     /\ Outside[m] = x + y + z + u + w
    <3>1. Tallied(Outside, m, program, block, ast, gathered, <<>>)
      BY <1>9, Tally
    <3> QED
      BY <3>1 DEF Tallied
  <2>2. PICK x2, y2, z2, u2, w2 \in Nat :
          /\ Held5(m, program, block, NULL, gathered, <<ast>>, x2, y2, z2, u2, w2)
          /\ Outside'[m] = x2 + y2 + z2 + u2 + w2
    <3>1. Tallied(Outside', m, program, block, NULL, gathered, <<ast>>)
      BY <1>8, Tally
    <3> QED
      BY <3>1 DEF Tallied
  <2>3. x2 = x /\ y2 = y /\ u2 = u
    BY <2>1, <2>2 DEF Held5
  <2>4. w = 0 /\ z2 = 0
    BY <2>1, <2>2, OccEmpty DEF Held5, Is
  <2>5. w2 = z
    BY <2>1, <2>2, OccSingle DEF Held5, Is
  <2>6. Outside[m] = x + y + z + u + 0 /\ Outside'[m] = x + y + 0 + u + z
    BY <2>1, <2>2, <2>3, <2>4, <2>5
  <2>7. x + y + 0 + u + z = x + y + z + u + 0
    OBVIOUS
  <2> QED
    BY <2>6, <2>7
<1>16. Moved(T2, V, heap, Standing', Outside)
  BY <1>3, <1>5, <1>7, <1>11, <1>12, <1>13, <1>14, <1>15 DEF Moved
<1>17. Holds(T2, V)'
  BY <1>16, MovedHolds
<1> QED
  BY <1>17 DEF IInv

-----------------------------------------------------------------------------
(* The releases.                                                           *)

\* What has to be shown of a release.
Released(g, l2, T, c) ==
  /\ Sound(g, T, Standing, c, {}) /\ \A m \in Nodes(heap) : g[m].class = heap[m].class
  /\ l2 \in Seq(Nat) /\ \A s \in Entries(stack) \ {NULL} : s \notin Entries(l2)
  /\ phase = "rewrite" =>
       /\ SameShape(heap, g) /\ Entries(l2) \subseteq Entries(later)
       /\ \A m \in Nodes(heap) : g[m].tag = heap[m].tag /\ g[m].parent = heap[m].parent
ReleaseOf(g, l2) ==
  /\ heap' = g /\ later' = l2 /\ phase' = phase /\ input' = input /\ ast' = ast /\ fault' = fault
  /\ f' = f /\ pc' = pc /\ stack' = stack /\ program' = program /\ block' = block /\ moved' = moved
  /\ gathered' = gathered /\ todo' = todo /\ next' = next
\* A release that is one of these keeps the invariant.
LEMMA ReleaseStep ==
  ASSUME NEW T, NEW V, Holds(T, V), later # <<>>, NEW g, NEW l2, NEW c,
         Released(g, l2, T, c), ReleaseOf(g, l2),
         \A m \in Nat \ {NULL} : Outside'[m] = c[m]
  PROVE  IInv'
<1>1. Facts(T) /\ Typed /\ Stages /\ StackIsRaw /\ Parsing /\ Rewriting /\ Covered(T)
  BY FactsAre DEF Holds
<1>2. phase \notin {"gather", "returned"}
  BY DEF Holds, Gathering, Returning
<1>3. MovedOnes' = {}
  BY <1>2 DEF MovedOnes, ReleaseOf
<1>4. Typed'
  BY <1>1 DEF Typed, Released, ReleaseOf
<1>5. StackIsRaw'
  BY <1>1 DEF StackIsRaw, Released, ReleaseOf
<1>6. Stages'
  <2>1. \A m \in {program, block, ast} \ {NULL} : m \in Nodes(heap) /\ heap[m].class = "Block"
    BY <1>1 DEF Stages, Facts
  <2>2. \A m \in {program, block, ast} \ {NULL} : g[m].class = "Block"
    BY <2>1 DEF Released
  <2> QED
    BY <1>1, <2>2 DEF Stages, ReleaseOf
<1>7. Parsing'
  <2>1. \A s \in Entries(stack) : TypeOf(g, s) = TypeOf(heap, s)
    BY <1>1 DEF Facts, TypeOf, Released
  <2>2. \A i \in DOMAIN stack : TypeOf(g, stack[i]) = TypeOf(heap, stack[i])
    BY <2>1 DEF Entries
  <2>3. SymbolsOf(pc)' = SymbolsOf(pc)
    BY DEF SymbolsOf, ReleaseOf
  <2> QED
    BY <1>1, <2>2, <2>3 DEF Parsing, ReleaseOf
<1>8. Returning' /\ Gathering(V)'
  BY <1>2 DEF Returning, Gathering, ReleaseOf
<1>9. Rewriting'
  <2>1. CASE phase = "rewrite"
    <3>1. IsHeap(heap) /\ Whole(heap) /\ Live(heap) \in SUBSET Nodes(heap)
      BY <1>1 DEF Facts
    <3>2. /\ SameShape(heap, g) /\ Entries(l2) \subseteq Entries(later)
          /\ \A m \in Nodes(heap) : /\ g[m].class = heap[m].class /\ g[m].tag = heap[m].tag
                                    /\ g[m].parent = heap[m].parent
      BY <2>1 DEF Released
    <3>3. /\ Nodes(g) = Nodes(heap) /\ Live(g) = Live(heap)
          /\ \A n \in Nodes(heap) : Children(g, n) = Children(heap, n)
      BY <3>1, <3>2, ShapeKept
    <3>4. AllFit(g, Live(g))
      <4>1. \A n \in Nodes(heap) : g[n].class = heap[n].class /\ g[n].kids = heap[n].kids
        BY <3>2 DEF SameShape
      <4>2. AllFit(heap, Live(heap))
        BY <1>1, <2>1 DEF Rewriting
      <4> QED
        BY <3>1, <3>3, <4>1, <4>2, AllFitKept
    <3>5. \A n \in Entries(gathered) : n \in Nodes(heap) /\ IsBitwiseNot(g, n)
      <4>1. \A n \in Entries(gathered) : n \in Nodes(heap) /\ IsBitwiseNot(heap, n)
        BY <1>1, <2>1, GatheredAreAlive DEF Rewriting, Facts
      <4> QED
        BY <3>2, <4>1 DEF IsBitwiseNot
    <3>6. \A o \in Live(g) \ Replaced : \A m \in Children(g, o) : g[m].parent = o
      <4>1. \A o \in Live(heap) \ Replaced : \A m \in Children(heap, o) :
              m \in Nodes(heap) /\ heap[m].parent = o
        BY <1>1, <2>1, <3>1 DEF Rewriting, Whole
      <4> QED
        BY <3>1, <3>2, <3>3, <4>1
    <3>7. ASSUME NEW k \in DOMAIN gathered, k >= next
          PROVE  /\ g[gathered[k]].parent \in Live(g)
                 /\ gathered[k] \in Children(g, g[gathered[k]].parent)
      <4>1. /\ heap[gathered[k]].parent \in Live(heap)
            /\ gathered[k] \in Children(heap, heap[gathered[k]].parent)
        BY <1>1, <2>1, <3>7 DEF Rewriting
      <4>2. gathered[k] \in Nodes(heap)
        BY <3>5 DEF Entries
      <4> QED
        BY <3>1, <3>2, <3>3, <4>1, <4>2
    <3>8. Replaced' = Replaced
      BY DEF Replaced, ReleaseOf
    <3>9. /\ Distinct(gathered) /\ NULL \notin Entries(gathered)
          /\ Entries(l2) \subseteq Entries(gathered)
      BY <1>1, <2>1, <3>2 DEF Rewriting
    <3> QED
      BY <3>4, <3>5, <3>6, <3>7, <3>8, <3>9 DEF Rewriting, ReleaseOf
  <2>2. CASE phase # "rewrite"
    BY <2>2 DEF Rewriting, ReleaseOf
  <2> QED
    BY <2>1, <2>2
<1>10. Covered(T)'
  BY <1>1, <1>2 DEF Covered, Replaced, ReleaseOf
<1>11. Standing' = Standing
  BY DEF Standing, Roots, ReleaseOf
<1>12. Moved(T, V, g, Standing, c)
  BY <1>3, <1>4, <1>5, <1>6, <1>7, <1>8, <1>9, <1>10, <1>11 DEF Moved, Released, ReleaseOf
<1>13. Holds(T, V)'
  BY <1>12, MovedHolds
<1> QED
  BY <1>13 DEF IInv

\* The reference that is released first.
First(n, r) ==
  /\ n \in Nat /\ r \in Seq(Nat) /\ later \in Seq(Nat) /\ later # <<>>
  /\ Entries(later) = Entries(r) \cup {n}
  /\ \A m \in Nat : Occ(later, m) = (IF m = n THEN 1 ELSE 0) + Occ(r, m)
  /\ \A m \in Nat : Occ(r, m) \in Nat
\* The reference that is released next.
LEMMA FirstIs ==
  ASSUME Typed, later # <<>>
  PROVE  First(Head(later), Tail(later))
<1>1. later \in Seq(Nat)
  BY DEF Typed
<1>2. HeadTaken(later, Head(later), Tail(later))
  BY <1>1, TakingHead
<1>3. \A m \in Nat : Occ(later, m) = (IF m = Head(later) THEN 1 ELSE 0) + Occ(Tail(later), m)
  BY <1>1, OccHead
<1>4. \A m \in Nat : Occ(Tail(later), m) \in Nat
  BY <1>2, PlacesAreFinite DEF HeadTaken
<1> QED
  BY <1>1, <1>2, <1>3, <1>4 DEF First, HeadTaken

\* What is held when one reference has been released and others are to be.
LEMMA OutsideAfter ==
  ASSUME NEW T, NEW V, Holds(T, V), later # <<>>, NEW n, NEW r, First(n, r),
         NEW g, NEW k \in Seq(Nat), ReleaseOf(g, k \o r), Typed',
         NEW m \in Nat \ {NULL}, NEW o \in Nat, o = Occ(k, m)
  PROVE  Outside'[m] + (IF m = n THEN 1 ELSE 0) = Outside[m] + o
<1>1. CountedBy(Outside, program, block, ast, gathered, later)
  BY FactsAre DEF Facts
<1>2. CountedBy(Outside', program, block, ast, gathered, k \o r)
  BY OutsideThen DEF ReleaseOf
<1>3. PICK x, y, z, u, w \in Nat : /\ Held5(m, program, block, ast, gathered, later, x, y, z, u, w)
                                   /\ Outside[m] = x + y + z + u + w
  <2>1. Tallied(Outside, m, program, block, ast, gathered, later)
    BY <1>1, Tally
  <2> QED
    BY <2>1 DEF Tallied
<1>4. PICK x2, y2, z2, u2, w2 \in Nat :
        /\ Held5(m, program, block, ast, gathered, k \o r, x2, y2, z2, u2, w2)
        /\ Outside'[m] = x2 + y2 + z2 + u2 + w2
  <2>1. Tallied(Outside', m, program, block, ast, gathered, k \o r)
    BY <1>2, Tally
  <2> QED
    BY <2>1 DEF Tallied
<1>5. x2 = x /\ y2 = y /\ z2 = z /\ u2 = u
  BY <1>3, <1>4 DEF Held5
<1>6. PICK v \in Nat : v = IF m = n THEN 1 ELSE 0
  OBVIOUS
<1>7. PICK t \in Nat : t = Occ(r, m)
  BY DEF First
<1>8. w = v + t
  BY <1>3, <1>6, <1>7 DEF Held5, First
<1>9. w2 = o + t
  <2>1. Occ(k \o r, m) = Occ(k, m) + Occ(r, m)
    BY OccConcat DEF First
  <2> QED
    BY <1>4, <1>7, <2>1 DEF Held5
<1>10. Outside[m] = x + y + z + u + (v + t) /\ Outside'[m] = x + y + z + u + (o + t)
  BY <1>3, <1>4, <1>5, <1>8, <1>9
<1>11. x + y + z + u + (o + t) + v = x + y + z + u + (v + t) + o
  OBVIOUS
<1> QED
  BY <1>6, <1>10, <1>11

\* It is there, and if its node is in a tree or gathered it is not the last.
HeldNow(n) ==
  /\ n \in Live(heap) /\ n \in Nodes(heap) /\ Outside[n] # 0 /\ Outside[n] \in Nat
  /\ n \in Standing \/ n \in Entries(gathered) => Outside[n] > 1
\* The node it is to is alive, and if it is in use it is held otherwise.
LEMMA HeldIs ==
  ASSUME NEW T, NEW V, Holds(T, V), later # <<>>, NEW n, NEW r, First(n, r), n # NULL
  PROVE  HeldNow(n)
<1>1. Facts(T) /\ Typed /\ StackIsRaw /\ Graph(heap, Standing, Outside)
  BY FactsAre DEF Holds, Sound
<1>2. n \in Nat /\ gathered \in Seq(Nat)
  BY <1>1 DEF First, Typed
<1>3. PICK x, y, z, u, w \in Nat : /\ Held5(n, program, block, ast, gathered, later, x, y, z, u, w)
                                   /\ Outside[n] = x + y + z + u + w
  <2>1. Tallied(Outside, n, program, block, ast, gathered, later)
    BY <1>1, <1>2, Tally DEF Facts
  <2> QED
    BY <2>1 DEF Tallied
<1>4. w >= 1
  <2>1. PICK t \in Nat : t = Occ(r, n)
    BY <1>2 DEF First
  <2>2. w = 1 + t
    BY <1>2, <1>3, <2>1 DEF Held5, First
  <2> QED
    BY <2>2
<1>5. Outside[n] # 0 /\ Outside[n] \in Nat
  BY <1>3, <1>4
<1>6. n \in Live(heap) /\ n \in Nodes(heap)
  BY <1>1, <1>2, <1>5 DEF Graph, Facts
<1>7. ASSUME n \in Standing \/ n \in Entries(gathered)
      PROVE  Outside[n] > 1
  <2>1. CASE n \in Entries(gathered)
    <3>1. u # 0
      BY <1>2, <1>3, <2>1, OccNone DEF Held5
    <3> QED
      BY <1>3, <1>4, <3>1
  <2>2. CASE n \in Standing
    <3>1. n \notin Entries(stack)
      BY <1>1 DEF StackIsRaw, First
    <3>2. n = program \/ n = block \/ n = ast
      BY <2>2, <3>1 DEF Standing, Roots, Entries
    <3>3. x = 1 \/ y = 1 \/ z = 1
      BY <1>3, <3>2 DEF Held5, Is
    <3> QED
      BY <1>3, <1>4, <3>3
  <2> QED
    BY <1>7, <2>1, <2>2
<1> QED
  BY <1>5, <1>6, <1>7 DEF HeldNow

\* What is still to be released after the first.
LEMMA RestOfLater ==
  ASSUME NEW T, NEW V, Holds(T, V), NEW n, NEW r, First(n, r)
  PROVE  /\ Entries(r) \subseteq Entries(later)
         /\ \A s \in Entries(stack) \ {NULL} : s \notin Entries(r)
  BY DEF Holds, StackIsRaw, First

\* A reference to nothing is released,
LEMMA NullReleased ==
  ASSUME NEW T, NEW V, Holds(T, V), ReleaseReference, Head(later) = NULL
  PROVE  IInv'
<1>1. later # <<>>
  BY DEF ReleaseReference
<1>2. PICK r : r = Tail(later)
  OBVIOUS
<1>3. Facts(T) /\ Typed /\ Sound(heap, T, Standing, Outside, MovedOnes) /\ First(NULL, r)
  BY <1>1, <1>2, FactsAre, FirstIs DEF Holds
<1>4. ReleaseOf(heap, r)
  <2>1. Release(heap, NULL, r) = [heap |-> heap, later |-> r]
    BY DEF Release
  <2>2. heap' = heap /\ later' = r
    BY <1>2, <2>1 DEF ReleaseReference
  <2> QED
    BY <2>2 DEF ReleaseReference, ReleaseOf, parser, pass
<1>5. MovedOnes = {}
  BY <1>1 DEF Holds, Returning, MovedOnes
<1>6. Released(heap, r, T, Outside)
  <2>1. SameShape(heap, heap)
    BY <1>3 DEF SameShape, Facts
  <2>2. Sound(heap, T, Standing, Outside, {}) /\ r \in Seq(Nat)
    BY <1>3, <1>5 DEF First
  <2>3. /\ Entries(r) \subseteq Entries(later)
        /\ \A s \in Entries(stack) \ {NULL} : s \notin Entries(r)
    BY <1>3, RestOfLater
  <2> QED
    BY <2>1, <2>2, <2>3 DEF Released
<1>7. Typed'
  BY <1>3, <1>4 DEF Typed, ReleaseOf, First
<1>8. \A m \in Nat \ {NULL} : Outside'[m] = Outside[m]
  <2> SUFFICES ASSUME NEW m \in Nat \ {NULL} PROVE Outside'[m] = Outside[m]
    OBVIOUS
  <2>1. <<>> \in Seq(Nat) /\ Occ(<<>>, m) = 0 /\ <<>> \o r = r
    <3>1. <<>> \in Seq(Nat)
      OBVIOUS
    <3>2. Occ(<<>>, m) = 0
      BY OccEmpty
    <3>3. <<>> \o r = r
      BY <1>3, ConcatEmptySeq DEF First
    <3> QED
      BY <3>1, <3>2, <3>3
  <2>2. PICK k \in Seq(Nat) : k = <<>>
    BY <2>1
  <2>3. ReleaseOf(heap, k \o r) /\ Occ(k, m) = 0
    BY <1>4, <2>1, <2>2
  <2>4. Outside'[m] + (IF m = NULL THEN 1 ELSE 0) = Outside[m] + 0
    BY <1>1, <1>3, <1>7, <2>3, OutsideAfter
  <2>5. PICK a \in Nat, b \in Nat : a = Outside[m] /\ b = Outside'[m]
    <3>1. Outside \in Counts /\ Outside' \in Counts
      BY <1>3, <1>7, OutsideThen DEF Facts, CountedBy
    <3> QED
      BY <3>1 DEF Counts
  <2>6. b + 0 = a + 0
    BY <2>4, <2>5
  <2> QED
    BY <2>5, <2>6
<1> QED
  BY <1>1, <1>4, <1>6, <1>8, ReleaseStep

\* one of several to a node is,
LEMMA NodeKept ==
  ASSUME NEW T, NEW V, Holds(T, V), ReleaseReference,
         NEW n, n = Head(later), n # NULL, heap[n].refs > 1
  PROVE  IInv'
<1>1. later # <<>>
  BY DEF ReleaseReference
<1>2. PICK r : r = Tail(later)
  OBVIOUS
<1>3. Facts(T) /\ Typed /\ Sound(heap, T, Standing, Outside, MovedOnes) /\ First(n, r)
  BY <1>1, <1>2, FactsAre, FirstIs DEF Holds
<1>4. HeldNow(n)
  BY <1>1, <1>3, HeldIs
<1>5. PICK g : g = [heap EXCEPT ![n].refs = @ - 1]
  OBVIOUS
<1>6. ReleaseOf(g, r)
  <2>1. Release(heap, n, r) = [heap |-> g, later |-> r]
    BY <1>5 DEF Release
  <2>2. heap' = g /\ later' = r
    BY <1>2, <2>1 DEF ReleaseReference
  <2> QED
    BY <2>2 DEF ReleaseReference, ReleaseOf, parser, pass
<1>7. MovedOnes = {}
  BY <1>1 DEF Holds, Returning, MovedOnes
<1>8. Graph(heap, Standing, Outside) /\ Forest(heap, T, Standing, {}) /\ AllFit(heap, T)
  BY <1>3, <1>7 DEF Sound
<1>9. PICK c : c = Minus(Outside, n)
  OBVIOUS
<1>10. /\ Graph(g, Standing, c) /\ SameShape(heap, g)
       /\ \A m \in Nodes(heap) : g[m].class = heap[m].class /\ g[m].parent = heap[m].parent
  <2>1. g = OneLess(heap, n)
    BY <1>5 DEF OneLess
  <2>2. n \in Live(heap) /\ Outside[n] # 0 /\ heap[n].refs > 1
    BY <1>4 DEF HeldNow
  <2>3. Graph(heap, Standing, Outside)
    BY <1>8
  <2> QED
    BY <1>9, <2>1, <2>2, <2>3, ReleaseKeeps
<1>11. \A m \in Nodes(heap) : g[m].tag = heap[m].tag
  <2>1. PICK x \in Node : x = heap[n]
    BY <1>3, <1>4, HeapFacts DEF Facts, HeldNow
  <2>2. g = [heap EXCEPT ![n] = [x EXCEPT !.refs = @ - 1]] /\ n \in DOMAIN heap
    BY <1>4, <1>5, <2>1 DEF HeldNow, Nodes
  <2>3. [x EXCEPT !.refs = @ - 1].tag = x.tag
    BY DEF Node
  <2>4. \A m \in DOMAIN heap : g[m] = IF m = n THEN [x EXCEPT !.refs = @ - 1] ELSE heap[m]
    BY <2>2
  <2> QED
    BY <2>1, <2>3, <2>4 DEF Nodes
<1>12. Forest(g, T, Standing, {})
  BY <1>3, <1>8, <1>10, ForestKept DEF Facts
<1>13. AllFit(g, T)
  <2>1. \A m \in Nodes(heap) : g[m].class = heap[m].class /\ g[m].kids = heap[m].kids
    BY <1>10 DEF SameShape
  <2> QED
    BY <1>3, <1>8, <2>1, AllFitKept DEF Facts
<1>14. Released(g, r, T, c)
  <2>1. Sound(g, T, Standing, c, {})
    BY <1>10, <1>12, <1>13 DEF Sound
  <2>2. /\ Entries(r) \subseteq Entries(later)
        /\ \A s \in Entries(stack) \ {NULL} : s \notin Entries(r)
    BY <1>3, RestOfLater
  <2>3. r \in Seq(Nat)
    BY <1>3 DEF First
  <2> QED
    BY <1>10, <1>11, <2>1, <2>2, <2>3 DEF Released
<1>15. Typed'
  BY <1>3, <1>6 DEF Typed, ReleaseOf, First
<1>16. \A m \in Nat \ {NULL} : Outside'[m] = c[m]
  <2> SUFFICES ASSUME NEW m \in Nat \ {NULL} PROVE Outside'[m] = c[m]
    OBVIOUS
  <2>1. <<>> \in Seq(Nat) /\ Occ(<<>>, m) = 0 /\ <<>> \o r = r
    <3>1. <<>> \in Seq(Nat)
      OBVIOUS
    <3>2. Occ(<<>>, m) = 0
      BY OccEmpty
    <3>3. <<>> \o r = r
      BY <1>3, ConcatEmptySeq DEF First
    <3> QED
      BY <3>1, <3>2, <3>3
  <2>2. PICK k \in Seq(Nat) : k = <<>>
    BY <2>1
  <2>3. ReleaseOf(g, k \o r) /\ Occ(k, m) = 0
    BY <1>6, <2>1, <2>2
  <2>4. Outside'[m] + (IF m = n THEN 1 ELSE 0) = Outside[m] + 0
    BY <1>1, <1>3, <1>15, <2>3, OutsideAfter
  <2>5. Outside \in Counts /\ Outside' \in Counts
    BY <1>3, <1>15, OutsideThen DEF Facts, CountedBy
  <2>6. PICK a \in Nat, b \in Nat : a = Outside[m] /\ b = Outside'[m]
    BY <2>5 DEF Counts
  <2>7. c[m] = IF m = n THEN a - 1 ELSE a
    BY <1>9, <2>5, <2>6 DEF Minus, Counts
  <2>8. b + (IF m = n THEN 1 ELSE 0) = a + 0
    BY <2>4, <2>6
  <2>9. CASE m = n
    <3>1. b + 1 = a + 0 /\ c[m] = a - 1
      BY <2>7, <2>8, <2>9
    <3>2. b = a - 1
      BY <3>1
    <3> QED
      BY <2>6, <3>1, <3>2
  <2>10. CASE m # n
    <3>1. b + 0 = a + 0 /\ c[m] = a
      BY <2>7, <2>8, <2>10
    <3>2. b = a
      BY <3>1
    <3> QED
      BY <2>6, <3>1, <3>2
  <2> QED
    BY <2>9, <2>10
<1> QED
  BY <1>1, <1>6, <1>14, <1>16, ReleaseStep

\* the last one is,
LEMMA NodeDeleted ==
  ASSUME NEW T, NEW V, Holds(T, V), ReleaseReference,
         NEW n, n = Head(later), n # NULL, ~(heap[n].refs > 1)
  PROVE  IInv'
<1>1. later # <<>>
  BY DEF ReleaseReference
<1>2. PICK r : r = Tail(later)
  OBVIOUS
<1>3. Facts(T) /\ Typed /\ Sound(heap, T, Standing, Outside, MovedOnes) /\ First(n, r)
  BY <1>1, <1>2, FactsAre, FirstIs DEF Holds
<1>4. HeldNow(n)
  BY <1>1, <1>3, HeldIs
<1>5. PICK k \in Seq(Nat) : k = heap[n].kids
  BY <1>3, <1>4, HeapFacts DEF Facts, HeldNow
<1>6. PICK g : g = [heap EXCEPT ![n] = [heap[n] EXCEPT !.refs = @ - 1, !.live = FALSE]]
  OBVIOUS
<1>7. ReleaseOf(g, k \o r)
  <2>1. Release(heap, n, r) = [heap |-> g, later |-> k \o r]
    BY <1>5, <1>6 DEF Release
  <2>2. heap' = g /\ later' = k \o r
    BY <1>2, <2>1 DEF ReleaseReference
  <2> QED
    BY <2>2 DEF ReleaseReference, ReleaseOf, parser, pass
<1>8. MovedOnes = {}
  BY <1>1 DEF Holds, Returning, MovedOnes
<1>9. Graph(heap, Standing, Outside) /\ Forest(heap, T, Standing, {}) /\ AllFit(heap, T)
  BY <1>3, <1>8 DEF Sound
<1>10. /\ n \in Live(heap) /\ n \in Nodes(heap) /\ n \in Nat /\ Outside[n] # 0 /\ Outside[n] \in Nat
       /\ n \in Standing \/ n \in Entries(gathered) => Outside[n] > 1
  BY <1>3, <1>4 DEF HeldNow, First, Facts
<1>11. Outside \in Counts /\ heap[n].refs \in Nat /\ heap[n].refs <= 1
  <2>1. Outside \in Counts /\ heap[n].refs \in Nat
    BY <1>3, <1>10, HeapFacts DEF Facts
  <2> QED
    BY <2>1
<1>12. PICK less : less = Minus(Outside, n)
  OBVIOUS
<1>13. less \in Counts /\ \A m \in Nat : less[m] = IF m = n THEN Outside[m] - 1 ELSE Outside[m]
  <2>1. Outside[n] - 1 \in Nat
    BY <1>10
  <2> QED
    BY <1>10, <1>11, <1>12, <2>1 DEF Minus, Counts
<1>14. PICK c : c = WithDropped(less, k)
  OBVIOUS
<1>15. c \in Counts /\ \A m \in Nat : c[m] = less[m] + Occ(k, m)
  BY <1>13, <1>14, WithDroppedIs
<1>16. \A m \in Nat : c[m] = (IF m = n THEN Outside[m] - 1 ELSE Outside[m]) + Occ(heap[n].kids, m)
  BY <1>5, <1>13, <1>15
<1>17. n \in Standing => Outside[n] > 1
  BY <1>10
<1>18. /\ Graph(g, Standing, c) /\ Forest(g, T, Standing, {})
       /\ \A m \in Nodes(heap) : g[m].class = heap[m].class /\ g[m].kids = heap[m].kids
  <2>1. c \in Counts /\ n \in Live(heap) /\ Outside[n] # 0 /\ heap[n].refs <= 1
    BY <1>10, <1>11, <1>15
  <2>2. g = Deleted(heap, n)
    BY <1>6 DEF Deleted
  <2>3. Graph(heap, Standing, Outside) /\ Forest(heap, T, Standing, {})
    BY <1>9
  <2> QED
    BY <1>16, <1>17, <2>1, <2>2, <2>3, ReleaseDeletes
<1>19. AllFit(g, T)
  BY <1>3, <1>9, <1>18, AllFitKept DEF Facts
<1>20. Sound(g, T, Standing, c, {})
  BY <1>18, <1>19 DEF Sound
<1>21. phase # "rewrite"
  <2> SUFFICES ASSUME phase = "rewrite" PROVE FALSE
    OBVIOUS
  <2>1. n \in Entries(later)
    BY <1>3 DEF First
  <2>2. n \in Entries(gathered)
    BY <2>1 DEF Holds, Rewriting
  <2>3. Outside[n] > 1
    BY <1>10, <2>2
  <2>4. Outside[n] = 1
    BY <1>9, <1>10, <1>11, <1>17, DeletedIsNotInTree
  <2> QED
    BY <2>3, <2>4
<1>22. Joined(k, r, k \o r)
  BY <1>3, Joining DEF First
<1>23. \A s \in Entries(stack) \ {NULL} : s \notin Entries(k \o r)
  <2> SUFFICES ASSUME NEW s \in Entries(stack) \ {NULL} PROVE s \notin Entries(k \o r)
    OBVIOUS
  <2>1. s \notin Entries(r)
    BY <1>3, RestOfLater
  <2>2. s \in Standing
    BY <1>3 DEF Facts
  <2>3. s \notin Children(heap, n)
    BY <1>9, <1>10, <2>2, RootHasNoOwner
  <2>4. s \notin Entries(k)
    BY <1>5, <2>3 DEF Children, Slots, Entries
  <2> QED
    BY <1>22, <2>1, <2>4 DEF Joined
<1>24. Released(g, k \o r, T, c)
  BY <1>18, <1>20, <1>21, <1>22, <1>23 DEF Released, Joined
<1>25. Typed'
  BY <1>3, <1>7, <1>22 DEF Typed, ReleaseOf, Joined
<1>26. \A m \in Nat \ {NULL} : Outside'[m] = c[m]
  <2> SUFFICES ASSUME NEW m \in Nat \ {NULL} PROVE Outside'[m] = c[m]
    OBVIOUS
  <2>1. PICK o \in Nat : o = Occ(k, m)
    BY PlacesAreFinite
  <2>2. Outside'[m] + (IF m = n THEN 1 ELSE 0) = Outside[m] + o
    BY <1>1, <1>3, <1>7, <1>25, <2>1, OutsideAfter
  <2>3. Outside' \in Counts
    BY <1>25, OutsideThen DEF CountedBy
  <2>4. PICK a \in Nat, b \in Nat : a = Outside[m] /\ b = Outside'[m]
    BY <1>11, <2>3 DEF Counts
  <2>5. c[m] = (IF m = n THEN a - 1 ELSE a) + o /\ b + (IF m = n THEN 1 ELSE 0) = a + o
    BY <1>13, <1>15, <2>1, <2>2, <2>4
  <2>6. CASE m = n
    <3>1. c[m] = a - 1 + o /\ b + 1 = a + o
      BY <2>5, <2>6
    <3>2. b = a - 1 + o
      BY <3>1
    <3> QED
      BY <2>4, <3>1, <3>2
  <2>7. CASE m # n
    <3>1. c[m] = a + o /\ b + 0 = a + o
      BY <2>5, <2>7
    <3>2. b = a + o
      BY <3>1
    <3> QED
      BY <2>4, <3>1, <3>2
  <2> QED
    BY <2>6, <2>7
<1> QED
  BY <1>1, <1>7, <1>24, <1>26, ReleaseStep

\* so any release keeps the invariant.
LEMMA ReleasingKeeps ==
  ASSUME NEW T, NEW V, Holds(T, V), ReleaseReference
  PROVE  IInv'
<1>1. PICK n : n = Head(later)
  OBVIOUS
<1>2. CASE n = NULL
  BY <1>1, <1>2, NullReleased
<1>3. CASE n # NULL /\ heap[n].refs > 1
  BY <1>1, <1>3, NodeKept
<1>4. CASE n # NULL /\ ~(heap[n].refs > 1)
  BY <1>1, <1>4, NodeDeleted
<1> QED
  BY <1>2, <1>3, <1>4

-----------------------------------------------------------------------------
\* There is nothing before the first reduction.
LEMMA NothingYet ==
  Graph(<<>>, {}, [n \in Nat |-> 0])
<1>1. PICK h \in Seq(Node) : h = <<>> /\ DOMAIN h = {}
  <2>1. <<>> \in Seq(Node)
    OBVIOUS
  <2>2. DOMAIN <<>> = {}
    OBVIOUS
  <2> QED
    BY <2>1, <2>2
<1>2. IsHeap(h) /\ Nodes(h) = {} /\ Live(h) = {}
  BY <1>1 DEF IsHeap, Nodes, Live
<1>3. Whole(h)
  BY <1>2 DEF Whole
<1>4. Acyclic(h)
  BY <1>2 DEF Acyclic
<1>5. PICK c \in Counts : c = [n \in Nat |-> 0]
  BY DEF Counts
<1>6. \A n \in Nat : c[n] = 0
  BY <1>5
<1>7. Graph(h, {}, c)
  BY <1>2, <1>3, <1>4, <1>6 DEF Graph
<1> QED
  BY <1>1, <1>5, <1>7

\* The invariant holds before the first reduction.
LEMMA InitHolds ==
  ASSUME Init
  PROVE  IInv
<1>1. /\ heap = <<>> /\ later = <<>> /\ stack = <<>> /\ input \in Inputs /\ f = 1 /\ pc = 1 /\ moved = 0
      /\ program = 0 /\ block = 0 /\ ast = 0 /\ phase = "parse"
      /\ todo = <<>> /\ gathered = <<>> /\ next = 1 /\ fault = "none"
  BY DEF Init, NULL
<1>2. <<>> \in Seq(Nat) /\ DOMAIN <<>> = {} /\ Len(<<>>) = 0
  OBVIOUS
<1>3. Typed
  BY <1>1, <1>2 DEF Typed
<1>4. Entries(stack) = {} /\ DOMAIN stack = {}
  BY <1>1, <1>2 DEF Entries
<1>5. StackIsRaw
  BY <1>4 DEF StackIsRaw, Distinct
<1>6. input # <<>> /\ input \in Seq(DOMAIN Symbols)
  BY <1>1, InputsAreParses
<1>7. PICK L \in Nat : L = Len(input) /\ DOMAIN input = 1 .. L
  BY <1>6
<1>8. L # 0
  BY <1>6, <1>7, EmptySeq
<1>9. 1 \in DOMAIN input
  BY <1>7, <1>8
<1>10. PICK file : file = input[1]
  OBVIOUS
<1>11. IsParse(file, Symbols[file])
  <2>1. input[1] \in DOMAIN Symbols
    BY <1>6, <1>9
  <2> QED
    BY <1>10, <2>1, InputsAreParses
<1>12. Symbols[file][1] = <<>> /\ Len(file) \in Nat /\ file \in Seq(Rules) /\ (file # <<>> \/ Len(file) = 1)
  BY <1>11 DEF IsParse
<1>13. Len(file) # 0
  <2>1. CASE file = <<>>
    BY <1>12, <2>1
  <2>2. CASE file # <<>>
    BY <1>12, <2>2, EmptySeq
  <2> QED
    BY <2>1, <2>2
<1>14. Stages
  BY <1>1, <1>9 DEF Stages, NULL
<1>15. Parsing
  <2>1. input[f] = file /\ SymbolsOf(pc) = <<>>
    BY <1>1, <1>10, <1>12 DEF SymbolsOf
  <2>2. 1 \in 1 .. Len(file) + 1 /\ 1 # Len(file) + 1
    BY <1>12, <1>13
  <2>3. Len(stack) = Len(SymbolsOf(pc)) /\ program = NULL
    BY <1>1, <2>1 DEF NULL
  <2> QED
    BY <1>1, <1>4, <2>1, <2>2, <2>3 DEF Parsing
<1>16. Returning /\ Gathering({}) /\ Rewriting /\ Covered({})
  BY <1>1 DEF Returning, Gathering, Rewriting, Covered
<1>17. Standing = {} /\ MovedOnes = {}
  BY <1>1, <1>4 DEF Standing, Roots, MovedOnes, Entries, NULL
<1>18. PICK c : c = [n \in Nat |-> 0]
  OBVIOUS
<1>19. Graph(heap, {}, c)
  BY <1>1, <1>18, NothingYet
<1>20. \A n \in Nat \ {NULL} : Outside[n] = c[n]
  <2> SUFFICES ASSUME NEW n \in Nat \ {NULL} PROVE Outside[n] = c[n]
    OBVIOUS
  <2>1. Outside[n] = Is(0, n) + Is(0, n) + Is(0, n) + Occ(<<>>, n) + Occ(<<>>, n)
    BY <1>1, <1>3, OutsideIs DEF CountedBy
  <2>2. Is(0, n) = 0 /\ Occ(<<>>, n) = 0
    BY OccEmpty DEF Is, NULL
  <2>3. Outside[n] = 0 + 0 + 0 + 0 + 0
    BY <2>1, <2>2
  <2> QED
    BY <1>18, <2>3
<1>21. Outside \in Counts
  BY <1>3, OutsideIs DEF CountedBy
<1>22. Graph(heap, {}, Outside)
  BY <1>19, <1>20, <1>21, SameReferences
<1>23. Forest(heap, {}, {}, {}) /\ AllFit(heap, {})
  BY DEF Forest, AllFit
<1>24. Sound(heap, {}, Standing, Outside, MovedOnes)
  BY <1>17, <1>22, <1>23 DEF Sound
<1>25. Holds({}, {})
  BY <1>3, <1>5, <1>14, <1>15, <1>16, <1>24 DEF Holds
<1> QED
  BY <1>25 DEF IInv

\* Every reduction keeps it,
LEMMA ReduceKeeps ==
  ASSUME NEW T, NEW V, Holds(T, V), Reduce
  PROVE  IInv'
BY NewKeeps, NullKeeps, AppendKeeps, OneLineKeeps, ElseIfKeeps, VarDeclKeeps, InitializerKeeps,
   IncDecKeeps, GiveKeeps DEF Reduce

\* every step of the parser and of parseDBA does,
LEMMA ParseKeeps ==
  ASSUME NEW T, NEW V, Holds(T, V), Parse
  PROVE  IInv'
BY ReduceKeeps, AcceptKeeps, ReturnKeeps, NotOpenedKeeps, ErrorKeeps, DiscardKeeps, GiveUpKeeps,
   KeepKeeps, MergeKeeps, MergeEndsKeeps DEF Parse

\* every step of EliminateBitwiseNotRHS does,
LEMMA EliminateKeeps ==
  ASSUME NEW T, NEW V, Holds(T, V), Eliminate
  PROVE  IInv'
BY GatheringStarts, VisitKeeps, RewritingStarts, SwapKeeps, RefuseKeeps, DropKeeps DEF Eliminate

\* and every process does.
LEMMA ProcessKeeps ==
  ASSUME NEW T, NEW V, Holds(T, V), Process
  PROVE  IInv'
BY GroupKeeps, EliminateKeeps DEF Process

\* The invariant is inductive.
LEMMA StepKeeps ==
  ASSUME IInv, [Next]_vars
  PROVE  IInv'
<1>1. PICK T, V : Holds(T, V)
  BY DEF IInv
<1>2. CASE ReleaseReference
  BY <1>1, <1>2, ReleasingKeeps
<1>3. CASE Parse
  BY <1>1, <1>3, ParseKeeps
<1>4. CASE Process
  BY <1>1, <1>4, ProcessKeeps
<1>5. CASE Exits
  BY <1>1, <1>5, ExitKeeps
<1>6. CASE UNCHANGED vars
  BY <1>1, <1>6, StutterKeeps
<1>7. Terminated => UNCHANGED vars
  BY DEF Terminated
<1> QED
  BY <1>2, <1>3, <1>4, <1>5, <1>6, <1>7 DEF Next

-----------------------------------------------------------------------------
\* Of a reference that is added.
\* Of the three references that are held by name.
LEMMA ThreeHolders ==
  ASSUME NEW p \in Nat, NEW b \in Nat, NEW a \in Nat, NEW n
  PROVE  Cardinality({i \in 1 .. 3 : <<p, b, a>>[i] = n}) = Is(p, n) + Is(b, n) + Is(a, n)
<1>1. PICK s \in Seq(Nat) : s = <<p, b>>
  <2>1. <<p, b>> \in Seq(Nat)
    OBVIOUS
  <2> QED
    BY <2>1
<1>2. PICK q \in Seq(Nat) : q = <<p>>
  <2>1. <<p>> \in Seq(Nat)
    OBVIOUS
  <2> QED
    BY <2>1
<1>3. PICK t \in Seq(Nat) : t = <<p, b, a>>
  <2>1. <<p, b, a>> \in Seq(Nat)
    OBVIOUS
  <2> QED
    BY <2>1
<1>4. s = Append(q, b) /\ t = Append(s, a)
  BY <1>1, <1>2, <1>3
<1>5. Occ(q, n) = Is(p, n)
  BY <1>2, OccSingle DEF Is
<1>6. Occ(s, n) = Occ(q, n) + Is(b, n) /\ Occ(t, n) = Occ(s, n) + Is(a, n)
  <2>1. PICK S : S = Nat
    OBVIOUS
  <2>2. q \in Seq(S) /\ s \in Seq(S) /\ b \in S /\ a \in S
    BY <1>1, <1>2, <2>1
  <2>3. Occ(Append(q, b), n) = Occ(q, n) + (IF n = b THEN 1 ELSE 0)
    BY <2>2, OccAppend
  <2>4. Occ(Append(s, a), n) = Occ(s, n) + (IF n = a THEN 1 ELSE 0)
    BY <2>2, OccAppend
  <2>5. Is(b, n) = (IF n = b THEN 1 ELSE 0) /\ Is(a, n) = (IF n = a THEN 1 ELSE 0)
    BY DEF Is
  <2> QED
    BY <1>4, <2>3, <2>4, <2>5
<1>7. DOMAIN <<p, b, a>> = 1 .. 3
  OBVIOUS
<1>8. Cardinality({i \in 1 .. 3 : <<p, b, a>>[i] = n}) = Occ(t, n)
  BY <1>3, <1>7 DEF Occ
<1> QED
  BY <1>5, <1>6, <1>8

\* From the invariant: the counts are exact,
LEMMA ExactCounts ==
  ASSUME IInv
  PROVE  CountsAreExact
<1>1. PICK T, V : Holds(T, V)
  BY DEF IInv
<1>2. Graph(heap, Standing, Outside) /\ Typed
  BY <1>1 DEF Holds, Sound
<1>3. SUFFICES ASSUME NEW n \in Live(heap) PROVE heap[n].refs = References(n)
  BY DEF CountsAreExact
<1>4. n \in Nat /\ IsHeap(heap)
  BY <1>2, HeapFacts DEF Graph
<1>5. /\ heap[n].refs = Cardinality(Owners(heap, n)) + Outside[n]
      /\ Cardinality(Owners(heap, n)) \in Nat
  BY <1>2, <1>4, OwnersAreFinite DEF Graph
<1>6. /\ Outside[n] = Is(program, n) + Is(block, n) + Is(ast, n) + Occ(gathered, n) + Occ(later, n)
      /\ Occ(gathered, n) \in Nat /\ Occ(later, n) \in Nat
  BY <1>2, <1>4, OutsideIs DEF CountedBy
<1>7. Cardinality({i \in 1 .. 3 : <<program, block, ast>>[i] = n}) = Is(program, n) + Is(block, n) + Is(ast, n)
  BY <1>2, ThreeHolders DEF Typed
<1>8. References(n) = Cardinality(Owners(heap, n)) + (Is(program, n) + Is(block, n) + Is(ast, n))
                        + Occ(gathered, n) + Occ(later, n)
  BY <1>7 DEF References, Owners, Occ
<1>9. PICK x, y, z, u, v, o \in Nat :
        /\ x = Is(program, n) /\ y = Is(block, n) /\ z = Is(ast, n)
        /\ u = Occ(gathered, n) /\ v = Occ(later, n) /\ o = Cardinality(Owners(heap, n))
  <2>1. Is(program, n) \in Nat /\ Is(block, n) \in Nat /\ Is(ast, n) \in Nat
    BY DEF Is
  <2> QED
    BY <1>5, <1>6, <2>1
<1>10. heap[n].refs = o + (x + y + z + u + v) /\ References(n) = o + (x + y + z) + u + v
  BY <1>5, <1>6, <1>8, <1>9
<1>11. o + (x + y + z + u + v) = o + (x + y + z) + u + v
  OBVIOUS
<1> QED
  BY <1>10, <1>11

\* What is attached is in the trees of the invariant.
LEMMA AttachedIsInTrees ==
  ASSUME NEW T, NEW V, Holds(T, V)
  PROVE  Attached \subseteq T
<1>1. /\ Graph(heap, Standing, Outside) /\ Forest(heap, T, Standing, MovedOnes)
  BY DEF Holds, Sound
<1>2. /\ IsHeap(heap) /\ Whole(heap) /\ Standing \subseteq Live(heap) /\ Standing \subseteq T
      /\ Closed(heap, T) /\ T \in SUBSET Nodes(heap)
  BY <1>1, HeapFacts DEF Graph, Forest, Closed
<1>3. SUFFICES ASSUME NEW n \in Roots PROVE Below(heap, n) \subseteq T
  BY DEF Attached
<1>4. n \in Live(heap) \cup {NULL} /\ n \in T \cup {NULL}
  BY <1>2 DEF Standing
<1> QED
  BY <1>2, <1>4, BelowFacts

\* the trees are well-formed,
LEMMA WellFormedTrees ==
  ASSUME IInv
  PROVE  TreesAreWellFormed
<1>1. PICK T, V : Holds(T, V)
  BY DEF IInv
<1>2. Attached \subseteq T
  BY <1>1, AttachedIsInTrees
<1>3. Forest(heap, T, Standing, MovedOnes) /\ AllFit(heap, T)
  BY <1>1 DEF Holds, Sound
<1>4. ChildrenKnowTheirParent
  <2>1. SUFFICES ASSUME phase # "returned", NEW n \in Attached
                 PROVE  heap[n].live /\ \A m \in Children(heap, n) : heap[m].live /\ heap[m].parent = n
    BY DEF ChildrenKnowTheirParent
  <2>2. MovedOnes = {} /\ n \in T
    BY <1>2, <2>1 DEF MovedOnes
  <2>3. T \subseteq Live(heap) /\ Children(heap, n) \subseteq T
    BY <1>3, <2>2 DEF Forest
  <2>4. \A m \in Children(heap, n) : heap[m].parent = n
    BY <1>3, <2>2 DEF Forest
  <2> QED
    BY <2>2, <2>3, <2>4 DEF Live
<1>5. ChildrenFitTheirClass
  BY <1>2, <1>3, FittingIsEnough DEF ChildrenFitTheirClass, AllFit
<1> QED
  BY <1>4, <1>5 DEF TreesAreWellFormed

\* nothing is lost,
LEMMA NothingLost ==
  ASSUME IInv
  PROVE  NothingIsLost
<1>1. PICK T, V : Holds(T, V)
  BY DEF IInv
<1>2. Graph(heap, Standing, Outside) /\ Typed
  BY <1>1 DEF Holds, Sound
<1>3. SUFFICES ASSUME NEW n \in Live(heap)
               PROVE  n \in Attached \cup PassedOver \cup ToRelease
  BY DEF NothingIsLost
<1>4. PICK r \in Live(heap) : (r \in Standing \/ Outside[r] # 0) /\ n \in Below(heap, r)
  BY <1>2, Reachable
<1>5. r \in Nat /\ r # NULL
  BY <1>2, <1>4, HeapFacts DEF Graph
<1>6. CASE r \in Roots
  BY <1>4, <1>6 DEF Attached
<1>7. CASE r \in Entries(gathered)
  BY <1>4, <1>7 DEF PassedOver, Entries
<1>8. CASE r \in Entries(later)
  BY <1>4, <1>8 DEF ToRelease, Entries
<1>9. ASSUME r \notin Roots, r \notin Entries(gathered), r \notin Entries(later) PROVE FALSE
  <2>1. Outside[r] = Is(program, r) + Is(block, r) + Is(ast, r) + Occ(gathered, r) + Occ(later, r)
    BY <1>2, <1>5, OutsideIs DEF CountedBy
  <2>2. Is(program, r) = 0 /\ Is(block, r) = 0 /\ Is(ast, r) = 0
    BY <1>9 DEF Roots, Is
  <2>3. Occ(gathered, r) = 0 /\ Occ(later, r) = 0
    BY <1>2, <1>9, OccNone DEF Typed
  <2>4. Outside[r] = 0 + 0 + 0 + 0 + 0
    BY <2>1, <2>2, <2>3
  <2>5. r \notin Standing
    BY <1>9 DEF Standing
  <2> QED
    BY <1>4, <2>4, <2>5
<1> QED
  BY <1>6, <1>7, <1>8, <1>9

\* nothing that was used was not there,
LEMMA NothingMissing ==
  ASSUME IInv
  PROVE  fault = "none"
BY DEF IInv, Holds, Typed

\* Once main is over ast_ is gone.
AstIsGone == phase = "gone" => ast = NULL
LEMMA AstStaysGone ==
  ASSUME AstIsGone, [Next]_vars
  PROVE  AstIsGone'
<1>1. CASE ReleaseReference
  BY <1>1 DEF ReleaseReference, AstIsGone
<1>2. CASE Reduce
  BY <1>2 DEF Reduce, ReduceNew, ReduceNull, ReduceAppend, ReduceOneLine, ReduceElseIf, ReduceVarDecl,
       ReduceInitializer, ReduceIncDec, GiveProgram, Reducing, Reduced, In, AstIsGone
<1>3. CASE AcceptInput \/ ReturnProgram \/ FileNotOpened \/ SyntaxError \/ DiscardValue \/ GiveUp
  BY <1>3 DEF AcceptInput, ReturnProgram, FileNotOpened, SyntaxError, DiscardValue, GiveUp, In, AstIsGone
<1>4. CASE KeepFirst \/ MergeStatement \/ MergeEnds
  BY <1>4 DEF KeepFirst, MergeStatement, MergeEnds, NextFile, In, AstIsGone
<1>5. CASE ExecuteGroup \/ GroupEnds \/ EnforceSingleDefaultCase \/ ValidateUDTFieldNames
  BY <1>5 DEF ExecuteGroup, GroupEnds, EnforceSingleDefaultCase, ValidateUDTFieldNames, Executing,
       Returns, In, AstIsGone, parser, pass
<1>6. CASE Eliminate
  BY <1>6 DEF Eliminate, StartGathering, VisitNode, StartRewriting, SwapOperator, RefuseOperator,
       DropGatherer, AtOperator, Rewritten, Executing, In, AstIsGone
<1>7. CASE Exits
  BY <1>7 DEF Exits, AstIsGone
<1>8. CASE UNCHANGED vars
  BY <1>8 DEF vars, AstIsGone
<1> QED
  BY <1>1, <1>2, <1>3, <1>4, <1>5, <1>6, <1>7, <1>8 DEF Next, Parse, Process, Terminated

\* When main is over and everything has been released no node is alive: none is
\* leaked (the counterpart of the memory that ~Driver, ~Reference and the
\* %destructor give back).
NothingIsLeft == phase = "gone" /\ later = <<>> => Live(heap) = {}
LEMMA NothingAfterwards ==
  ASSUME IInv, AstIsGone
  PROVE  NothingIsLeft
<1>1. PICK T, V : Holds(T, V)
  BY DEF IInv
<1>2. SUFFICES ASSUME phase = "gone", later = <<>> PROVE Live(heap) = {}
  BY DEF NothingIsLeft
<1>3. stack = <<>> /\ program = NULL /\ block = NULL /\ gathered = <<>> /\ ast = NULL
  BY <1>1, <1>2 DEF Holds, Stages, AstIsGone
<1>4. DOMAIN stack = {} /\ DOMAIN gathered = {} /\ DOMAIN later = {}
  <2>1. DOMAIN <<>> = {}
    OBVIOUS
  <2> QED
    BY <1>2, <1>3, <2>1
<1>5. Roots = {NULL}
  BY <1>3, <1>4 DEF Roots
<1>6. Below(heap, NULL) = {}
  <2>1. IsHeap(heap) /\ Whole(heap)
    BY <1>1, FactsAre DEF Facts
  <2>2. Closed(heap, {}) /\ {} \in SUBSET Nodes(heap)
    BY DEF Closed
  <2> QED
    BY <2>1, <2>2, BelowFacts
<1>7. Attached = {}
  BY <1>5, <1>6 DEF Attached
<1>8. PassedOver = {} /\ ToRelease = {}
  BY <1>4 DEF PassedOver, ToRelease
<1>9. Live(heap) \subseteq Attached \cup PassedOver \cup ToRelease
  BY NothingLost DEF NothingIsLost
<1> QED
  BY <1>7, <1>8, <1>9

-----------------------------------------------------------------------------
(* What the rewriting makes of the tree, compared with what it was.        *)

Parsed == Below(before, ast)
Operators == {n \in Parsed : IsBitwiseNot(before, n)}
SideEffects == \E op \in Operators : ~IsPure(before, before[op].kids[2])

\* A process that fails is the last one.
Failing ==
  /\ phase \in {"parse", "accepted", "discard", "returned", "parsed", "gather"} => failed = "none"
  /\ phase = "group" /\ group # <<>> => failed = "none"
\* What is known of the heap as it was.
Snapshot ==
  phase \in {"gather", "rewrite"} =>
    /\ IsHeap(before) /\ Whole(before) /\ Acyclic(before) /\ AllFit(before, Live(before))
    /\ ast \in Live(before) /\ before[ast].class = "Block"
    /\ Nodes(before) \subseteq Nodes(heap) /\ Live(before) \subseteq Live(heap)
\* While operators are gathered nothing changes; W are the nodes visited.
Unchanged(h) ==
  /\ Nodes(h) = Nodes(before)
  /\ \A n \in Nodes(before) :
       h[n].class = before[n].class /\ h[n].tag = before[n].tag /\ h[n].kids = before[n].kids
Looking(W) ==
  phase = "gather" =>
    /\ swapped = <<>> /\ Unchanged(heap)
    /\ W \subseteq Parsed /\ Entries(todo) \subseteq Parsed \cup {NULL}
    /\ ast \in W \cup Entries(todo)
    /\ \A n \in W : Children(before, n) \subseteq W \cup Entries(todo)
    /\ \A n \in W : IsBitwiseNot(before, n) => n \in Entries(gathered)
    /\ Entries(gathered) \subseteq Operators
\* Afterwards every node of the tree is as it was but for the operators below it.
Compared ==
  phase = "rewrite" =>
    /\ Entries(gathered) = Operators
    /\ DOMAIN swapped = Replaced
    /\ \A op \in Replaced :
         /\ swapped[op] \in Live(heap) \ Nodes(before)
         /\ heap[swapped[op]].class = "UnaryOp" /\ heap[swapped[op]].tag = "not"
         /\ heap[swapped[op]].kids = <<Image(before[op].kids[1])>>
         /\ IsPure(before, before[op].kids[2])
    /\ \A n \in Parsed \ Replaced :
         /\ heap[n].class = before[n].class /\ heap[n].tag = before[n].tag
         /\ heap[n].kids = [i \in DOMAIN before[n].kids |-> Image(before[n].kids[i])]
    /\ failed = "none" \/ (failed = "eliminate" /\ SideEffects)
Faithful(W) == Failing /\ Snapshot /\ Looking(W) /\ Compared
Compares == \E W : Faithful(W)

\* The tree as it was.
WasTree ==
  /\ Parsed \subseteq Live(before) /\ Parsed \subseteq Nodes(before) /\ Closed(before, Parsed)
  /\ ast \in Parsed /\ ast \notin Operators /\ NULL \notin Nodes(before)
  /\ \A S \in SUBSET Nodes(before) : ast \in S /\ Closed(before, S) => Parsed \subseteq S
  /\ \A n \in Parsed : /\ before[n].kids \in Seq(Nat) /\ Entries(before[n].kids) \subseteq Parsed \cup {NULL}
                       /\ Children(before, n) = Entries(before[n].kids) \ {NULL}
  /\ \A op \in Operators :
       /\ op \in Parsed /\ before[op].class = "BinaryOp"
       /\ before[op].kids[1] \in Parsed /\ before[op].kids[2] \in Parsed
       /\ Children(before, op) = {before[op].kids[1], before[op].kids[2]}
       /\ DOMAIN before[op].kids = {1, 2}
\* The heap before was as sound as it is now.
LEMMA WasTreeIs ==
  ASSUME Snapshot, phase \in {"gather", "rewrite"}
  PROVE  WasTree
<1>1. /\ IsHeap(before) /\ Whole(before) /\ Acyclic(before) /\ AllFit(before, Live(before))
      /\ ast \in Live(before) /\ before[ast].class = "Block"
  BY DEF Snapshot
<1>2. Live(before) \subseteq Nodes(before) /\ NULL \notin Nodes(before)
  BY <1>1, HeapFacts
<1>3. /\ Parsed \subseteq Live(before) /\ Closed(before, Parsed) /\ ast \in Parsed
      /\ \A S \in SUBSET Nodes(before) : ast \in S /\ Closed(before, S) => Parsed \subseteq S
  BY <1>1, <1>2, BelowFacts DEF Parsed
<1>4. ast \notin Operators
  BY <1>1 DEF Operators, IsBitwiseNot
<1>5. ASSUME NEW n \in Parsed
      PROVE  /\ before[n].kids \in Seq(Nat) /\ Entries(before[n].kids) \subseteq Parsed \cup {NULL}
             /\ Children(before, n) = Entries(before[n].kids) \ {NULL}
  <2>1. before[n].kids \in Seq(Nat)
    BY <1>1, <1>2, <1>3, HeapFacts
  <2>2. Children(before, n) = Entries(before[n].kids) \ {NULL}
    BY DEF Children, Slots, Entries
  <2>3. Children(before, n) \subseteq Parsed
    BY <1>3 DEF Closed
  <2> QED
    BY <2>1, <2>2, <2>3
<1>6. ASSUME NEW op \in Operators
      PROVE  /\ op \in Parsed /\ before[op].class = "BinaryOp"
             /\ before[op].kids[1] \in Parsed /\ before[op].kids[2] \in Parsed
             /\ Children(before, op) = {before[op].kids[1], before[op].kids[2]}
             /\ DOMAIN before[op].kids = {1, 2}
  <2>1. op \in Parsed /\ before[op].class = "BinaryOp"
    BY DEF Operators, IsBitwiseNot
  <2>2. op \in Live(before) /\ Fits(before, op)
    BY <1>1, <1>3, <2>1 DEF AllFit
  <2>3. /\ Children(before, op) = {before[op].kids[1], before[op].kids[2]}
        /\ DOMAIN before[op].kids = {1, 2}
    BY <1>1, <2>1, <2>2, Operands DEF Slots
  <2>4. Children(before, op) \subseteq Parsed
    BY <1>3, <2>1 DEF Closed
  <2> QED
    BY <2>1, <2>3, <2>4
<1> QED
  BY <1>2, <1>3, <1>4, <1>5, <1>6 DEF WasTree

\* The tree as it is: that of the images.
Images ==
  /\ Replaced \subseteq Operators
  /\ \A n \in Nodes(before) : Image(n) # NULL
  /\ \A n \in Parsed : Image(n) \in Live(heap)
  /\ \A n \in Parsed \ Replaced :
       /\ Image(n) = n /\ heap[n].class = before[n].class
       /\ Children(heap, n) = {Image(m) : m \in Children(before, n)}
  /\ \A op \in Replaced :
       /\ heap[Image(op)].class = "UnaryOp" /\ Image(op) = swapped[op]
       /\ Children(heap, Image(op)) = {Image(before[op].kids[1])}
       /\ IsPure(before, before[op].kids[2])
LEMMA ImagesAre ==
  ASSUME Snapshot, Compared, phase = "rewrite", IsHeap(heap)
  PROVE  Images
<1>1. WasTree
  BY WasTreeIs
<1>2. /\ Entries(gathered) = Operators /\ DOMAIN swapped = Replaced
      /\ \A op \in Replaced :
         /\ swapped[op] \in Live(heap) \ Nodes(before)
         /\ heap[swapped[op]].class = "UnaryOp"
         /\ heap[swapped[op]].kids = <<Image(before[op].kids[1])>>
         /\ IsPure(before, before[op].kids[2])
      /\ \A n \in Parsed \ Replaced :
         /\ heap[n].class = before[n].class
         /\ heap[n].kids = [i \in DOMAIN before[n].kids |-> Image(before[n].kids[i])]
  BY DEF Compared
<1>3. Replaced \subseteq Operators /\ Replaced \subseteq Nodes(before) /\ Operators \subseteq Parsed
  <2>1. Replaced \subseteq Entries(gathered)
    BY DEF Replaced, Entries
  <2> QED
    BY <1>1, <1>2, <2>1 DEF WasTree
<1>4. NULL \notin Nodes(heap) /\ Live(heap) \subseteq Nodes(heap) /\ Live(before) \subseteq Live(heap)
  BY HeapFacts DEF Snapshot
<1>5. ASSUME NEW n \in Nodes(before) PROVE Image(n) # NULL
  BY <1>1, <1>2, <1>4 DEF Image, WasTree
<1>6. ASSUME NEW n \in Parsed PROVE Image(n) \in Live(heap)
  BY <1>1, <1>2, <1>4 DEF Image, WasTree
<1>7. Image(NULL) = NULL
  BY <1>1, <1>2, <1>3 DEF Image, WasTree
<1>8. ASSUME NEW n \in Parsed \ Replaced
      PROVE  /\ Image(n) = n /\ heap[n].class = before[n].class
             /\ Children(heap, n) = {Image(m) : m \in Children(before, n)}
  <2>1. Image(n) = n
    BY <1>2 DEF Image
  <2>2. PICK k \in Seq(Nat) : k = before[n].kids
    BY <1>1 DEF WasTree
  <2>3. Children(before, n) = {k[i] : i \in DOMAIN k} \ {NULL} /\ Children(before, n) \subseteq Nodes(before)
    <3>1. Children(before, n) = {k[i] : i \in DOMAIN k} \ {NULL}
      BY <2>2 DEF Children, Slots
    <3>2. Children(before, n) \subseteq Parsed /\ Parsed \subseteq Nodes(before)
      BY <1>1 DEF WasTree, Closed
    <3> QED
      BY <3>1, <3>2
  <2>4. Children(heap, n) = {Image(k[i]) : i \in DOMAIN k} \ {NULL}
    <3>1. heap[n].kids = [i \in DOMAIN k |-> Image(k[i])]
      BY <1>2, <2>2
    <3>2. PICK s : s = [i \in DOMAIN k |-> Image(k[i])]
      OBVIOUS
    <3>3. Children(heap, n) = {s[i] : i \in DOMAIN s} \ {NULL}
      BY <3>1, <3>2 DEF Children, Slots
    <3>4. DOMAIN s = DOMAIN k /\ \A i \in DOMAIN k : s[i] = Image(k[i])
      BY <3>2
    <3> QED
      BY <3>3, <3>4
  <2>5. ASSUME NEW x \in Children(heap, n) PROVE x \in {Image(m) : m \in Children(before, n)}
    <3>1. PICK i \in DOMAIN k : x = Image(k[i]) /\ x # NULL
      BY <2>4
    <3>2. k[i] # NULL
      BY <1>7, <3>1
    <3>3. k[i] \in Children(before, n)
      BY <2>3, <3>2
    <3> QED
      BY <3>1, <3>3
  <2>6. ASSUME NEW m \in Children(before, n) PROVE Image(m) \in Children(heap, n)
    <3>1. PICK i \in DOMAIN k : m = k[i]
      BY <2>3
    <3>2. Image(m) # NULL
      BY <1>5, <2>3
    <3> QED
      BY <2>4, <3>1, <3>2
  <2>7. PICK S : S = {Image(m) : m \in Children(before, n)}
    OBVIOUS
  <2>8. \A x : x \in Children(heap, n) <=> x \in S
    BY <2>5, <2>6, <2>7
  <2>9. Children(heap, n) = S
    BY <2>8
  <2>10. heap[n].class = before[n].class
    BY <1>2
  <2> QED
    BY <2>1, <2>7, <2>9, <2>10
<1>9. ASSUME NEW op \in Replaced
      PROVE  /\ heap[Image(op)].class = "UnaryOp" /\ Image(op) = swapped[op]
             /\ Children(heap, Image(op)) = {Image(before[op].kids[1])}
             /\ IsPure(before, before[op].kids[2])
  <2>1. Image(op) = swapped[op]
    BY <1>2 DEF Image
  <2>2. PICK x : x = Image(before[op].kids[1])
    OBVIOUS
  <2>3. x # NULL
    BY <1>1, <1>3, <1>5, <2>2 DEF WasTree
  <2>4. heap[swapped[op]].kids = <<x>>
    BY <1>2, <2>2
  <2>5. Children(heap, swapped[op]) = {x}
    BY <2>3, <2>4 DEF Children, Slots
  <2> QED
    BY <1>2, <2>1, <2>2, <2>5
<1> QED
  BY <1>3, <1>5, <1>6, <1>8, <1>9 DEF Images

\* An operand has side effects now if it had any before, whatever has been replaced in it.
LEMMA PurityKept ==
  ASSUME Snapshot, WasTree, Images, phase = "rewrite", IsHeap(heap), Whole(heap), NEW d \in Parsed
  PROVE  IsPure(heap, Image(d)) <=> IsPure(before, d)
<1>1. IsHeap(before) /\ Whole(before) /\ Live(before) \subseteq Nodes(before) /\ Live(heap) \subseteq Nodes(heap)
  BY HeapFacts DEF Snapshot
<1>2. PICK D : D = Below(before, d)
  OBVIOUS
<1>3. d \in Live(before) \cup {NULL} /\ d # NULL /\ d \in Nodes(before)
  BY DEF WasTree
<1>4. d \in D /\ Closed(before, D) /\ D \subseteq Parsed
  <2>1. d \in D /\ Closed(before, D)
    BY <1>1, <1>2, <1>3, BelowFacts
  <2>2. Parsed \in SUBSET Nodes(before) /\ d \in Parsed \cup {NULL} /\ Closed(before, Parsed)
    BY DEF WasTree
  <2>3. D \subseteq Parsed
    BY <1>1, <1>2, <1>3, <2>2, BelowFacts
  <2> QED
    BY <2>1, <2>3
<1>5. PICK x : x = Image(d)
  OBVIOUS
<1>6. x \in Live(heap) \cup {NULL} /\ x # NULL /\ x \in Nodes(heap)
  BY <1>1, <1>3, <1>5 DEF Images
<1>7. PICK E : E = Below(heap, x)
  OBVIOUS
<1>8. x \in E /\ Closed(heap, E)
  BY <1>6, <1>7, BelowFacts
<1>9. "UnaryOp" \in NoSideEffects /\ "BinaryOp" \in NoSideEffects
  BY DEF NoSideEffects
<1>10. ASSUME \A n \in D : before[n].class \in NoSideEffects
       PROVE  \A z \in E : heap[z].class \in NoSideEffects
  <2>1. PICK Z : Z = {Image(n) : n \in D}
    OBVIOUS
  <2>2. Z \in SUBSET Nodes(heap) /\ x \in Z \cup {NULL}
    BY <1>1, <1>4, <1>5, <2>1 DEF Images
  <2>3. ASSUME NEW n \in D PROVE Children(heap, Image(n)) \subseteq Z /\ heap[Image(n)].class \in NoSideEffects
    <3>1. Children(before, n) \subseteq D
      BY <1>4 DEF Closed
    <3>2. CASE n \in Replaced
      <4>1. before[n].kids[1] \in D
        BY <3>1, <3>2 DEF Images, WasTree
      <4> QED
        BY <1>9, <2>1, <3>2, <4>1 DEF Images
    <3>3. CASE n \notin Replaced
      <4>1. Image(n) = n /\ heap[n].class = before[n].class
            /\ Children(heap, n) = {Image(m) : m \in Children(before, n)}
        BY <1>4, <3>3 DEF Images
      <4> QED
        BY <1>10, <2>1, <3>1, <4>1
    <3> QED
      BY <3>2, <3>3
  <2>4. Closed(heap, Z)
    BY <2>1, <2>3 DEF Closed
  <2>5. E \subseteq Z
    BY <1>6, <1>7, <2>2, <2>4, BelowFacts
  <2> QED
    BY <2>1, <2>3, <2>5
<1>11. ASSUME \A z \in E : heap[z].class \in NoSideEffects
       PROVE  \A n \in D : before[n].class \in NoSideEffects
  <2>1. PICK Gone : Gone = UNION {Below(before, before[o].kids[2]) : o \in Replaced}
    OBVIOUS
  <2>2. ASSUME NEW o \in Replaced
        PROVE  /\ Below(before, before[o].kids[2]) \subseteq Live(before)
               /\ Closed(before, Below(before, before[o].kids[2]))
               /\ before[o].kids[2] \in Below(before, before[o].kids[2])
               /\ \A n \in Below(before, before[o].kids[2]) : before[n].class \in NoSideEffects
    <3>1. PICK k : k = before[o].kids[2]
      OBVIOUS
    <3>2. k \in Live(before) \cup {NULL} /\ k # NULL
      BY <3>1 DEF Images, WasTree
    <3>3. Below(before, k) \subseteq Live(before) /\ Closed(before, Below(before, k)) /\ k \in Below(before, k)
      BY <1>1, <3>2, BelowFacts
    <3>4. IsPure(before, k)
      BY <3>1 DEF Images
    <3> QED
      BY <3>1, <3>3, <3>4 DEF IsPure
  <2>3. PICK X : X = {n \in Parsed : Image(n) \in E} \cup Gone
    OBVIOUS
  <2>4. X \in SUBSET Nodes(before) /\ d \in X \cup {NULL}
    BY <1>1, <1>5, <1>8, <2>1, <2>2, <2>3 DEF WasTree
  <2>5. ASSUME NEW n \in X PROVE Children(before, n) \subseteq X /\ before[n].class \in NoSideEffects
    <3>1. CASE n \in Gone
      <4>1. PICK o \in Replaced : n \in Below(before, before[o].kids[2])
        BY <2>1, <3>1
      <4>2. Children(before, n) \subseteq Below(before, before[o].kids[2]) /\ before[n].class \in NoSideEffects
        BY <2>2, <4>1 DEF Closed
      <4> QED
        BY <2>1, <2>3, <4>2
    <3>2. CASE n \in Parsed /\ Image(n) \in E /\ n \in Replaced
      <4>1. /\ Children(heap, Image(n)) = {Image(before[n].kids[1])} /\ n \in Operators
        BY <3>2 DEF Images
      <4>2. /\ before[n].class = "BinaryOp" /\ before[n].kids[1] \in Parsed
            /\ Children(before, n) = {before[n].kids[1], before[n].kids[2]}
        BY <4>1 DEF WasTree
      <4>3. Image(before[n].kids[1]) \in E
        BY <1>8, <3>2, <4>1 DEF Closed
      <4>4. before[n].kids[1] \in X
        BY <2>3, <4>2, <4>3
      <4>5. before[n].kids[2] \in X
        BY <2>1, <2>2, <2>3, <3>2
      <4> QED
        BY <1>9, <4>2, <4>4, <4>5
    <3>3. CASE n \in Parsed /\ Image(n) \in E /\ n \notin Replaced
      <4>1. /\ Image(n) = n /\ heap[n].class = before[n].class
            /\ Children(heap, n) = {Image(m) : m \in Children(before, n)}
        BY <3>3 DEF Images
      <4>2. Children(before, n) \subseteq Parsed
        BY <3>3 DEF WasTree, Closed
      <4>3. Children(heap, n) \subseteq E
        BY <1>8, <3>3, <4>1 DEF Closed
      <4> QED
        BY <1>11, <2>3, <3>3, <4>1, <4>2, <4>3
    <3> QED
      BY <2>3, <3>1, <3>2, <3>3
  <2>6. Closed(before, X)
    BY <2>5 DEF Closed
  <2>7. D \subseteq X
    BY <1>1, <1>2, <1>3, <2>4, <2>6, BelowFacts
  <2> QED
    BY <2>5, <2>7
<1> QED
  BY <1>2, <1>5, <1>7, <1>10, <1>11 DEF IsPure

\* In the other phases there is nothing to compare.
LEMMA NothingCompared ==
  ASSUME phase' \notin {"gather", "rewrite"}, Failing'
  PROVE  Compares'
<1>1. Faithful({})'
  BY DEF Faithful, Snapshot, Looking, Compared
<1> QED
  BY <1>1 DEF Compares

\* The pass begins with the tree there is.
LEMMA ComparingStarts ==
  ASSUME NEW T, NEW V, Holds(T, V), Failing, StartGathering
  PROVE  Compares'
<1>1. /\ phase = "group" /\ later = <<>> /\ phase' = "gather" /\ todo' = <<ast>> /\ ast' = ast
      /\ group # <<>> /\ failed' = failed /\ gathered' = gathered
      /\ before' = heap /\ heap' = heap /\ swapped' = <<>>
  BY DEF StartGathering, Executing, In
<1>2. Facts(T) /\ Stages /\ Typed /\ Sound(heap, T, Standing, Outside, MovedOnes)
  BY FactsAre DEF Holds
<1>3. Live(heap) = T
  BY <1>1, AllInTree
<1>4. IsHeap(heap) /\ Whole(heap) /\ Acyclic(heap) /\ AllFit(heap, Live(heap))
  BY <1>2, <1>3 DEF Sound, Graph
<1>5. ast # NULL /\ ast \in Live(heap) /\ heap[ast].class = "Block" /\ gathered = <<>>
  BY <1>1, <1>2 DEF Stages, Facts
<1>6. ast \in Below(heap, ast)
  BY <1>4, <1>5, BelowFacts
<1>7. Entries(<<ast>>) = {ast} /\ Entries(<<>>) = {}
  BY DEF Entries
<1>8. Failing'
  BY <1>1 DEF Failing
<1>9. Snapshot'
  BY <1>1, <1>4, <1>5 DEF Snapshot
<1>10. Looking({})'
  BY <1>1, <1>5, <1>6, <1>7 DEF Looking, Unchanged, Parsed, Operators
<1>11. Compared'
  BY <1>1 DEF Compared
<1>12. Faithful({})'
  BY <1>8, <1>9, <1>10, <1>11 DEF Faithful
<1> QED
  BY <1>12 DEF Compares

\* One more node is visited, and gathered if it is such an operator.
LEMMA ComparingVisits ==
  ASSUME NEW T, NEW V, Holds(T, V), NEW W, Faithful(W), VisitNode
  PROVE  Compares'
<1>1. /\ phase = "gather" /\ todo # <<>> /\ phase' = phase /\ ast' = ast /\ failed' = failed
      /\ before' = before /\ swapped' = swapped
  BY DEF VisitNode, In, parser
<1>2. Facts(T) /\ Typed /\ Snapshot /\ Looking(W) /\ Failing
  BY FactsAre DEF Holds, Faithful
<1>3. WasTree
  BY <1>1, <1>2, WasTreeIs
<1>4. PICK n, r : n = Head(todo) /\ r = Tail(todo)
  OBVIOUS
<1>5. HeadTaken(todo, n, r)
  BY <1>1, <1>2, <1>4, TakingHead DEF Typed
<1>6. n \in Nat /\ r \in Seq(Nat) /\ Entries(todo) = Entries(r) \cup {n}
  BY <1>5 DEF HeadTaken
<1>7. /\ swapped = <<>> /\ Unchanged(heap)
      /\ W \subseteq Parsed /\ Entries(todo) \subseteq Parsed \cup {NULL}
      /\ ast \in W \cup Entries(todo)
      /\ \A m \in W : Children(before, m) \subseteq W \cup Entries(todo)
      /\ \A m \in W : IsBitwiseNot(before, m) => m \in Entries(gathered)
      /\ Entries(gathered) \subseteq Operators
  BY <1>1, <1>2 DEF Looking
<1>8. Failing' /\ Compared'
  BY <1>1, <1>2 DEF Failing, Compared
<1>9. Parsed' = Parsed /\ Operators' = Operators
  BY <1>1 DEF Parsed, Operators
<1>10. NULL \notin Parsed
  BY <1>3 DEF WasTree
<1>11. CASE n = NULL
  <2>1. todo' = r
    <3>1. todo' = <<>> \o r
      BY <1>4, <1>11 DEF VisitNode
    <3>2. <<>> \o r = r
      BY <1>6, ConcatEmptySeq
    <3> QED
      BY <3>1, <3>2
  <2>2. heap' = heap /\ gathered' = gathered
    BY <1>4, <1>11 DEF VisitNode
  <2>3. Snapshot'
    BY <1>1, <1>2, <2>2 DEF Snapshot
  <2>4. \A m \in W : Children(before, m) \subseteq W \cup Entries(r)
    BY <1>6, <1>7, <1>11 DEF Children
  <2>5. ast \in W \cup Entries(r)
    BY <1>3, <1>6, <1>7, <1>10, <1>11 DEF WasTree
  <2>6. Looking(W)'
    BY <1>1, <1>6, <1>7, <1>9, <2>1, <2>2, <2>4, <2>5 DEF Looking, Unchanged
  <2>7. Faithful(W)'
    BY <1>8, <2>3, <2>6 DEF Faithful
  <2> QED
    BY <2>7 DEF Compares
<1>12. CASE n # NULL
  <2>1. n \in Parsed /\ n \in Nodes(before) /\ n \in Nodes(heap)
    BY <1>3, <1>6, <1>7, <1>12 DEF WasTree, Unchanged
  <2>2. PICK k \in Seq(Nat) : k = before[n].kids
    BY <1>3, <2>1 DEF WasTree
  <2>3. todo' = k \o r
    BY <1>4, <1>7, <1>12, <2>1, <2>2 DEF VisitNode, Unchanged
  <2>4. Joined(k, r, k \o r)
    BY <1>6, Joining
  <2>5. Entries(todo') = Entries(k) \cup Entries(r)
    BY <2>3, <2>4 DEF Joined
  <2>6. Entries(k) \subseteq Parsed \cup {NULL} /\ Children(before, n) = Entries(k) \ {NULL}
    BY <1>3, <2>1, <2>2 DEF WasTree
  <2>7. IsBitwiseNot(heap, n) <=> IsBitwiseNot(before, n)
    BY <1>7, <2>1 DEF Unchanged, IsBitwiseNot
  <2>8. /\ heap' = heap \/ heap' = AddRef(heap, n)
        /\ Entries(gathered') = Entries(gathered) \cup (IF IsBitwiseNot(before, n) THEN {n} ELSE {})
    <3>1. CASE IsBitwiseNot(before, n)
      <4>1. heap' = AddRef(heap, n) /\ gathered' = Append(gathered, n)
        BY <1>4, <1>12, <2>7, <3>1 DEF VisitNode, Held
      <4>2. gathered \in Seq(Nat) /\ <<n>> \in Seq(Nat)
        BY <1>2, <1>6 DEF Typed
      <4>3. Append(gathered, n) = gathered \o <<n>>
        BY <1>6, <4>2
      <4>4. Joined(gathered, <<n>>, gathered \o <<n>>)
        BY <4>2, Joining
      <4>5. Entries(<<n>>) = {n}
        BY DEF Entries
      <4>6. Entries(gathered') = Entries(gathered) \cup {n}
        BY <4>1, <4>3, <4>4, <4>5 DEF Joined
      <4> QED
        BY <3>1, <4>1, <4>6
    <3>2. CASE ~IsBitwiseNot(before, n)
      <4>1. heap' = heap /\ gathered' = gathered
        BY <1>4, <1>12, <2>7, <3>2 DEF VisitNode
      <4> QED
        BY <3>2, <4>1
    <3> QED
      BY <3>1, <3>2
  <2>9. Unchanged(heap') /\ Nodes(heap') = Nodes(heap) /\ Live(heap') = Live(heap)
    <3>1. CASE heap' = heap
      BY <1>7, <3>1
    <3>2. CASE heap' = AddRef(heap, n)
      <4>1. PICK g : g = AddRef(heap, n)
        OBVIOUS
      <4>2. /\ SameShape(heap, g)
            /\ \A m \in Nodes(heap) : g[m].class = heap[m].class /\ g[m].tag = heap[m].tag
        BY <1>2, <2>1, <4>1, AddRefShape DEF Facts
      <4>3. Nodes(g) = Nodes(heap) /\ Live(g) = Live(heap)
        BY <1>2, <4>2, ShapeKept DEF Facts
      <4>4. Unchanged(g)
        BY <1>7, <4>2, <4>3 DEF Unchanged, SameShape
      <4> QED
        BY <3>2, <4>1, <4>3, <4>4
    <3> QED
      BY <2>8, <3>1, <3>2
  <2>10. Snapshot'
    BY <1>1, <1>2, <2>9 DEF Snapshot
  <2>11. PICK W2 : W2 = W \cup {n}
    OBVIOUS
  <2>12. ASSUME NEW m \in W2 PROVE Children(before, m) \subseteq W2 \cup Entries(todo')
    <3>1. CASE m = n
      BY <2>5, <2>6, <3>1
    <3>2. CASE m \in W
      BY <1>6, <1>7, <2>5, <2>11, <3>2
    <3> QED
      BY <2>11, <3>1, <3>2
  <2>13. ast \in W2 \cup Entries(todo') /\ W2 \subseteq Parsed /\ Entries(todo') \subseteq Parsed \cup {NULL}
    BY <1>6, <1>7, <2>1, <2>5, <2>6, <2>11
  <2>14. \A m \in W2 : IsBitwiseNot(before, m) => m \in Entries(gathered')
    BY <1>7, <2>8, <2>11
  <2>15. Entries(gathered') \subseteq Operators
    BY <1>7, <2>1, <2>8 DEF Operators
  <2>16. Looking(W2)'
    BY <1>1, <1>7, <1>9, <2>9, <2>12, <2>13, <2>14, <2>15 DEF Looking, Unchanged
  <2>17. Faithful(W2)'
    BY <1>8, <2>10, <2>16 DEF Faithful
  <2> QED
    BY <2>17 DEF Compares
<1> QED
  BY <1>11, <1>12

\* When everything has been visited, all operators have been gathered.
LEMMA ComparingTurns ==
  ASSUME NEW T, NEW V, Holds(T, V), NEW W, Faithful(W), StartRewriting
  PROVE  Compares'
<1>1. /\ phase = "gather" /\ todo = <<>> /\ phase' = "rewrite" /\ ast' = ast /\ failed' = failed
      /\ before' = before /\ swapped' = swapped /\ heap' = heap /\ gathered' = gathered /\ next' = next
  BY DEF StartRewriting, In, parser, pass
<1>2. Typed /\ Gathering(V) /\ Snapshot /\ Looking(W) /\ Failing
  BY DEF Holds, Faithful
<1>3. WasTree
  BY <1>1, <1>2, WasTreeIs
<1>4. Entries(todo) = {}
  BY <1>1 DEF Entries
<1>5. /\ swapped = <<>> /\ Unchanged(heap)
      /\ W \subseteq Parsed /\ ast \in W
      /\ \A m \in W : Children(before, m) \subseteq W
      /\ \A m \in W : IsBitwiseNot(before, m) => m \in Entries(gathered)
      /\ Entries(gathered) \subseteq Operators
  BY <1>1, <1>2, <1>4 DEF Looking
<1>6. Parsed \subseteq W
  <2>1. W \in SUBSET Nodes(before) /\ Closed(before, W)
    BY <1>3, <1>5 DEF WasTree, Closed
  <2> QED
    BY <1>3, <1>5, <2>1 DEF WasTree
<1>7. Entries(gathered) = Operators
  BY <1>5, <1>6 DEF Operators
<1>8. Replaced = {}
  <2>1. gathered \in Seq(Nat) /\ next = 1
    BY <1>1, <1>2 DEF Typed, Gathering
  <2>2. DOMAIN gathered = 1 .. Len(gathered) /\ Len(gathered) \in Nat
    BY <2>1
  <2>3. \A j \in DOMAIN gathered : ~(j < next)
    BY <2>1, <2>2
  <2> QED
    BY <2>3 DEF Replaced
<1>9. DOMAIN swapped = {}
  <2>1. DOMAIN <<>> = {}
    OBVIOUS
  <2> QED
    BY <1>5, <2>1
<1>10. \A x : Image(x) = x
  BY <1>9 DEF Image
<1>11. ASSUME NEW n \in Parsed
       PROVE  /\ heap[n].class = before[n].class /\ heap[n].tag = before[n].tag
              /\ heap[n].kids = [i \in DOMAIN before[n].kids |-> Image(before[n].kids[i])]
  <2>1. PICK k \in Seq(Nat) : k = before[n].kids
    BY <1>3 DEF WasTree
  <2>2. [i \in DOMAIN k |-> Image(k[i])] = [i \in DOMAIN k |-> k[i]]
    BY <1>10
  <2>3. k = [i \in DOMAIN k |-> k[i]]
    BY <2>1
  <2> QED
    BY <1>3, <1>5, <2>1, <2>2, <2>3 DEF Unchanged, WasTree
<1>12. failed = "none"
  BY <1>1, <1>2 DEF Failing
<1>13. /\ Parsed' = Parsed /\ Operators' = Operators /\ Replaced' = Replaced
       /\ \A x : Image(x)' = Image(x)
  BY <1>1 DEF Parsed, Operators, Replaced, Image
<1>14. Compared'
  BY <1>1, <1>7, <1>8, <1>9, <1>11, <1>12, <1>13 DEF Compared
<1>15. Failing' /\ Snapshot' /\ Looking(W)'
  BY <1>1, <1>2 DEF Failing, Snapshot, Looking
<1>16. Faithful(W)'
  BY <1>14, <1>15 DEF Faithful
<1> QED
  BY <1>16 DEF Compares

\* The operator that is next, before and now.
NextOperator(op, kid) ==
  /\ op \in Operators \ Replaced /\ op \in Parsed /\ op \in Nodes(before)
  /\ kid = Image(before[op].kids[1]) /\ heap[op].kids[1] = kid
  /\ heap[op].kids[2] = Image(before[op].kids[2])
  /\ IsPure(heap, heap[op].kids[2]) <=> IsPure(before, before[op].kids[2])
LEMMA NextOperatorIs ==
  ASSUME NEW T, NEW V, Holds(T, V), NEW W, Faithful(W), AtOperator,
         NEW op, op = gathered[next], NEW kid, kid = heap[op].kids[1]
  PROVE  NextOperator(op, kid)
<1>1. phase = "rewrite" /\ next <= Len(gathered)
  BY DEF AtOperator, In
<1>2. Facts(T) /\ Snapshot /\ Compared
  BY FactsAre DEF Holds, Faithful
<1>3. IsHeap(heap) /\ Whole(heap)
  BY <1>2 DEF Facts
<1>4. WasTree /\ Images
  BY <1>1, <1>2, <1>3, WasTreeIs, ImagesAre
<1>5. PICK p : p = heap[op].parent
  OBVIOUS
<1>6. op \in Entries(gathered) /\ op \notin Replaced
  BY <1>1, <1>5, NextToSwap DEF ToSwap
<1>7. /\ op \in Operators
      /\ heap[op].kids = [i \in DOMAIN before[op].kids |-> Image(before[op].kids[i])]
  <2>1. op \in Operators
    BY <1>1, <1>2, <1>6 DEF Compared
  <2> QED
    BY <1>1, <1>2, <1>6, <2>1 DEF Compared, Operators
<1>8. /\ op \in Parsed /\ op \in Nodes(before) /\ DOMAIN before[op].kids = {1, 2}
      /\ before[op].kids[2] \in Parsed
  BY <1>4, <1>7 DEF WasTree
<1>9. heap[op].kids[1] = Image(before[op].kids[1]) /\ heap[op].kids[2] = Image(before[op].kids[2])
  BY <1>7, <1>8
<1>10. IsPure(heap, Image(before[op].kids[2])) <=> IsPure(before, before[op].kids[2])
  BY <1>1, <1>2, <1>3, <1>4, <1>8, PurityKept
<1> QED
  BY <1>6, <1>7, <1>8, <1>9, <1>10 DEF NextOperator

\* An operator with side effects on its right is one that had them.
LEMMA ComparingRefuses ==
  ASSUME NEW T, NEW V, Holds(T, V), NEW W, Faithful(W), RefuseOperator
  PROVE  Compares'
<1>1. /\ AtOperator /\ phase = "rewrite" /\ phase' = phase /\ ast' = ast /\ failed' = "eliminate"
      /\ before' = before /\ swapped' = swapped /\ heap' = heap /\ gathered' = gathered /\ next' = next
  BY DEF RefuseOperator, AtOperator, In, parser
<1>2. PICK op, kid : op = gathered[next] /\ kid = heap[op].kids[1]
  OBVIOUS
<1>3. NextOperator(op, kid)
  BY <1>1, <1>2, NextOperatorIs
<1>4. ~IsPure(heap, heap[op].kids[2])
  BY <1>2 DEF RefuseOperator, Discarded
<1>5. SideEffects
  BY <1>3, <1>4 DEF NextOperator, SideEffects
<1>6. Snapshot /\ Compared
  BY DEF Faithful
<1>7. /\ Parsed' = Parsed /\ Operators' = Operators /\ Replaced' = Replaced
      /\ SideEffects' = SideEffects /\ \A x : Image(x)' = Image(x)
  BY <1>1 DEF Parsed, Operators, Replaced, Image, SideEffects
<1>8. Compared'
  BY <1>1, <1>5, <1>6, <1>7 DEF Compared
<1>9. Failing' /\ Snapshot' /\ Looking(W)'
  BY <1>1, <1>6 DEF Failing, Snapshot, Looking
<1>10. Faithful(W)'
  BY <1>8, <1>9 DEF Faithful
<1> QED
  BY <1>10 DEF Compares

\* The kids of whatever is still in the tree after a swap.
KidsRenamed(g, op, u) ==
  \A o \in Live(heap) \ Replaced : o # op =>
    g[o].kids = [j \in DOMAIN heap[o].kids |-> IF heap[o].kids[j] = op THEN u ELSE heap[o].kids[j]]
LEMMA KidsAreRenamed ==
  ASSUME NEW T, NEW V, Holds(T, V), phase = "rewrite", NEW op, NEW p, ToSwap(op, p),
         NEW g, NEW u, NEW kid, SwappedKids(heap, g, p, op, u, kid)
  PROVE  KidsRenamed(g, op, u)
<1>1. Facts(T) /\ Rewriting
  BY FactsAre DEF Holds
<1>2. /\ \A o \in Live(heap) \ Replaced : \A m \in Children(heap, o) : heap[m].parent = o
      /\ heap[op].parent = p /\ op # NULL
  BY <1>1 DEF Rewriting, ToSwap
<1>3. SUFFICES ASSUME NEW o \in Live(heap) \ Replaced, o # op
               PROVE  g[o].kids = [j \in DOMAIN heap[o].kids |->
                                     IF heap[o].kids[j] = op THEN u ELSE heap[o].kids[j]]
  BY DEF KidsRenamed
<1>4. CASE o = p
  BY <1>4 DEF SwappedKids
<1>5. CASE o # p
  <2>1. o \in Nodes(heap)
    BY <1>1 DEF Facts
  <2>2. g[o].kids = heap[o].kids
    BY <1>5, <2>1 DEF SwappedKids
  <2>3. PICK k \in Seq(Nat) : k = heap[o].kids
    BY <1>1, <2>1, HeapFacts DEF Facts
  <2>4. \A j \in DOMAIN k : k[j] # op
    <3>1. op \notin Children(heap, o)
      BY <1>2, <1>5
    <3> QED
      BY <1>2, <2>3, <3>1 DEF Children, Slots
  <2>5. k = [j \in DOMAIN k |-> k[j]]
    BY <2>3
  <2>6. k = [j \in DOMAIN k |-> IF k[j] = op THEN u ELSE k[j]]
    BY <2>4, <2>5
  <2> QED
    BY <2>2, <2>3, <2>6
<1> QED
  BY <1>4, <1>5

\* The tree is the image of what it was after a swap too.
LEMMA ComparingSwaps ==
  ASSUME NEW T, NEW V, Holds(T, V), NEW W, Faithful(W), SwapOperator
  PROVE  Compares'
<1>1. /\ AtOperator /\ phase = "rewrite" /\ failed = "none" /\ next <= Len(gathered)
      /\ IsPure(heap, heap[gathered[next]].kids[2])
  BY DEF SwapOperator, AtOperator, In, Discarded
<1>2. Facts(T) /\ Typed /\ Snapshot /\ Compared
  BY FactsAre DEF Holds, Faithful
<1>3. WasTree /\ Images
  BY <1>1, <1>2, WasTreeIs, ImagesAre DEF Facts
<1>4. PICK op : op = gathered[next]
  OBVIOUS
<1>5. PICK p : p = heap[op].parent
  OBVIOUS
<1>6. ToSwap(op, p)
  BY <1>1, <1>4, <1>5, NextToSwap
<1>7. PICK g : g = SwapChild(Complement(op), p, op, Len(Complement(op)))
  OBVIOUS
<1>8. Swapping(T, g, op, p)
  BY <1>1, <1>6, <1>7, SwappingIs
<1>9. PICK T2, c, u, kid : AfterSwap(g, T2, c, p, op, u, kid)
  BY <1>8 DEF Swapping
<1>10. /\ Swapped(heap, g, p, op, u, kid) /\ SwappedKids(heap, g, p, op, u, kid)
       /\ FaultOf(op, p) = "none" /\ kid # op /\ kid = heap[op].kids[1] /\ u = Len(Complement(op))
  BY <1>9 DEF AfterSwap
<1>11. /\ u \notin Nodes(heap) /\ Nodes(g) = Nodes(heap) \cup {u} /\ Live(g) = Live(heap) \cup {u}
       /\ \A n \in Nodes(heap) : g[n].class = heap[n].class /\ g[n].tag = heap[n].tag
       /\ g[u].class = "UnaryOp" /\ g[u].tag = "not" /\ g[u].kids = <<kid>>
  BY <1>10 DEF Swapped, SwappedKids
<1>12. NextOperator(op, kid)
  BY <1>1, <1>4, <1>10, NextOperatorIs
<1>13. /\ op \in Operators /\ op \notin Replaced /\ op \in Parsed /\ op \in Nodes(before)
       /\ kid = Image(before[op].kids[1]) /\ IsPure(before, before[op].kids[2])
  BY <1>1, <1>4, <1>12 DEF NextOperator
<1>14. KidsRenamed(g, op, u)
  BY <1>1, <1>6, <1>10, KidsAreRenamed
<1>15. PICK sw : sw = [n \in DOMAIN swapped \cup {op} |-> IF n = op THEN u ELSE swapped[n]]
  OBVIOUS
<1>16. /\ heap' = g /\ phase' = phase /\ next' = next + 1 /\ ast' = ast /\ gathered' = gathered
       /\ failed' = failed /\ before' = before /\ swapped' = sw
  BY <1>4, <1>5, <1>7, <1>10, <1>15 DEF SwapOperator, ParentNow, parser
<1>17. Replaced' = Replaced \cup {op}
  <2>1. gathered \in Seq(Nat)
    BY <1>2 DEF Typed
  <2>2. DOMAIN gathered \subseteq Nat /\ next \in Nat /\ next \in DOMAIN gathered
    BY <1>6, <2>1 DEF ToSwap
  <2>3. {j \in DOMAIN gathered : j < next + 1} = {j \in DOMAIN gathered : j < next} \cup {next}
    BY <2>2
  <2> QED
    BY <1>4, <1>16, <2>3 DEF Replaced
<1>18. Parsed' = Parsed /\ Operators' = Operators
  BY <1>16 DEF Parsed, Operators
<1>19. /\ Entries(gathered) = Operators /\ DOMAIN swapped = Replaced
       /\ \A q \in Replaced :
            /\ swapped[q] \in Live(heap) \ Nodes(before)
            /\ heap[swapped[q]].class = "UnaryOp" /\ heap[swapped[q]].tag = "not"
            /\ heap[swapped[q]].kids = <<Image(before[q].kids[1])>>
            /\ IsPure(before, before[q].kids[2])
       /\ \A n \in Parsed \ Replaced :
            /\ heap[n].class = before[n].class /\ heap[n].tag = before[n].tag
            /\ heap[n].kids = [i \in DOMAIN before[n].kids |-> Image(before[n].kids[i])]
  BY <1>1, <1>2 DEF Compared
<1>20. /\ Nodes(before) \subseteq Nodes(heap) /\ Live(before) \subseteq Live(heap)
       /\ Live(heap) \subseteq Nodes(heap) /\ Replaced \subseteq Nodes(before)
  <2>1. Replaced \subseteq Nodes(before)
    BY <1>3 DEF Images, Operators, WasTree
  <2> QED
    BY <1>1, <1>2, <2>1 DEF Snapshot, Facts
<1>21. \A x : Image(x)' = IF x = op THEN u ELSE Image(x)
  BY <1>13, <1>15, <1>16, <1>19 DEF Image
<1>22. \A x : Image(x) = op <=> x = op
  BY <1>13, <1>19 DEF Image
<1>23. \A x : Image(x)' = IF Image(x) = op THEN u ELSE Image(x)
  BY <1>21, <1>22
<1>24. ASSUME NEW q \in Replaced \cup {op}
       PROVE  /\ sw[q] \in Live(g) \ Nodes(before)
              /\ g[sw[q]].class = "UnaryOp" /\ g[sw[q]].tag = "not"
              /\ g[sw[q]].kids = <<Image(before[q].kids[1])'>>
              /\ IsPure(before, before[q].kids[2])
  <2>1. CASE q = op
    <3>1. sw[q] = u
      BY <1>15, <2>1
    <3>2. Image(before[q].kids[1])' = kid
      BY <1>10, <1>13, <1>16, <1>23, <2>1
    <3>3. u \notin Nodes(before)
      BY <1>11, <1>20
    <3> QED
      BY <1>11, <1>13, <2>1, <3>1, <3>2, <3>3
  <2>2. CASE q # op
    <3>1. q \in Replaced /\ sw[q] = swapped[q]
      BY <1>15, <1>19, <2>2
    <3>2. PICK s : s = swapped[q]
      OBVIOUS
    <3>3. /\ s \in Live(heap) /\ s \notin Nodes(before) /\ s \in Nodes(heap)
          /\ heap[s].class = "UnaryOp" /\ heap[s].tag = "not"
          /\ heap[s].kids = <<Image(before[q].kids[1])>>
      BY <1>19, <1>20, <3>1, <3>2
    <3>4. g[s].kids = [j \in DOMAIN heap[s].kids |-> IF heap[s].kids[j] = op THEN u ELSE heap[s].kids[j]]
      BY <1>13, <1>14, <1>20, <3>3 DEF KidsRenamed
    <3>5. PICK y : y = Image(before[q].kids[1])
      OBVIOUS
    <3>6. g[s].kids = <<IF y = op THEN u ELSE y>>
      <4>1. PICK k : k = <<y>>
        OBVIOUS
      <4>2. DOMAIN k = {1} /\ k[1] = y
        BY <4>1
      <4>3. PICK t : t = [j \in DOMAIN k |-> IF k[j] = op THEN u ELSE k[j]]
        OBVIOUS
      <4>4. t = <<IF y = op THEN u ELSE y>>
        BY <4>2, <4>3
      <4> QED
        BY <3>3, <3>4, <3>5, <4>1, <4>3, <4>4
    <3>7. Image(before[q].kids[1])' = IF y = op THEN u ELSE y
      BY <1>16, <1>23, <3>5
    <3> QED
      BY <1>11, <1>19, <3>1, <3>2, <3>3, <3>6, <3>7
  <2> QED
    BY <2>1, <2>2
<1>25. ASSUME NEW n \in Parsed \ (Replaced \cup {op})
       PROVE  /\ g[n].class = before[n].class /\ g[n].tag = before[n].tag
              /\ g[n].kids = [i \in DOMAIN before[n].kids |-> Image(before[n].kids[i])']
  <2>1. n \in Live(heap) /\ n \in Nodes(heap)
    BY <1>3, <1>20 DEF WasTree
  <2>2. g[n].class = before[n].class /\ g[n].tag = before[n].tag
    BY <1>11, <1>19, <2>1
  <2>3. PICK k \in Seq(Nat) : k = before[n].kids
    BY <1>3 DEF WasTree
  <2>4. PICK s : s = [i \in DOMAIN k |-> Image(k[i])]
    OBVIOUS
  <2>5. heap[n].kids = s
    BY <1>19, <2>3, <2>4
  <2>6. g[n].kids = [j \in DOMAIN s |-> IF s[j] = op THEN u ELSE s[j]]
    BY <1>14, <2>1, <2>5 DEF KidsRenamed
  <2>7. DOMAIN s = DOMAIN k /\ \A i \in DOMAIN k : s[i] = Image(k[i])
    BY <2>4
  <2>8. \A i \in DOMAIN k : Image(before[n].kids[i])' = IF s[i] = op THEN u ELSE s[i]
    BY <1>16, <1>23, <2>3, <2>7
  <2>9. [j \in DOMAIN s |-> IF s[j] = op THEN u ELSE s[j]]
          = [i \in DOMAIN k |-> Image(before[n].kids[i])']
    BY <2>7, <2>8
  <2> QED
    BY <2>2, <2>3, <2>6, <2>9
<1>26. DOMAIN sw = Replaced \cup {op}
  BY <1>15, <1>19
<1>27. Compared'
  BY <1>1, <1>16, <1>17, <1>18, <1>19, <1>24, <1>25, <1>26 DEF Compared
<1>28. Snapshot'
  BY <1>1, <1>2, <1>11, <1>16 DEF Snapshot
<1>29. Failing' /\ Looking(W)'
  BY <1>1, <1>16 DEF Failing, Looking
<1>30. Faithful(W)'
  BY <1>27, <1>28, <1>29 DEF Faithful
<1> QED
  BY <1>30 DEF Compares

\* A release during the pass deletes nothing: the gatherer holds what it has found.
LEMMA ComparingReleases ==
  ASSUME NEW T, NEW V, Holds(T, V), NEW W, Faithful(W), ReleaseReference
  PROVE  Compares'
<1>1. /\ later # <<>> /\ phase' = phase /\ ast' = ast /\ failed' = failed /\ group' = group
      /\ before' = before /\ swapped' = swapped /\ gathered' = gathered /\ next' = next
  BY DEF ReleaseReference, pass
<1>2. Failing'
  BY <1>1 DEF Faithful, Failing
<1>3. phase # "gather"
  BY <1>1 DEF Holds, Gathering
<1>4. CASE phase # "rewrite"
  BY <1>1, <1>2, <1>3, <1>4, NothingCompared
<1>5. CASE phase = "rewrite"
  <2>1. /\ Facts(T) /\ Typed /\ Rewriting /\ Graph(heap, Standing, Outside)
        /\ Snapshot /\ Compared
    BY FactsAre DEF Holds, Sound, Faithful
  <2>2. PICK n, r : n = Head(later) /\ r = Tail(later)
    OBVIOUS
  <2>3. First(n, r)
    BY <1>1, <2>1, <2>2, FirstIs
  <2>4. n \in Entries(gathered) /\ n # NULL
    BY <1>5, <2>1, <2>3 DEF Rewriting, First
  <2>5. n \in Live(heap) /\ n \in Nodes(heap) /\ Outside[n] > 1 /\ Outside[n] \in Nat
    BY <1>1, <2>3, <2>4, HeldIs DEF HeldNow
  <2>6. heap[n].refs > 1
    <3>1. heap[n].refs = Cardinality(Owners(heap, n)) + Outside[n]
      BY <2>1, <2>5 DEF Graph
    <3>2. Cardinality(Owners(heap, n)) \in Nat
      BY <2>1, OwnersAreFinite DEF Facts
    <3>3. PICK a \in Nat, b \in Nat : a = Cardinality(Owners(heap, n)) /\ b = Outside[n]
      BY <2>5, <3>2
    <3>4. a + b > 1
      BY <2>5, <3>3
    <3> QED
      BY <3>1, <3>3, <3>4
  <2>7. heap' = OneLess(heap, n)
    <3>1. Release(heap, n, r) = [heap |-> OneLess(heap, n), later |-> r]
      BY <2>4, <2>6 DEF Release, OneLess
    <3> QED
      BY <2>2, <3>1 DEF ReleaseReference
  <2>8. PICK g : g = OneLess(heap, n)
    OBVIOUS
  <2>9. PICK x \in Node : x = heap[n]
    BY <2>1, <2>5, HeapFacts DEF Facts
  <2>10. PICK new : new = [x EXCEPT !.refs = @ - 1]
    OBVIOUS
  <2>11. new.class = x.class /\ new.tag = x.tag /\ new.kids = x.kids /\ new.live = x.live
    BY <2>9, <2>10 DEF Node
  <2>12. g = [heap EXCEPT ![n] = new] /\ n \in DOMAIN heap
    BY <2>5, <2>8, <2>9, <2>10 DEF OneLess, Nodes
  <2>13. /\ Nodes(g) = Nodes(heap)
         /\ \A m \in Nodes(heap) : /\ g[m].class = heap[m].class /\ g[m].tag = heap[m].tag
                                   /\ g[m].kids = heap[m].kids /\ g[m].live = heap[m].live
    BY <2>9, <2>11, <2>12 DEF Nodes
  <2>14. Live(g) = Live(heap)
    BY <2>13 DEF Live
  <2>15. Snapshot'
    BY <1>1, <1>5, <2>1, <2>7, <2>8, <2>13, <2>14 DEF Snapshot
  <2>16. /\ Parsed' = Parsed /\ Operators' = Operators /\ Replaced' = Replaced
         /\ SideEffects' = SideEffects /\ \A y : Image(y)' = Image(y)
    BY <1>1 DEF Parsed, Operators, Replaced, Image, SideEffects
  <2>17. Parsed \subseteq Nodes(heap) /\ \A op \in Replaced : swapped[op] \in Nodes(heap)
    <3>1. WasTree
      BY <1>5, <2>1, WasTreeIs
    <3>2. Nodes(before) \subseteq Nodes(heap) /\ Live(heap) \subseteq Nodes(heap)
      BY <1>5, <2>1 DEF Snapshot, Facts
    <3> QED
      BY <1>5, <2>1, <3>1, <3>2 DEF WasTree, Compared
  <2>18. Compared'
    BY <1>1, <1>5, <2>1, <2>7, <2>8, <2>13, <2>14, <2>16, <2>17 DEF Compared
  <2>19. Looking(W)'
    BY <1>1, <1>5 DEF Looking
  <2>20. Faithful(W)'
    BY <1>2, <2>15, <2>18, <2>19 DEF Faithful
  <2> QED
    BY <2>20 DEF Compares
<1> QED
  BY <1>4, <1>5

\* The steps of the parser and of parseDBA come before a process fails.
LEMMA ParsingIsNoFailure ==
  ASSUME Failing, Parse
  PROVE  phase' \notin {"gather", "rewrite"} /\ Failing'
<1>1. phase \in {"parse", "accepted", "discard", "returned"} /\ failed' = failed /\ group' = group
      /\ phase' \in {"parse", "accepted", "discard", "returned", "parsed", "exit"}
  <2>1. CASE Reduce
    BY <2>1 DEF Reduce, ReduceNew, ReduceNull, ReduceAppend, ReduceOneLine, ReduceElseIf, ReduceVarDecl,
         ReduceInitializer, ReduceIncDec, GiveProgram, Reducing, Reduced, In, pass
  <2>2. CASE AcceptInput \/ ReturnProgram \/ FileNotOpened \/ SyntaxError \/ DiscardValue \/ GiveUp
    BY <2>2 DEF AcceptInput, ReturnProgram, FileNotOpened, SyntaxError, DiscardValue, GiveUp, In, pass
  <2>3. CASE KeepFirst \/ MergeStatement \/ MergeEnds
    BY <2>3 DEF KeepFirst, MergeStatement, MergeEnds, NextFile, In, pass
  <2> QED
    BY <2>1, <2>2, <2>3 DEF Parse
<1> QED
  BY <1>1 DEF Failing

\* The end of a process that failed is the end of the group.
LEMMA FailingIsLast ==
  ASSUME Failing,
         \/ ExecuteGroup \/ GroupEnds \/ EnforceSingleDefaultCase \/ ValidateUDTFieldNames
         \/ DropGatherer \/ Exits
  PROVE  phase' \notin {"gather", "rewrite"} /\ Failing'
<1>1. CASE ExecuteGroup
  BY <1>1 DEF ExecuteGroup, In, Failing
<1>2. CASE GroupEnds
  BY <1>2 DEF GroupEnds, Failing
<1>3. CASE EnforceSingleDefaultCase
  <2>1. phase = "group" /\ group # <<>> /\ phase' \in {"group", "crashed"}
    BY <1>3 DEF EnforceSingleDefaultCase, Executing, In
  <2>2. (failed' = failed \/ group' = <<>>) \/ phase' = "crashed"
    BY <1>3 DEF EnforceSingleDefaultCase, Returns
  <2> QED
    BY <2>1, <2>2 DEF Failing
<1>4. CASE ValidateUDTFieldNames
  <2>1. phase = "group" /\ group # <<>> /\ phase' = "group"
    BY <1>4 DEF ValidateUDTFieldNames, Executing, In
  <2>2. failed' = failed \/ group' = <<>>
    BY <1>4 DEF ValidateUDTFieldNames, Returns
  <2> QED
    BY <2>1, <2>2 DEF Failing
<1>5. CASE DropGatherer
  BY <1>5 DEF DropGatherer, Failing
<1>6. CASE Exits
  BY <1>6 DEF Exits, Failing
<1> QED
  BY <1>1, <1>2, <1>3, <1>4, <1>5, <1>6

\* The comparison holds from step to step.
LEMMA ComparisonKept ==
  ASSUME IInv, Compares, [Next]_vars
  PROVE  Compares'
<1>1. PICK T, V : Holds(T, V)
  BY DEF IInv
<1>2. PICK W : Faithful(W)
  BY DEF Compares
<1>3. Failing
  BY <1>2 DEF Faithful
<1>4. CASE ReleaseReference
  BY <1>1, <1>2, <1>4, ComparingReleases
<1>5. CASE Parse
  BY <1>3, <1>5, ParsingIsNoFailure, NothingCompared
<1>6. CASE \/ ExecuteGroup \/ GroupEnds \/ EnforceSingleDefaultCase \/ ValidateUDTFieldNames
           \/ DropGatherer \/ Exits
  BY <1>3, <1>6, FailingIsLast, NothingCompared
<1>7. CASE StartGathering
  BY <1>1, <1>3, <1>7, ComparingStarts
<1>8. CASE VisitNode
  BY <1>1, <1>2, <1>8, ComparingVisits
<1>9. CASE StartRewriting
  BY <1>1, <1>2, <1>9, ComparingTurns
<1>10. CASE SwapOperator
  BY <1>1, <1>2, <1>10, ComparingSwaps
<1>11. CASE RefuseOperator
  BY <1>1, <1>2, <1>11, ComparingRefuses
<1>12. CASE UNCHANGED vars
  <2>1. /\ phase' = phase /\ ast' = ast /\ failed' = failed /\ group' = group /\ todo' = todo
        /\ before' = before /\ swapped' = swapped /\ gathered' = gathered /\ next' = next /\ heap' = heap
    BY <1>12 DEF vars, pass
  <2>2. /\ Parsed' = Parsed /\ Operators' = Operators /\ Replaced' = Replaced
        /\ SideEffects' = SideEffects /\ \A x : Image(x)' = Image(x)
    BY <2>1 DEF Parsed, Operators, Replaced, Image, SideEffects
  <2>3. Failing' /\ Snapshot' /\ Looking(W)'
    BY <1>2, <2>1, <2>2 DEF Faithful, Failing, Snapshot, Looking, Unchanged
  <2>4. Compared'
    BY <1>2, <2>1, <2>2 DEF Faithful, Compared
  <2>5. Faithful(W)'
    BY <2>3, <2>4 DEF Faithful
  <2> QED
    BY <2>5 DEF Compares
<1> QED
  BY <1>4, <1>5, <1>6, <1>7, <1>8, <1>9, <1>10, <1>11, <1>12 DEF Next, Process, Eliminate, Terminated

\* What the property says when the pass is over.
LEMMA RewrittenExactly ==
  ASSUME IInv, Compares
  PROVE  RewritingIsExact
<1>1. PICK T, V : Holds(T, V)
  BY DEF IInv
<1>2. PICK W : Faithful(W)
  BY DEF Compares
<1>3. fault = "none"
  BY NothingMissing
<1>4. SUFFICES ASSUME Rewritten
               PROVE  /\ failed = "none" =>
                           \A n \in Below(heap, ast) :
                             IF n \in Nodes(before) THEN Kept(n) ELSE \E op \in DOMAIN swapped : Replaces(n, op)
                      /\ failed = "eliminate" <=>
                           \E op \in Below(before, ast) :
                             IsBitwiseNot(before, op) /\ ~IsPure(before, before[op].kids[2])
  BY <1>3 DEF RewritingIsExact
<1>5. phase = "rewrite" /\ (failed # "none" \/ next > Len(gathered))
  BY <1>4 DEF Rewritten, In
<1>6. Facts(T) /\ Typed /\ Snapshot /\ Compared
  BY <1>1, <1>2, FactsAre DEF Holds, Faithful
<1>7. WasTree /\ Images
  BY <1>5, <1>6, WasTreeIs, ImagesAre DEF Facts
<1>8. /\ Entries(gathered) = Operators /\ DOMAIN swapped = Replaced
      /\ \A op \in Replaced :
           /\ swapped[op] \in Live(heap) \ Nodes(before)
           /\ heap[swapped[op]].class = "UnaryOp" /\ heap[swapped[op]].tag = "not"
           /\ heap[swapped[op]].kids = <<Image(before[op].kids[1])>>
           /\ IsPure(before, before[op].kids[2])
      /\ \A n \in Parsed \ Replaced :
           /\ heap[n].class = before[n].class /\ heap[n].tag = before[n].tag
           /\ heap[n].kids = [i \in DOMAIN before[n].kids |-> Image(before[n].kids[i])]
      /\ failed = "none" \/ (failed = "eliminate" /\ SideEffects)
  BY <1>5, <1>6 DEF Compared
<1>9. ASSUME failed = "none" PROVE Replaced = Operators
  <2>1. gathered \in Seq(Nat) /\ next \in Nat /\ next > Len(gathered)
    BY <1>5, <1>6, <1>9 DEF Typed
  <2>2. DOMAIN gathered = 1 .. Len(gathered) /\ Len(gathered) \in Nat
    BY <2>1
  <2>3. \A j \in DOMAIN gathered : j < next
    BY <2>1, <2>2
  <2>4. Replaced = Entries(gathered)
    BY <2>3 DEF Replaced, Entries
  <2> QED
    BY <1>8, <2>4
<1>10. ASSUME failed = "none", NEW n \in Below(heap, ast)
       PROVE  IF n \in Nodes(before) THEN Kept(n) ELSE \E op \in DOMAIN swapped : Replaces(n, op)
  <2>1. PICK Z : Z = {Image(m) : m \in Parsed}
    OBVIOUS
  <2>2. IsHeap(heap) /\ Whole(heap) /\ Live(heap) \subseteq Nodes(heap)
    BY <1>6 DEF Facts
  <2>3. ast \in Parsed /\ Image(ast) = ast
    BY <1>7 DEF WasTree, Images
  <2>4. Z \in SUBSET Nodes(heap) /\ ast \in Z \cup {NULL} /\ ast \in Live(heap) \cup {NULL}
    BY <1>7, <2>1, <2>2, <2>3 DEF Images
  <2>5. ASSUME NEW m \in Parsed PROVE Children(heap, Image(m)) \subseteq Z
    <3>1. CASE m \in Replaced
      BY <1>7, <2>1, <3>1 DEF Images, WasTree
    <3>2. CASE m \notin Replaced
      <4>1. Children(before, m) \subseteq Parsed
        BY <1>7 DEF WasTree, Closed
      <4>2. Image(m) = m /\ Children(heap, m) = {Image(o) : o \in Children(before, m)}
        BY <1>7, <3>2 DEF Images
      <4> QED
        BY <2>1, <4>1, <4>2
    <3> QED
      BY <3>1, <3>2
  <2>6. Closed(heap, Z)
    BY <2>1, <2>5 DEF Closed
  <2>7. n \in Z
    BY <2>2, <2>4, <2>6, BelowFacts
  <2>8. PICK m \in Parsed : n = Image(m)
    BY <2>1, <2>7
  <2>9. CASE m \in Replaced
    <3>1. n = swapped[m] /\ n \notin Nodes(before) /\ m \in DOMAIN swapped /\ m \in Operators
      BY <1>7, <1>8, <2>8, <2>9 DEF Images
    <3>2. Replaces(n, m)
      BY <1>8, <2>9, <3>1 DEF Replaces, Operators
    <3> QED
      BY <3>1, <3>2
  <2>10. CASE m \notin Replaced
    <3>1. n = m /\ n \in Nodes(before)
      BY <1>7, <2>8, <2>10 DEF Images, WasTree
    <3>2. heap[n].class = before[n].class /\ heap[n].tag = before[n].tag
          /\ heap[n].kids = [i \in DOMAIN before[n].kids |-> Image(before[n].kids[i])]
      BY <1>8, <2>10, <3>1
    <3>3. ~IsBitwiseNot(before, n)
      BY <1>9, <1>10, <2>10, <3>1 DEF Operators
    <3>4. ~IsBitwiseNot(heap, n)
      BY <3>2, <3>3 DEF IsBitwiseNot
    <3> QED
      BY <3>1, <3>2, <3>4 DEF Kept
  <2> QED
    BY <2>9, <2>10
<1>11. SideEffects <=> \E op \in Below(before, ast) :
                         IsBitwiseNot(before, op) /\ ~IsPure(before, before[op].kids[2])
  BY DEF SideEffects, Operators, Parsed
<1>12. failed = "none" => ~SideEffects
  BY <1>8, <1>9 DEF SideEffects
<1>13. failed = "eliminate" <=> SideEffects
  BY <1>8, <1>12
<1> QED
  BY <1>10, <1>11, <1>13

-----------------------------------------------------------------------------
\* The invariant holds from the first reduction to the end of main.
THEOREM IInvHolds == Spec => []IInv
<1>1. Init => IInv
  BY InitHolds
<1>2. IInv /\ [Next]_vars => IInv'
  BY StepKeeps
<1> QED
  BY <1>1, <1>2, PTL DEF Spec

\* The count of every live node is the number of the references to it: of its owners,
\* of ast_, the driver, parseDBA and the gatherer, and of those about to be released
\* (RefCounted.cpp, Reference.hpp).
THEOREM CountsStayExact == Spec => []CountsAreExact
<1>1. IInv => CountsAreExact
  BY ExactCounts
<1> QED
  BY <1>1, IInvHolds, PTL

\* Whatever is on bison's stack, in the driver, in parseDBA or in ast_ is a tree: alive,
\* every child has its owner as parent and is of a class its owner accepts (Parser.y and
\* src/ast; while merge() moves statements they have two owners).
THEOREM TreesStayWellFormed == Spec => []TreesAreWellFormed
<1>1. IInv => TreesAreWellFormed
  BY WellFormedTrees
<1> QED
  BY <1>1, IInvHolds, PTL

\* Whatever is allocated can be reached from something that will release it, after a
\* syntax error or a process that failed too (the %destructor of Parser.y, Driver.cpp).
THEOREM NothingIsEverLost == Spec => []NothingIsLost
<1>1. IInv => NothingIsLost
  BY NothingLost
<1> QED
  BY <1>1, IInvHolds, PTL

\* swapChild is called on a live parent that owns the operator, in whatever order and
\* depth operators are replaced (EliminateBitwiseNotRHS::execute).
THEOREM SwapsFindTheirChild == Spec => [](fault = "none")
<1>1. IInv => fault = "none"
  BY NothingMissing
<1> QED
  BY <1>1, IInvHolds, PTL

\* Every swap finds its child, a pass that succeeds leaves the tree as it was but for the
\* operators, each of which is the complement of its left operand now, and it fails if
\* and only if an operator of the tree as it was has side effects on its right
\* (EliminateBitwiseNotRHS::execute).
THEOREM RewritesExactly == Spec => []RewritingIsExact
<1>1. Init => IInv /\ Compares
  <2>1. Init => Faithful({})
    BY DEF Init, Faithful, Failing, Snapshot, Looking, Compared
  <2> QED
    BY <2>1, InitHolds DEF Compares
<1>2. IInv /\ Compares /\ [Next]_vars => (IInv /\ Compares)'
  BY StepKeeps, ComparisonKept
<1>3. IInv /\ Compares => RewritingIsExact
  BY RewrittenExactly
<1> QED
  BY <1>1, <1>2, <1>3, PTL DEF Spec

\* When the program is over no node is left, whichever way it ended: with a file that
\* could not be opened, a syntax error, a process that failed, or none of them.
THEOREM NothingStaysBehind == Spec => []NothingIsLeft
<1>1. Init => IInv /\ AstIsGone
  BY InitHolds DEF Init, AstIsGone
<1>2. IInv /\ AstIsGone /\ [Next]_vars => (IInv /\ AstIsGone)'
  BY StepKeeps, AstStaysGone
<1>3. IInv /\ AstIsGone => NothingIsLeft
  BY NothingAfterwards
<1> QED
  BY <1>1, <1>2, <1>3, PTL DEF Spec
=============================================================================
