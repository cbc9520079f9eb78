--------------------------- MODULE AstHeapProofs ---------------------------
(***************************************************************************)
(* Lemmas about AstHeap, for every heap.                                   *)
(*                                                                         *)
(* Graph says that each count is the number of references to its node,     *)
(* those of the heap and those held outside; Forest, that the nodes held   *)
(* together by child and parent pointers are trees; AllFit, that each node *)
(* has children of the kinds of its class.  The lemmas say which of the    *)
(* three an operation needs, which it keeps, and what it returns.          *)
(***************************************************************************)
EXTENDS AstHeap, FiniteSetTheorems, SequenceTheorems, WellFoundedInduction, TLAPS

-----------------------------------------------------------------------------
(* Sequences: what is in them, and how often.                              *)

Entries(seq) == {seq[i] : i \in DOMAIN seq}
Occ(seq, n) == Cardinality({i \in DOMAIN seq : seq[i] = n})
Distinct(seq) == \A i, j \in DOMAIN seq : seq[i] = seq[j] => i = j \/ seq[i] = NULL

\* A sequence is the function of its entries.
LEMMA SeqIsMap ==
  ASSUME NEW S, NEW seq \in Seq(S)
  PROVE  seq = [i \in DOMAIN seq |-> seq[i]]
<1>1. seq \in [1 .. Len(seq) -> S]
  BY LenProperties
<1> QED
  BY <1>1, Zenon

\* What is in a sequence is in finitely many places of it.
LEMMA PlacesAreFinite ==
  ASSUME NEW S, NEW seq \in Seq(S), NEW n
  PROVE  /\ IsFiniteSet({i \in DOMAIN seq : seq[i] = n})
         /\ Occ(seq, n) \in Nat
<1>1. IsFiniteSet(1 .. Len(seq))
  BY FS_Interval
<1>2. {i \in DOMAIN seq : seq[i] = n} \subseteq 1 .. Len(seq)
  OBVIOUS
<1> QED
  BY <1>1, <1>2, FS_Subset, FS_CardinalityType DEF Occ

\* What is not in a sequence occurs in it no times.
LEMMA OccNone ==
  ASSUME NEW S, NEW seq \in Seq(S), NEW n
  PROVE  Occ(seq, n) = 0 <=> n \notin Entries(seq)
<1>1. Occ(seq, n) = 0 <=> {i \in DOMAIN seq : seq[i] = n} = {}
  BY PlacesAreFinite, FS_EmptySet DEF Occ
<1> QED
  BY <1>1 DEF Entries

\* A count of one set that is put together of two.
LEMMA CountOfTwo ==
  ASSUME NEW A, NEW B, IsFiniteSet(A), IsFiniteSet(B), A \cap B = {}
  PROVE  Cardinality(A \cup B) = Cardinality(A) + Cardinality(B)
<1>1. Cardinality(A \cup B) = Cardinality(A) + Cardinality(B) - Cardinality(A \cap B)
  BY FS_Union
<1>2. Cardinality(A \cap B) = 0
  BY FS_EmptySet
<1> QED
  BY <1>1, <1>2, FS_CardinalityType

\* The same set, moved along the numbers.
LEMMA CountShifted ==
  ASSUME NEW A \in SUBSET Int, IsFiniteSet(A), NEW d \in Int, NEW B, B = {i + d : i \in A}
  PROVE  IsFiniteSet(B) /\ Cardinality(B) = Cardinality(A)
<1> DEFINE g == [i \in A |-> i + d]
<1>1. g \in [A -> B] /\ \A i, j \in A : g[i] = g[j] => i = j
  OBVIOUS
<1>2. \A b \in B : \E i \in A : g[i] = b
  OBVIOUS
<1>3. g \in Bijection(A, B)
  BY <1>1, <1>2, Zenon DEF Bijection, Injection, Surjection, IsInjective
<1> HIDE DEF g
<1> QED
  BY <1>3, FS_Bijection DEF ExistsBijection

\* Occurrences in a sequence that is put together of two.
LEMMA OccConcat ==
  ASSUME NEW S, NEW s \in Seq(S), NEW t \in Seq(S), NEW n
  PROVE  Occ(s \o t, n) = Occ(s, n) + Occ(t, n)
<1> DEFINE A == {i \in DOMAIN s : s[i] = n}
           B == {i \in DOMAIN t : t[i] = n}
           C == {i + Len(s) : i \in B}
<1>1. IsFiniteSet(A) /\ IsFiniteSet(B)
  BY PlacesAreFinite
<1>2. Len(s) \in Nat /\ Len(t) \in Nat /\ A \in SUBSET Int /\ B \in SUBSET Int
  OBVIOUS
<1>3. {i \in DOMAIN (s \o t) : (s \o t)[i] = n} = A \cup C
  <2>1. \A i \in DOMAIN (s \o t) :
          /\ i \in 1 .. Len(s) + Len(t)
          /\ (s \o t)[i] = IF i <= Len(s) THEN s[i] ELSE t[i - Len(s)]
    BY ConcatProperties
  <2>2. DOMAIN (s \o t) = 1 .. Len(s) + Len(t)
    BY ConcatProperties
  <2>3. ASSUME NEW i \in DOMAIN (s \o t), (s \o t)[i] = n
        PROVE  i \in A \cup C
    <3>1. CASE i <= Len(s)
      BY <2>1, <2>3, <3>1
    <3>2. CASE ~(i <= Len(s))
      <4>1. i - Len(s) \in B /\ i = (i - Len(s)) + Len(s)
        BY <2>1, <2>3, <3>2
      <4> QED
        BY <4>1
    <3> QED
      BY <3>1, <3>2
  <2>4. ASSUME NEW i \in A
        PROVE  i \in DOMAIN (s \o t) /\ (s \o t)[i] = n
    BY <2>1, <2>2
  <2>5. ASSUME NEW i \in C
        PROVE  i \in DOMAIN (s \o t) /\ (s \o t)[i] = n
    <3>1. PICK b \in B : i = b + Len(s)
      OBVIOUS
    <3>2. i \in DOMAIN (s \o t) /\ ~(i <= Len(s)) /\ i - Len(s) = b
      BY <2>2, <3>1
    <3> QED
      BY <2>1, <3>1, <3>2
  <2> QED
    BY <2>3, <2>4, <2>5
<1>4. A \cap C = {}
  OBVIOUS
<1> HIDE DEF A, B, C
<1>5. IsFiniteSet(C) /\ Cardinality(C) = Cardinality(B)
  <2>1. C = {i + Len(s) : i \in B}
    BY DEF C
  <2>2. B \in SUBSET Int /\ IsFiniteSet(B) /\ Len(s) \in Int
    BY <1>1, <1>2
  <2> QED
    BY <2>1, <2>2, CountShifted, Zenon
<1>6. Cardinality(A \cup C) = Cardinality(A) + Cardinality(C)
  BY <1>1, <1>4, <1>5, CountOfTwo
<1> QED
  BY <1>3, <1>5, <1>6 DEF Occ, A, B

\* Occurrences in a sequence of one ...
LEMMA OccSingle ==
  ASSUME NEW x, NEW n
  PROVE  Occ(<<x>>, n) = IF n = x THEN 1 ELSE 0
<1>1. DOMAIN <<x>> = {1} /\ <<x>>[1] = x
  OBVIOUS
<1>2. {i \in DOMAIN <<x>> : <<x>>[i] = n} = IF n = x THEN {1} ELSE {}
  BY <1>1
<1> QED
  BY <1>2, FS_EmptySet, FS_Singleton DEF Occ

\* ... and of none.
LEMMA OccEmpty ==
  ASSUME NEW n
  PROVE  Occ(<<>>, n) = 0
<1>1. DOMAIN <<>> = {}
  OBVIOUS
<1>2. {i \in DOMAIN <<>> : <<>>[i] = n} = {}
  BY <1>1
<1> QED
  BY <1>2, FS_EmptySet DEF Occ

\* Occurrences in a sequence: its head and the rest.
LEMMA OccHead ==
  ASSUME NEW S, NEW s \in Seq(S), s # <<>>, NEW n
  PROVE  Occ(s, n) = (IF n = Head(s) THEN 1 ELSE 0) + Occ(Tail(s), n)
<1>1. s = <<Head(s)>> \o Tail(s) /\ <<Head(s)>> \in Seq(S) /\ Tail(s) \in Seq(S)
  <2>1. Len(s) \in Nat /\ Len(s) # 0 /\ Head(s) \in S /\ Tail(s) \in Seq(S)
    OBVIOUS
  <2>2. <<Head(s)>> \o Tail(s) \in Seq(S)
    BY <2>1
  <2>3. Len(<<Head(s)>> \o Tail(s)) = Len(s)
    BY <2>1
  <2>4. \A i \in 1 .. Len(s) : s[i] = (<<Head(s)>> \o Tail(s))[i]
    BY <2>1
  <2> QED
    BY <2>1, <2>2, <2>3, <2>4, SeqEqual
<1>2. Occ(s, n) = Occ(<<Head(s)>>, n) + Occ(Tail(s), n)
  <2>1. PICK a \in Seq(S), t \in Seq(S) : a = <<Head(s)>> /\ t = Tail(s)
    BY <1>1
  <2>2. Occ(a \o t, n) = Occ(a, n) + Occ(t, n)
    BY OccConcat
  <2> QED
    BY <1>1, <2>1, <2>2
<1> QED
  BY <1>2, OccSingle

\* Occurrences in a sequence that something is appended to.
LEMMA OccAppend ==
  ASSUME NEW S, NEW s \in Seq(S), NEW x \in S, NEW n
  PROVE  Occ(Append(s, x), n) = Occ(s, n) + (IF n = x THEN 1 ELSE 0)
<1>1. Append(s, x) = s \o <<x>> /\ <<x>> \in Seq(S)
  <2>1. <<x>> \in Seq(S)
    OBVIOUS
  <2> QED
    BY <2>1, AppendIsConcat
<1>2. Occ(s \o <<x>>, n) = Occ(s, n) + Occ(<<x>>, n)
  BY <1>1, OccConcat
<1> QED
  BY <1>1, <1>2, OccSingle

\* What is in a sequence without repetitions occurs in it once.
LEMMA OccOnce ==
  ASSUME NEW S, NEW s \in Seq(S), Distinct(s), NEW n, n # NULL
  PROVE  Occ(s, n) = IF n \in Entries(s) THEN 1 ELSE 0
<1>1. CASE n \notin Entries(s)
  BY <1>1, OccNone
<1>2. ASSUME n \in Entries(s)
      PROVE  Occ(s, n) = 1
  <2>1. PICK i \in DOMAIN s : s[i] = n
    BY <1>2 DEF Entries
  <2>2. {j \in DOMAIN s : s[j] = n} = {i}
    BY <2>1 DEF Distinct
  <2> QED
    BY <2>2, FS_Singleton DEF Occ
<1> QED
  BY <1>1, <1>2

\* Every set of natural numbers that is not empty has a least element.
LEMMA LeastOf ==
  ASSUME NEW S \in SUBSET Nat, S # {}
  PROVE  \E x \in S : \A y \in S : x <= y
<1>1. IsWellFoundedOn(OpToRel(<, Nat), Nat)
  BY NatLessThanWellFounded, Zenon
<1>2. PICK x \in S : \A y \in S : ~(<<y, x>> \in OpToRel(<, Nat))
  BY <1>1, WFMin, Zenon
<1>3. \A y \in S : ~(y < x)
  BY <1>2, Zenon DEF OpToRel
<1> QED
  BY <1>3

-----------------------------------------------------------------------------
(* Heaps.                                                                  *)

Owners(h, n) == {o \in Live(h) : n \in Children(h, o)}

Node == [class : ClassNames, tag : Tags, kids : Seq(Nat), parent : Int, refs : Nat, live : BOOLEAN]
IsHeap(h) == h \in Seq(Node)
\* The children of a live node are alive and each is its child once.
Whole(h) ==
  /\ \A n \in Nodes(h) : Children(h, n) \subseteq Nodes(h)
  /\ \A n \in Live(h) : Children(h, n) \subseteq Live(h) /\ Distinct(h[n].kids)
Acyclic(h) ==
  \A S \in SUBSET Live(h) : S # {} => \E m \in S : \A o \in S : m \notin Children(h, o)

\* The types of a heap and of its nodes.
LEMMA HeapFacts ==
  ASSUME NEW h, IsHeap(h)
  PROVE  /\ Len(h) \in Nat /\ Nodes(h) = 1 .. Len(h)
         /\ \A n \in Nodes(h) : h[n] \in Node /\ n \in Nat /\ n # NULL
         /\ \A n \in Nodes(h) : /\ h[n].class \in ClassNames /\ h[n].tag \in Tags
                                /\ h[n].kids \in Seq(Nat) /\ h[n].parent \in Int
                                /\ h[n].refs \in Nat /\ h[n].live \in BOOLEAN
         /\ Live(h) \subseteq Nodes(h)
<1>1. Len(h) \in Nat /\ Nodes(h) = 1 .. Len(h) /\ \A n \in Nodes(h) : h[n] \in Node
  BY DEF IsHeap, Nodes
<1> QED
  BY <1>1 DEF Node, Live, NULL

\* A node has finitely many owners.
LEMMA OwnersAreFinite ==
  ASSUME NEW h, IsHeap(h), NEW n
  PROVE  IsFiniteSet(Owners(h, n)) /\ Cardinality(Owners(h, n)) \in Nat
<1>1. IsFiniteSet(1 .. Len(h)) /\ Owners(h, n) \subseteq 1 .. Len(h)
  <2>1. IsFiniteSet(1 .. Len(h))
    BY HeapFacts, FS_Interval
  <2> QED
    BY <2>1, HeapFacts DEF Owners
<1> QED
  BY <1>1, FS_Subset, FS_CardinalityType

\* A node that has no number of owners has none ...
LEMMA NoOwner ==
  ASSUME NEW h, IsHeap(h), NEW n, Cardinality(Owners(h, n)) = 0
  PROVE  Owners(h, n) = {}
  BY OwnersAreFinite, FS_EmptySet

\* ... and one that has an owner has at least one.
LEMMA SomeOwner ==
  ASSUME NEW h, IsHeap(h), NEW n, NEW o \in Owners(h, n)
  PROVE  Cardinality(Owners(h, n)) >= 1
  BY OwnersAreFinite, NoOwner

\* What a step that changes no children leaves as it is.
SameShape(h, g) ==
  /\ IsHeap(g) /\ Len(g) = Len(h)
  /\ \A n \in Nodes(h) : g[n].kids = h[n].kids /\ g[n].live = h[n].live

\* Counts and parents are no part of the shape.
LEMMA ShapeKept ==
  ASSUME NEW h, NEW g, IsHeap(h), SameShape(h, g)
  PROVE  /\ Nodes(g) = Nodes(h) /\ Live(g) = Live(h)
         /\ \A n \in Nodes(h) : Children(g, n) = Children(h, n)
         /\ \A n : Owners(g, n) = Owners(h, n)
         /\ Whole(h) => Whole(g)
         /\ Acyclic(h) => Acyclic(g)
<1>1. Nodes(g) = Nodes(h) /\ Live(g) = Live(h)
  <2>1. Nodes(g) = Nodes(h)
    BY HeapFacts DEF SameShape
  <2> QED
    BY <2>1 DEF Live, SameShape
<1>2. \A n \in Nodes(h) : Children(g, n) = Children(h, n)
  BY DEF Children, Slots, SameShape
<1>3. \A n : Owners(g, n) = Owners(h, n)
  BY <1>1, <1>2, HeapFacts DEF Owners
<1>4. Whole(h) => Whole(g)
  BY <1>1, <1>2, HeapFacts DEF Whole, SameShape
<1>5. Acyclic(h) => Acyclic(g)
  <2> SUFFICES ASSUME Acyclic(h), NEW S \in SUBSET Live(g), S # {}
               PROVE  \E m \in S : \A o \in S : m \notin Children(g, o)
    BY DEF Acyclic
  <2>1. PICK m \in S : \A o \in S : m \notin Children(h, o)
    BY <1>1 DEF Acyclic
  <2>2. \A o \in S : Children(g, o) = Children(h, o)
    BY <1>1, <1>2, HeapFacts
  <2> QED
    BY <2>1, <2>2
<1> QED
  BY <1>1, <1>2, <1>3, <1>4, <1>5

-----------------------------------------------------------------------------
(* A heap with its roots R and the references c that are held to its nodes *)
(* from elsewhere.                                                         *)

Counts == [Nat -> Nat]
Graph(h, R, c) ==
  /\ IsHeap(h) /\ Whole(h) /\ Acyclic(h)
  /\ c \in Counts
  /\ \A n \in Nat : c[n] # 0 => n = NULL \/ n \in Live(h)
  /\ \A n \in Live(h) : h[n].refs = Cardinality(Owners(h, n)) + c[n]
  /\ R \subseteq Live(h) /\ \A r \in R : Owners(h, r) = {}
  /\ \A n \in Live(h) : h[n].refs = 0 => n \in R

\* The nodes of the trees with these roots; each has its owner as parent, but
\* for the pairs of an owner and a child in "odd".
Forest(h, T, R, odd) ==
  /\ T \subseteq Live(h) /\ R \subseteq T
  /\ \A o \in T : Children(h, o) \subseteq T
  /\ \A m \in T : m \in R \/ \E o \in T : m \in Children(h, o)
  /\ \A o \in T : \A m \in Children(h, o) : h[m].parent = o \/ <<o, m>> \in odd

Plus(c, n) == [c EXCEPT ![n] = @ + 1]
Minus(c, n) == [c EXCEPT ![n] = @ - 1]

\* A heap with one node changed.
Altered(h, g, n, new) ==
  /\ IsHeap(g) /\ Len(g) = Len(h) /\ Nodes(g) = Nodes(h)
  /\ g[n] = new /\ \A m \in Nodes(h) : m # n => g[m] = h[m]
\* A heap with one node changed is one that has just this node changed.
LEMMA OneChanged ==
  ASSUME NEW h, IsHeap(h), NEW n \in Nodes(h), NEW new \in Node,
         NEW g, g = [h EXCEPT ![n] = new]
  PROVE  Altered(h, g, n, new)
<1>1. h \in Seq(Node) /\ n \in 1 .. Len(h) /\ Nodes(h) = 1 .. Len(h)
  BY HeapFacts DEF IsHeap
<1>2. g \in Seq(Node) /\ Len(g) = Len(h)
  BY <1>1, ExceptSeq
<1>3. g[n] = new /\ \A m \in Nodes(h) : m # n => g[m] = h[m]
  BY <1>1
<1>4. Nodes(g) = Nodes(h)
  BY <1>1, <1>2 DEF Nodes
<1> QED
  BY <1>2, <1>3, <1>4 DEF IsHeap, Altered

\* A node whose fields are those of x but for the ones that are given.
Like(new, x, kids, parent, refs, live) ==
  /\ new \in Node /\ new.class = x.class /\ new.tag = x.tag
  /\ new.kids = kids /\ new.parent = parent /\ new.refs = refs /\ new.live = live
\* A node with another count ...
LEMMA OtherCount ==
  ASSUME NEW x \in Node, NEW r \in Nat, NEW new, new = [x EXCEPT !.refs = r]
  PROVE  Like(new, x, x.kids, x.parent, r, x.live)
  BY DEF Node, Like

\* ... a node that is deleted ...
LEMMA Dead ==
  ASSUME NEW x \in Node, NEW r \in Nat, NEW new, new = [x EXCEPT !.refs = r, !.live = FALSE]
  PROVE  Like(new, x, x.kids, x.parent, r, FALSE)
  BY DEF Node, Like

\* ... with other children ...
LEMMA OtherKids ==
  ASSUME NEW x \in Node, NEW kids \in Seq(Nat), NEW new, new = [x EXCEPT !.kids = kids]
  PROVE  Like(new, x, kids, x.parent, x.refs, x.live)
  BY DEF Node, Like

\* ... with another parent ...
LEMMA OtherParent ==
  ASSUME NEW x \in Node, NEW p \in Int, NEW new, new = [x EXCEPT !.parent = p]
  PROVE  Like(new, x, x.kids, p, x.refs, x.live)
  BY DEF Node, Like

\* ... and with another reference and parent.
LEMMA Adopted ==
  ASSUME NEW x \in Node, NEW p \in Int, NEW new, new = [x EXCEPT !.refs = @ + 1, !.parent = p]
  PROVE  Like(new, x, x.kids, p, x.refs + 1, x.live)
<1>1. x.refs \in Nat /\ x.refs + 1 \in Nat
  BY DEF Node
<1> QED
  BY <1>1 DEF Node, Like

\* AddRef: one more reference from elsewhere.
LEMMA AddRefShape ==
  ASSUME NEW h, IsHeap(h), NEW n \in Nodes(h) \cup {NULL}
  PROVE  /\ SameShape(h, AddRef(h, n))
         /\ \A m \in Nodes(h) :
              /\ AddRef(h, n)[m].class = h[m].class /\ AddRef(h, n)[m].tag = h[m].tag
              /\ AddRef(h, n)[m].parent = h[m].parent
              /\ AddRef(h, n)[m].refs = h[m].refs + (IF m = n THEN 1 ELSE 0)
<1>1. CASE n = NULL
  BY <1>1, HeapFacts DEF AddRef, SameShape
<1>2. CASE n # NULL
  <2> DEFINE g == [h EXCEPT ![n].refs = @ + 1]
  <2>1. AddRef(h, n) = g /\ n \in Nodes(h) /\ n \in 1 .. Len(h) /\ h \in Seq(Node)
    BY <1>2, HeapFacts DEF AddRef, IsHeap
  <2>2. [h[n] EXCEPT !.refs = @ + 1] \in Node
    <3>1. h[n] \in Node /\ h[n].refs + 1 \in Nat
      BY <2>1, HeapFacts
    <3> QED
      BY <3>1 DEF Node
  <2>3. g \in Seq(Node) /\ Len(g) = Len(h)
    BY <2>1, <2>2, ExceptSeq
  <2>4. \A m \in Nodes(h) : g[m] = IF m = n THEN [h[n] EXCEPT !.refs = @ + 1] ELSE h[m]
    BY <2>1, HeapFacts
  <2>5. \A m \in Nodes(h) :
          /\ g[m].class = h[m].class /\ g[m].tag = h[m].tag /\ g[m].kids = h[m].kids
          /\ g[m].parent = h[m].parent /\ g[m].live = h[m].live
          /\ g[m].refs = h[m].refs + (IF m = n THEN 1 ELSE 0)
    BY <2>4, HeapFacts DEF Node
  <2> QED
    BY <2>1, <2>3, <2>5, HeapFacts DEF SameShape, IsHeap
<1> QED
  BY <1>1, <1>2

\* A reference that is taken from elsewhere is counted.
LEMMA AddRefGraph ==
  ASSUME NEW h, NEW R, NEW c, Graph(h, R, c), NEW n \in Live(h) \cup {NULL}
  PROVE  Graph(AddRef(h, n), R, Plus(c, n))
<1> DEFINE g == AddRef(h, n)
<1>1. IsHeap(h) /\ n \in Nodes(h) \cup {NULL} /\ n \in Nat /\ c \in [Nat -> Nat]
  BY HeapFacts DEF Graph, NULL, Counts
<1>2. SameShape(h, g) /\ \A m \in Nodes(h) : g[m].refs = h[m].refs + (IF m = n THEN 1 ELSE 0)
  BY <1>1, AddRefShape
<1> HIDE DEF g
<1>3. /\ IsHeap(g) /\ Whole(g) /\ Acyclic(g) /\ Live(g) = Live(h)
      /\ \A m : Owners(g, m) = Owners(h, m)
  BY <1>1, <1>2, ShapeKept DEF Graph, SameShape
<1>4. Plus(c, n) \in Counts /\ \A m \in Nat : Plus(c, n)[m] = c[m] + (IF m = n THEN 1 ELSE 0)
  BY <1>1 DEF Plus, Counts
<1>5. \A m \in Nat : Plus(c, n)[m] # 0 => m = NULL \/ m \in Live(g)
  BY <1>1, <1>3, <1>4 DEF Graph
<1>6. \A m \in Live(g) : g[m].refs = Cardinality(Owners(g, m)) + Plus(c, n)[m]
  <2> TAKE m \in Live(g)
  <2>1. m \in Nodes(h) /\ m \in Nat /\ h[m].refs = Cardinality(Owners(h, m)) + c[m]
    BY <1>1, <1>3, HeapFacts DEF Graph
  <2>2. Cardinality(Owners(h, m)) \in Nat /\ c[m] \in Nat
    BY <1>1, <2>1, OwnersAreFinite
  <2> QED
    BY <1>2, <1>3, <1>4, <2>1, <2>2
<1>7. \A m \in Live(g) : g[m].refs = 0 => m \in R
  <2> TAKE m \in Live(g)
  <2>1. m \in Nodes(h) /\ h[m].refs \in Nat
    BY <1>1, <1>3, HeapFacts
  <2> QED
    BY <1>2, <1>3, <2>1 DEF Graph
<1> QED
  BY <1>3, <1>4, <1>5, <1>6, <1>7 DEF Graph, g

-----------------------------------------------------------------------------
(* Below.                                                                  *)

Closed(h, S) == \A m \in S : Children(h, m) \subseteq S
StepDown(h, s) == s \cup UNION {Children(h, m) : m \in s}
\* The least set of nodes that has those of s and their children.
Closure(h, s) == {x \in Nodes(h) : \A S \in SUBSET Nodes(h) : s \subseteq S /\ Closed(h, S) => x \in S}

\* However it is computed, Below is the least set that is closed under children.
LEMMA Reaching ==
  ASSUME NEW h, IsHeap(h), Whole(h),
         NEW Reach, Reach = [s \in SUBSET Nodes(h) |->
                               IF StepDown(h, s) = s THEN s ELSE Reach[StepDown(h, s)]]
  PROVE  \A s \in SUBSET Nodes(h) : Reach[s] = Closure(h, s)
<1> DEFINE N == Nodes(h)
           Wrong == {s \in SUBSET N : Reach[s] # Closure(h, s)}
           Sizes == {Cardinality(N \ s) : s \in Wrong}
<1>1. IsFiniteSet(N)
  BY HeapFacts, FS_Interval
<1>2. \A s \in SUBSET N : IsFiniteSet(N \ s) /\ Cardinality(N \ s) \in Nat
  <2> TAKE s \in SUBSET N
  <2>1. N \ s \subseteq N
    OBVIOUS
  <2> QED
    BY <1>1, <2>1, FS_Subset, FS_CardinalityType
<1>3. \A s \in SUBSET N : StepDown(h, s) \in SUBSET N /\ s \subseteq StepDown(h, s)
  BY DEF Whole, StepDown
<1>4. ASSUME NEW s \in SUBSET N, StepDown(h, s) = s
      PROVE  Closure(h, s) = s
  <2>1. Closed(h, s)
    BY <1>4 DEF StepDown, Closed
  <2> QED
    BY <2>1 DEF Closure
<1>5. ASSUME NEW s \in SUBSET N
      PROVE  Closure(h, StepDown(h, s)) = Closure(h, s)
  <2>1. \A S \in SUBSET N : Closed(h, S) => (s \subseteq S <=> StepDown(h, s) \subseteq S)
    BY DEF StepDown, Closed
  <2> QED
    BY <2>1 DEF Closure
<1> SUFFICES ASSUME Wrong # {}
             PROVE  FALSE
  OBVIOUS
<1>6. Sizes \in SUBSET Nat /\ Sizes # {}
  BY <1>2
<1>7. PICK k \in Sizes : \A j \in Sizes : k <= j
  <2> HIDE DEF Sizes
  <2> QED
    BY <1>6, LeastOf
<1>8. PICK s \in Wrong : k = Cardinality(N \ s)
  BY <1>7
<1> DEFINE t == StepDown(h, s)
<1>9. t # s /\ t \in SUBSET N /\ s \subseteq t /\ Reach[s] = Reach[t]
  BY <1>3, <1>4, <1>8
<1>10. t \in Wrong
  BY <1>5, <1>8, <1>9
<1>11. Cardinality(N \ t) < Cardinality(N \ s)
  <2>1. N \ t \subseteq N \ s /\ N \ t # N \ s
    BY <1>8, <1>9
  <2>2. IsFiniteSet(N \ s)
    BY <1>2, <1>8
  <2>3. PICK A, B : A = N \ t /\ B = N \ s
    OBVIOUS
  <2>4. IsFiniteSet(B) /\ A \in SUBSET B /\ A # B
    BY <2>1, <2>2, <2>3
  <2>5. Cardinality(A) < Cardinality(B)
    <3>1. Cardinality(A) \in Nat /\ Cardinality(B) \in Nat
      BY <2>4, FS_Subset, FS_CardinalityType
    <3>2. Cardinality(A) <= Cardinality(B) /\ (Cardinality(A) = Cardinality(B) => A = B)
      BY <2>4, FS_Subset
    <3> QED
      BY <2>4, <3>1, <3>2
  <2> QED
    BY <2>3, <2>5
<1>12. Cardinality(N \ t) \in Sizes /\ Cardinality(N \ t) \in Nat /\ k \in Nat
  BY <1>2, <1>9, <1>10, <1>6, <1>7
<1>13. k <= Cardinality(N \ t)
  BY <1>7, <1>12
<1>14. PICK x \in Nat : x = Cardinality(N \ t)
  BY <1>12
<1>15. x < k /\ k <= x
  BY <1>8, <1>11, <1>13, <1>14
<1> QED
  BY <1>12, <1>14, <1>15

\* Below is defined by such a function.
LEMMA BelowIs ==
  ASSUME NEW h, IsHeap(h), Whole(h), NEW n \in Nodes(h) \cup {NULL}
  PROVE  Below(h, n) = Closure(h, {n} \ {NULL})
<1> DEFINE Body(fn) ==
      [s \in SUBSET Nodes(h) |-> IF StepDown(h, s) = s THEN s ELSE fn[StepDown(h, s)]]
    Reach == CHOOSE fn : fn = Body(fn)
<1>1. Below(h, n) = Reach[{n} \ {NULL}]
  BY DEF Below, StepDown
<1>2. \E fn : fn = Body(fn)
  <2> DEFINE g == [s \in SUBSET Nodes(h) |-> Closure(h, s)]
  <2>1. ASSUME NEW s \in SUBSET Nodes(h)
        PROVE  g[s] = IF StepDown(h, s) = s THEN s ELSE g[StepDown(h, s)]
    <3>1. StepDown(h, s) \in SUBSET Nodes(h) /\ s \subseteq StepDown(h, s)
      BY DEF Whole, StepDown
    <3>2. CASE StepDown(h, s) = s
      <4>1. Closed(h, s)
        BY <3>2 DEF StepDown, Closed
      <4>2. Closure(h, s) = s
        BY <4>1 DEF Closure
      <4> QED
        BY <3>2, <4>2
    <3>3. CASE StepDown(h, s) # s
      <4>1. \A S \in SUBSET Nodes(h) : Closed(h, S) => (s \subseteq S <=> StepDown(h, s) \subseteq S)
        BY DEF StepDown, Closed
      <4>2. Closure(h, StepDown(h, s)) = Closure(h, s)
        BY <4>1 DEF Closure
      <4> QED
        BY <3>1, <3>3, <4>2
    <3> QED
      BY <3>2, <3>3
  <2> HIDE DEF g
  <2>2. g = Body(g)
    <3>1. \A s \in SUBSET Nodes(h) : Body(g)[s] = g[s]
      BY <2>1
    <3>2. g \in [SUBSET Nodes(h) -> {Closure(h, s) : s \in SUBSET Nodes(h)}]
      BY DEF g
    <3>3. DOMAIN g = SUBSET Nodes(h) /\ g = [s \in SUBSET Nodes(h) |-> g[s]]
      BY <3>2
    <3> QED
      BY <2>1, <3>3
  <2> QED
    BY <2>2
<1>3. Reach = Body(Reach)
  BY <1>2, Zenon
<1> HIDE DEF Reach
<1>4. \A s \in SUBSET Nodes(h) : Reach[s] = Closure(h, s)
  BY <1>3, Reaching
<1> QED
  BY <1>1, <1>4

\* The nodes below a live node: it, their children, and no others.
LEMMA BelowFacts ==
  ASSUME NEW h, IsHeap(h), Whole(h), NEW n \in Live(h) \cup {NULL}
  PROVE  /\ Below(h, n) \subseteq Live(h) /\ Closed(h, Below(h, n))
         /\ n # NULL => n \in Below(h, n)
         /\ \A S \in SUBSET Nodes(h) : n \in S \cup {NULL} /\ Closed(h, S) => Below(h, n) \subseteq S
<1>1. n \in Nodes(h) \cup {NULL} /\ Live(h) \in SUBSET Nodes(h) /\ Closed(h, Live(h))
  BY DEF Live, Whole, Closed
<1>2. Below(h, n) = Closure(h, {n} \ {NULL})
  BY <1>1, BelowIs
<1>3. \A S \in SUBSET Nodes(h) : n \in S \cup {NULL} /\ Closed(h, S) => Below(h, n) \subseteq S
  BY <1>2 DEF Closure
<1>4. Below(h, n) \subseteq Live(h)
  BY <1>1, <1>3
<1>5. n # NULL => n \in Below(h, n)
  BY <1>1, <1>2 DEF Closure
<1>6. Closed(h, Below(h, n))
  <2> SUFFICES ASSUME NEW m \in Below(h, n), NEW k \in Children(h, m)
               PROVE  k \in Below(h, n)
    BY DEF Closed
  <2>1. k \in Nodes(h)
    BY <1>1, <1>4 DEF Whole
  <2>2. \A S \in SUBSET Nodes(h) : {n} \ {NULL} \subseteq S /\ Closed(h, S) => k \in S
    BY <1>2 DEF Closure, Closed
  <2> QED
    BY <1>2, <2>1, <2>2 DEF Closure
<1> QED
  BY <1>3, <1>4, <1>5, <1>6

\* Whatever is below a node is the node or has an owner that is below it.
LEMMA BelowOwned ==
  ASSUME NEW h, IsHeap(h), Whole(h), NEW n \in Live(h) \cup {NULL}, NEW m \in Below(h, n), m # n
  PROVE  \E o \in Below(h, n) : m \in Children(h, o)
<1> SUFFICES ASSUME \A o \in Below(h, n) : m \notin Children(h, o)
             PROVE  FALSE
  OBVIOUS
<1> DEFINE S == Below(h, n) \ {m}
<1>1. S \in SUBSET Nodes(h) /\ n \in S \cup {NULL}
  BY BelowFacts, HeapFacts
<1>2. Closed(h, S)
  BY BelowFacts DEF Closed
<1>3. Below(h, n) \subseteq S
  BY <1>1, <1>2, BelowFacts
<1> QED
  BY <1>3

-----------------------------------------------------------------------------
(* Releases.                                                               *)

OneLess(h, n) == [h EXCEPT ![n].refs = @ - 1]
Deleted(h, n) == [h EXCEPT ![n] = [h[n] EXCEPT !.refs = @ - 1, !.live = FALSE]]

\* A release that leaves references only changes the count.
LEMMA ReleaseKeeps ==
  ASSUME NEW h, NEW R, NEW c, Graph(h, R, c), NEW n \in Live(h), c[n] # 0, h[n].refs > 1,
         NEW g, g = OneLess(h, n)
  PROVE  /\ Graph(g, R, Minus(c, n)) /\ SameShape(h, g)
         /\ \A m \in Nodes(h) : g[m].class = h[m].class /\ g[m].parent = h[m].parent
<1>1. IsHeap(h) /\ n \in Nodes(h) /\ n \in 1 .. Len(h) /\ h \in Seq(Node) /\ n \in Nat
  BY HeapFacts DEF Graph, IsHeap
<1>2. h[n] \in Node /\ h[n].refs \in Nat /\ h[n].refs - 1 \in Nat /\ h[n].refs - 1 # 0
  BY <1>1, HeapFacts
<1>3. PICK new : new = [h[n] EXCEPT !.refs = h[n].refs - 1]
  OBVIOUS
<1>4. /\ new \in Node /\ new.class = h[n].class /\ new.kids = h[n].kids
      /\ new.parent = h[n].parent /\ new.live = h[n].live /\ new.refs = h[n].refs - 1
  BY <1>2, <1>3, OtherCount DEF Like
<1>5. /\ IsHeap(g) /\ Len(g) = Len(h)
      /\ g[n] = new /\ \A m \in Nodes(h) : m # n => g[m] = h[m]
  <2>1. g = [h EXCEPT ![n] = new]
    BY <1>3 DEF OneLess
  <2>2. IsHeap(h) /\ n \in Nodes(h) /\ new \in Node
    BY <1>1, <1>4
  <2>3. Altered(h, g, n, new)
    BY <2>1, <2>2, OneChanged, Zenon
  <2> QED
    BY <2>3 DEF Altered
<1>6. \A m \in Nodes(h) :
        /\ g[m].class = h[m].class /\ g[m].kids = h[m].kids
        /\ g[m].parent = h[m].parent /\ g[m].live = h[m].live
        /\ g[m].refs = IF m = n THEN h[n].refs - 1 ELSE h[m].refs
  BY <1>4, <1>5
<1>7. SameShape(h, g)
  BY <1>5, <1>6 DEF SameShape
<1>8. /\ IsHeap(g) /\ Whole(g) /\ Acyclic(g) /\ Live(g) = Live(h)
      /\ \A m : Owners(g, m) = Owners(h, m)
  <2>1. Whole(h) /\ Acyclic(h)
    BY DEF Graph
  <2> QED
    BY <1>1, <1>5, <1>7, <2>1, ShapeKept
<1>9. c \in [Nat -> Nat] /\ c[n] \in Nat /\ c[n] - 1 \in Nat
  <2>1. c \in [Nat -> Nat] /\ c[n] \in Nat
    BY <1>1 DEF Graph, Counts
  <2> QED
    BY <2>1
<1>10. Minus(c, n) \in Counts /\ \A m \in Nat : Minus(c, n)[m] = IF m = n THEN c[n] - 1 ELSE c[m]
  BY <1>9 DEF Minus, Counts
<1>11. \A m \in Nat : Minus(c, n)[m] # 0 => m = NULL \/ m \in Live(g)
  BY <1>1, <1>8, <1>10 DEF Graph
<1>12. \A m \in Live(g) : g[m].refs = Cardinality(Owners(g, m)) + Minus(c, n)[m]
  <2> TAKE m \in Live(g)
  <2>1. m \in Nodes(h) /\ m \in Nat /\ h[m].refs = Cardinality(Owners(h, m)) + c[m]
    BY <1>1, <1>8, HeapFacts DEF Graph
  <2>2. Cardinality(Owners(h, m)) \in Nat /\ c[m] \in Nat
    BY <1>1, <1>9, <2>1, OwnersAreFinite
  <2>3. CASE m = n
    <3>1. Owners(g, m) = Owners(h, m) /\ g[m].refs = h[m].refs - 1
      BY <1>6, <1>8, <2>1, <2>3
    <3>2. Minus(c, n)[m] = c[m] - 1
      BY <1>1, <1>10, <2>3
    <3> QED
      BY <2>1, <2>2, <3>1, <3>2
  <2>4. CASE m # n
    BY <1>6, <1>8, <1>9, <1>10, <2>1, <2>2, <2>4
  <2> QED
    BY <2>3, <2>4
<1>13. \A m \in Live(g) : g[m].refs = 0 => m \in R
  <2> TAKE m \in Live(g)
  <2>1. m \in Nodes(h) /\ h[m].refs \in Nat
    BY <1>1, <1>8, HeapFacts
  <2> QED
    BY <1>2, <1>6, <1>8, <2>1 DEF Graph
<1> QED
  BY <1>6, <1>7, <1>8, <1>10, <1>11, <1>12, <1>13 DEF Graph

\* Neither a root nor another node of a tree is deleted: there is a reference
\* to it besides the one that is released.
LEMMA DeletedIsNotInTree ==
  ASSUME NEW h, NEW R, NEW c, Graph(h, R, c), NEW T, NEW odd, Forest(h, T, R, odd),
         NEW n \in Live(h), c[n] # 0, h[n].refs <= 1, n \in R => c[n] > 1
  PROVE  n \notin T /\ Owners(h, n) = {} /\ c[n] = 1 /\ h[n].refs = 1
<1>1. IsHeap(h) /\ n \in Nodes(h) /\ n \in Nat /\ c[n] \in Nat /\ h[n].refs \in Nat
  BY HeapFacts DEF Graph, Counts
<1>2. Cardinality(Owners(h, n)) \in Nat /\ h[n].refs = Cardinality(Owners(h, n)) + c[n]
  BY <1>1, OwnersAreFinite DEF Graph
<1>3. Cardinality(Owners(h, n)) = 0 /\ c[n] = 1 /\ h[n].refs = 1
  BY <1>1, <1>2
<1>4. Owners(h, n) = {}
  BY <1>1, <1>3, NoOwner
<1>5. n \notin R
  BY <1>3
<1>6. n \notin T
  BY <1>4, <1>5 DEF Forest, Owners
<1> QED
  BY <1>3, <1>4, <1>6

\* The last release deletes the node, and the references to its children are what
\* is held then.
LEMMA ReleaseDeletes ==
  ASSUME NEW h, NEW R, NEW c, Graph(h, R, c), NEW T, NEW odd, Forest(h, T, R, odd),
         NEW n \in Live(h), c[n] # 0, h[n].refs <= 1, n \in R => c[n] > 1,
         NEW g, g = Deleted(h, n),
         NEW c2 \in Counts,
         \A m \in Nat : c2[m] = (IF m = n THEN c[m] - 1 ELSE c[m]) + Occ(h[n].kids, m)
  PROVE  /\ Graph(g, R, c2) /\ Forest(g, T, R, odd) /\ Live(g) = Live(h) \ {n} /\ n \notin T
         /\ Len(g) = Len(h)
         /\ \A m \in Nodes(h) : /\ g[m].class = h[m].class /\ g[m].parent = h[m].parent
                                /\ g[m].kids = h[m].kids
<1>1. IsHeap(h) /\ n \in Nodes(h) /\ n \in 1 .. Len(h) /\ h \in Seq(Node) /\ n \in Nat /\ n # NULL
  BY HeapFacts DEF Graph, IsHeap
<1>2. n \notin T /\ Owners(h, n) = {} /\ c[n] = 1 /\ h[n].refs = 1
  BY DeletedIsNotInTree
<1>3. h[n] \in Node /\ h[n].kids \in Seq(Nat) /\ Distinct(h[n].kids)
  BY <1>1, HeapFacts DEF Graph, Whole
<1>4. PICK new : new = [h[n] EXCEPT !.refs = h[n].refs - 1, !.live = FALSE]
  OBVIOUS
<1>5. /\ new \in Node /\ new.class = h[n].class /\ new.kids = h[n].kids
      /\ new.parent = h[n].parent /\ new.live = FALSE
  <2>1. h[n].refs - 1 \in Nat
    BY <1>2
  <2>2. PICK r \in Nat, x \in Node : r = h[n].refs - 1 /\ x = h[n]
    BY <1>3, <2>1
  <2>3. Like(new, x, x.kids, x.parent, r, FALSE)
    BY <1>4, <2>2, Dead
  <2> QED
    BY <2>2, <2>3 DEF Like
<1>6. /\ IsHeap(g) /\ Len(g) = Len(h)
      /\ g[n] = new /\ \A m \in Nodes(h) : m # n => g[m] = h[m]
  <2>1. g = [h EXCEPT ![n] = new]
    BY <1>4 DEF Deleted
  <2>2. IsHeap(h) /\ n \in Nodes(h) /\ new \in Node
    BY <1>1, <1>5
  <2>3. Altered(h, g, n, new)
    BY <2>1, <2>2, OneChanged, Zenon
  <2> QED
    BY <2>3 DEF Altered
<1>7. \A m \in Nodes(h) :
        /\ g[m].class = h[m].class /\ g[m].kids = h[m].kids /\ g[m].parent = h[m].parent
        /\ g[m].live = (h[m].live /\ m # n)
        /\ m # n => g[m].refs = h[m].refs
  <2>1. \A m \in Nodes(h) : h[m].live \in BOOLEAN
    BY <1>1, HeapFacts
  <2> QED
    BY <1>5, <1>6, <2>1
<1>8. Nodes(g) = Nodes(h) /\ Live(g) = Live(h) \ {n} /\ IsHeap(g)
  <2>1. Nodes(g) = Nodes(h) /\ IsHeap(g)
    BY <1>1, <1>6, HeapFacts
  <2> QED
    BY <1>7, <2>1 DEF Live
<1>9. \A m \in Nodes(h) : Children(g, m) = Children(h, m)
  BY <1>7 DEF Children, Slots
<1>10. \A m : Owners(g, m) = Owners(h, m) \ {n}
  BY <1>8, <1>9, HeapFacts DEF Owners
<1>11. \A o \in Live(h) : n \notin Children(h, o)
  BY <1>2 DEF Owners
<1>12. Whole(g)
  <2>1. \A m \in Nodes(g) : Children(g, m) \subseteq Nodes(g)
    BY <1>8, <1>9 DEF Whole, Graph
  <2>2. ASSUME NEW m \in Live(g)
        PROVE  Children(g, m) \subseteq Live(g) /\ Distinct(g[m].kids)
    <3>1. m \in Live(h) /\ m \in Nodes(h)
      BY <1>1, <1>8, HeapFacts
    <3>2. Children(h, m) \subseteq Live(h) /\ Distinct(h[m].kids) /\ n \notin Children(h, m)
      BY <1>11, <3>1 DEF Whole, Graph
    <3>3. Children(g, m) = Children(h, m) /\ g[m].kids = h[m].kids
      BY <1>7, <1>9, <3>1
    <3> QED
      BY <1>8, <3>2, <3>3
  <2> QED
    BY <2>1, <2>2 DEF Whole
<1>13. Acyclic(g)
  <2> SUFFICES ASSUME NEW S \in SUBSET Live(g), S # {}
               PROVE  \E m \in S : \A o \in S : m \notin Children(g, o)
    BY DEF Acyclic
  <2>1. PICK m \in S : \A o \in S : m \notin Children(h, o)
    BY <1>8 DEF Acyclic, Graph
  <2>2. \A o \in S : Children(g, o) = Children(h, o)
    BY <1>1, <1>8, <1>9, HeapFacts
  <2> QED
    BY <2>1, <2>2
<1>14. c \in [Nat -> Nat] /\ \A m \in Nat : Occ(h[n].kids, m) \in Nat
  BY <1>3, PlacesAreFinite DEF Graph, Counts
<1>15. \A m \in Nat \ {NULL} : Occ(h[n].kids, m) = IF m \in Children(h, n) THEN 1 ELSE 0
  BY <1>3, OccOnce DEF Children, Slots, Entries
<1>16. \A m \in Nat : c2[m] # 0 => m = NULL \/ m \in Live(g)
  <2> TAKE m \in Nat
  <2> SUFFICES ASSUME c2[m] # 0, m # NULL
               PROVE  m \in Live(g)
    OBVIOUS
  <2>1. CASE m \in Children(h, n)
    BY <1>8, <1>11, <2>1 DEF Whole, Graph
  <2>2. CASE m \notin Children(h, n)
    <3>1. m # n /\ c[m] # 0
      BY <1>2, <1>14, <1>15, <2>2
    <3> QED
      BY <1>8, <3>1 DEF Graph
  <2> QED
    BY <2>1, <2>2
<1>17. \A m \in Live(g) : g[m].refs = Cardinality(Owners(g, m)) + c2[m]
  <2> TAKE m \in Live(g)
  <2>1. m \in Nodes(h) /\ m \in Nat /\ m # NULL /\ m # n /\ m \in Live(h)
    BY <1>1, <1>8, HeapFacts
  <2>2. h[m].refs = Cardinality(Owners(h, m)) + c[m] /\ g[m].refs = h[m].refs
    BY <1>7, <2>1 DEF Graph
  <2>3. c2[m] = c[m] + IF m \in Children(h, n) THEN 1 ELSE 0
    BY <1>14, <1>15, <2>1
  <2>4. Cardinality(Owners(h, m)) \in Nat /\ Cardinality(Owners(g, m)) \in Nat /\ c[m] \in Nat
    BY <1>1, <1>8, <1>14, <2>1, OwnersAreFinite
  <2>5. Cardinality(Owners(g, m)) = Cardinality(Owners(h, m)) - IF m \in Children(h, n) THEN 1 ELSE 0
    <3>1. m \in Children(h, n) <=> n \in Owners(h, m)
      BY DEF Owners
    <3>2. IsFiniteSet(Owners(h, m)) /\ Owners(g, m) = Owners(h, m) \ {n}
      BY <1>1, <1>10, OwnersAreFinite
    <3>3. Cardinality(Owners(h, m) \ {n}) =
            IF n \in Owners(h, m) THEN Cardinality(Owners(h, m)) - 1 ELSE Cardinality(Owners(h, m))
      BY <3>2, FS_RemoveElement
    <3>4. CASE n \in Owners(h, m)
      BY <2>4, <3>1, <3>2, <3>3, <3>4
    <3>5. CASE n \notin Owners(h, m)
      <4>1. Owners(g, m) = Owners(h, m)
        BY <3>2, <3>5
      <4> QED
        BY <2>4, <3>1, <3>5, <4>1
    <3> QED
      BY <3>4, <3>5
  <2> QED
    BY <2>2, <2>3, <2>4, <2>5
<1>18. R \subseteq Live(g) /\ (\A r \in R : Owners(g, r) = {}) /\ \A m \in Live(g) : g[m].refs = 0 => m \in R
  <2>1. n \notin R
    BY <1>2
  <2>2. \A m \in Live(g) : g[m].refs = h[m].refs
    BY <1>1, <1>7, <1>8, HeapFacts
  <2> QED
    BY <1>8, <1>10, <2>1, <2>2 DEF Graph
<1>19. Graph(g, R, c2)
  BY <1>8, <1>12, <1>13, <1>16, <1>17, <1>18 DEF Graph
<1>20. Forest(g, T, R, odd)
  <2>1. T \subseteq Live(g) /\ \A o \in T : Children(g, o) = Children(h, o)
    BY <1>1, <1>2, <1>8, <1>9, HeapFacts DEF Forest
  <2>2. \A m \in T : g[m].parent = h[m].parent
    BY <1>1, <1>7, HeapFacts DEF Forest
  <2>3. \A o \in T : \A m \in Children(g, o) : g[m].parent = o \/ <<o, m>> \in odd
    BY <2>1, <2>2 DEF Forest
  <2> QED
    BY <2>1, <2>3 DEF Forest
<1> QED
  BY <1>2, <1>6, <1>7, <1>8, <1>19, <1>20

-----------------------------------------------------------------------------
(* Changes of the graph.                                                   *)

\* A graph whose edges are images of the edges of an acyclic one.
LEMMA AcyclicImage ==
  ASSUME NEW h, NEW g, Acyclic(h), NEW phi,
         \A n \in Live(g) : phi[n] \in Live(h),
         \A o, m \in Live(g) : m \in Children(g, o) => phi[m] \in Children(h, phi[o])
  PROVE  Acyclic(g)
<1> SUFFICES ASSUME NEW S \in SUBSET Live(g), S # {}
             PROVE  \E m \in S : \A o \in S : m \notin Children(g, o)
  BY DEF Acyclic
<1> DEFINE Q == {phi[n] : n \in S}
<1>1. Q \in SUBSET Live(h) /\ Q # {}
  OBVIOUS
<1>2. PICK q \in Q : \A o \in Q : q \notin Children(h, o)
  <2> HIDE DEF Q
  <2> QED
    BY <1>1 DEF Acyclic
<1>3. PICK m \in S : q = phi[m]
  OBVIOUS
<1>4. \A o \in S : phi[o] \in Q
  OBVIOUS
<1> QED
  BY <1>2, <1>3, <1>4

\* A graph that has new edges from a node without owners only.
LEMMA AcyclicFromRoot ==
  ASSUME NEW h, NEW g, Acyclic(h), NEW p, Owners(g, p) = {},
         \A o \in Live(g) \ {p} : o \in Live(h) /\ Children(g, o) \subseteq Children(h, o)
  PROVE  Acyclic(g)
<1> SUFFICES ASSUME NEW S \in SUBSET Live(g), S # {}
             PROVE  \E m \in S : \A o \in S : m \notin Children(g, o)
  BY DEF Acyclic
<1>1. CASE p \in S
  BY <1>1 DEF Owners
<1>2. CASE p \notin S
  <2>1. S \in SUBSET Live(h)
    BY <1>2
  <2>2. PICK m \in S : \A o \in S : m \notin Children(h, o)
    BY <2>1 DEF Acyclic
  <2> QED
    BY <1>2, <2>2
<1> QED
  BY <1>1, <1>2

\* Node p lets go of the children Drop, which are to be released, and takes a
\* reference to those of Add.
Rewired(h, g, p, Add, Drop) ==
  /\ IsHeap(g) /\ Len(g) = Len(h)
  /\ \A n \in Nodes(h) :
       /\ g[n].live = h[n].live
       /\ n # p => g[n].kids = h[n].kids
       /\ g[n].refs = h[n].refs + (IF n \in Add THEN 1 ELSE 0)
  /\ Children(g, p) = (Children(h, p) \ Drop) \cup Add /\ Distinct(g[p].kids)

RewiredEdges(h, g, p, Add, Drop) ==
  /\ Nodes(g) = Nodes(h) /\ Live(g) = Live(h)
  /\ \A n \in Nodes(h) : n # p => Children(g, n) = Children(h, n)
  /\ \A m : Owners(g, m) = IF m \in (Children(h, p) \ Drop) \cup Add THEN Owners(h, m) \cup {p}
                           ELSE Owners(h, m) \ {p}
\* Only the children that come or go get or lose an owner.
LEMMA RewiredOwners ==
  ASSUME NEW h, IsHeap(h), NEW p \in Live(h), NEW Add, NEW Drop, NEW g, Rewired(h, g, p, Add, Drop)
  PROVE  RewiredEdges(h, g, p, Add, Drop)
<1>1. Nodes(g) = Nodes(h)
  BY HeapFacts DEF Rewired
<1>2. Live(g) = Live(h)
  BY <1>1 DEF Live, Rewired
<1>3. \A n \in Nodes(h) : n # p => Children(g, n) = Children(h, n)
  BY DEF Children, Slots, Rewired
<1>4. \A m : Owners(g, m) = IF m \in (Children(h, p) \ Drop) \cup Add THEN Owners(h, m) \cup {p}
                            ELSE Owners(h, m) \ {p}
  BY <1>2, <1>3, HeapFacts DEF Owners, Rewired
<1> QED
  BY <1>1, <1>2, <1>3, <1>4 DEF RewiredEdges

\* Children that come are no roots any more; references to those that go are held
\* until they are released.
LEMMA RewiredGraph ==
  ASSUME NEW h, NEW R, NEW c, Graph(h, R, c), NEW p \in Live(h),
         NEW Add \in SUBSET Live(h), NEW Drop \in SUBSET Children(h, p), Add \cap Children(h, p) = {},
         NEW g, Rewired(h, g, p, Add, Drop), Acyclic(g),
         NEW c2 \in Counts, \A m \in Nat \ {NULL} : c2[m] = c[m] + (IF m \in Drop THEN 1 ELSE 0)
  PROVE  Graph(g, R \ Add, c2)
<1>1. IsHeap(h) /\ Whole(h) /\ c \in [Nat -> Nat] /\ c2 \in [Nat -> Nat] /\ IsHeap(g)
  BY DEF Graph, Counts, Rewired
<1>2. /\ Nodes(g) = Nodes(h) /\ Live(g) = Live(h)
      /\ \A n \in Nodes(h) : n # p => Children(g, n) = Children(h, n)
      /\ \A m : Owners(g, m) = IF m \in (Children(h, p) \ Drop) \cup Add THEN Owners(h, m) \cup {p}
                               ELSE Owners(h, m) \ {p}
  <2>1. RewiredEdges(h, g, p, Add, Drop)
    BY <1>1, RewiredOwners
  <2> QED
    BY <2>1 DEF RewiredEdges
<1>3. Live(h) \subseteq Nodes(h) /\ NULL \notin Nodes(h) /\ Nodes(h) \subseteq Nat
  BY <1>1, HeapFacts
<1>4. Whole(g)
  <2>1. ASSUME NEW n \in Nodes(g)
        PROVE  Children(g, n) \subseteq Nodes(g)
    <3>1. CASE n = p
      BY <1>1, <1>2, <1>3, <3>1 DEF Whole, Rewired
    <3>2. CASE n # p
      BY <1>1, <1>2, <3>2 DEF Whole
    <3> QED
      BY <3>1, <3>2
  <2>2. ASSUME NEW n \in Live(g)
        PROVE  Children(g, n) \subseteq Live(g) /\ Distinct(g[n].kids)
    <3>1. n \in Live(h) /\ n \in Nodes(h)
      BY <1>2, <1>3
    <3>2. CASE n = p
      BY <1>1, <1>2, <3>2 DEF Whole, Rewired
    <3>3. CASE n # p
      <4>1. Children(g, n) = Children(h, n) /\ g[n].kids = h[n].kids
        BY <1>2, <3>1, <3>3 DEF Rewired
      <4> QED
        BY <1>1, <1>2, <3>1, <4>1 DEF Whole
    <3> QED
      BY <3>2, <3>3
  <2> QED
    BY <2>1, <2>2 DEF Whole
<1>5. \A m \in Nat : c2[m] # 0 => m = NULL \/ m \in Live(g)
  <2> SUFFICES ASSUME NEW m \in Nat, c2[m] # 0, m # NULL
               PROVE  m \in Live(h)
    BY <1>2
  <2>1. CASE m \in Drop
    BY <1>1, <2>1 DEF Whole
  <2>2. CASE m \notin Drop
    <3>1. c2[m] = c[m] /\ c[m] # 0
      BY <1>1, <2>2
    <3> QED
      BY <3>1 DEF Graph
  <2> QED
    BY <2>1, <2>2
<1>6. ASSUME NEW m \in Live(g)
      PROVE  g[m].refs = Cardinality(Owners(g, m)) + c2[m]
  <2>1. m \in Live(h) /\ m \in Nodes(h) /\ m \in Nat \ {NULL}
    BY <1>2, <1>3
  <2>2. h[m].refs = Cardinality(Owners(h, m)) + c[m] /\ c[m] \in Nat /\ Cardinality(Owners(h, m)) \in Nat
    BY <1>1, <2>1, OwnersAreFinite DEF Graph
  <2>3. IsFiniteSet(Owners(h, m)) /\ (p \in Owners(h, m) <=> m \in Children(h, p))
    BY <1>1, OwnersAreFinite DEF Owners
  <2>4. g[m].refs = h[m].refs + (IF m \in Add THEN 1 ELSE 0)
    BY <2>1 DEF Rewired
  <2>5. c2[m] = c[m] + (IF m \in Drop THEN 1 ELSE 0)
    BY <2>1
  <2>6. CASE m \in Drop
    <3>1. Owners(g, m) = Owners(h, m) \ {p} /\ p \in Owners(h, m) /\ m \notin Add
      BY <1>2, <2>3, <2>6
    <3>2. Cardinality(Owners(h, m) \ {p}) = Cardinality(Owners(h, m)) - 1
      BY <2>3, <3>1, FS_RemoveElement
    <3> QED
      BY <2>2, <2>4, <2>5, <2>6, <3>1, <3>2
  <2>7. CASE m \in Add
    <3>1. Owners(g, m) = Owners(h, m) \cup {p} /\ p \notin Owners(h, m) /\ m \notin Drop
      BY <1>2, <2>3, <2>7
    <3>2. Cardinality(Owners(h, m) \cup {p}) = Cardinality(Owners(h, m)) + 1
      BY <2>3, <3>1, FS_AddElement
    <3> QED
      BY <2>2, <2>4, <2>5, <2>7, <3>1, <3>2
  <2>8. CASE m \notin Add /\ m \notin Drop
    <3>1. Owners(g, m) = IF m \in (Children(h, p) \ Drop) \cup Add THEN Owners(h, m) \cup {p}
                         ELSE Owners(h, m) \ {p}
      BY <1>2
    <3>2. CASE m \in Children(h, p)
      <4>1. Owners(g, m) = Owners(h, m) \cup {p} /\ p \in Owners(h, m)
        BY <2>3, <2>8, <3>1, <3>2
      <4>2. Owners(g, m) = Owners(h, m)
        BY <4>1
      <4> QED
        BY <2>2, <2>4, <2>5, <2>8, <4>2
    <3>3. CASE m \notin Children(h, p)
      <4>1. Owners(g, m) = Owners(h, m) \ {p} /\ p \notin Owners(h, m)
        BY <2>3, <2>8, <3>1, <3>3
      <4>2. Owners(g, m) = Owners(h, m)
        BY <4>1
      <4> QED
        BY <2>2, <2>4, <2>5, <2>8, <4>2
    <3> QED
      BY <3>2, <3>3
  <2> QED
    BY <2>6, <2>7, <2>8
<1>7. R \ Add \subseteq Live(g) /\ \A r \in R \ Add : Owners(g, r) = {}
  <2>1. R \subseteq Live(h) /\ \A r \in R : Owners(h, r) = {}
    BY DEF Graph
  <2>2. \A r \in R : r \notin Children(h, p)
    BY <2>1 DEF Owners
  <2> QED
    BY <1>2, <2>1, <2>2
<1>8. ASSUME NEW m \in Live(g), g[m].refs = 0
      PROVE  m \in R \ Add
  <2>1. m \in Live(h) /\ m \in Nodes(h) /\ h[m].refs \in Nat
    BY <1>1, <1>2, HeapFacts
  <2>2. g[m].refs = h[m].refs + (IF m \in Add THEN 1 ELSE 0)
    BY <2>1 DEF Rewired
  <2>3. h[m].refs = 0 /\ m \notin Add
    BY <1>8, <2>1, <2>2
  <2> QED
    BY <2>1, <2>3 DEF Graph
<1> QED
  BY <1>1, <1>4, <1>5, <1>6, <1>7, <1>8 DEF Graph

-----------------------------------------------------------------------------
\* A new node that has no children yet.
Grown(h, g, p, new) ==
  /\ Nodes(g) = Nodes(h) \cup {p} /\ Live(g) = Live(h) \cup {p}
  /\ p \notin Nodes(h) /\ p \in Nat /\ Len(g) = p
  /\ \A n \in Nodes(h) : g[n] = h[n] /\ Children(g, n) = Children(h, n)
  /\ g[p] = new /\ Children(g, p) = {}

\* A new node has no owner and no references: it is a root.
LEMMA FreshGraph ==
  ASSUME NEW h, NEW R, NEW c, Graph(h, R, c), NEW new \in Node,
         new.kids = <<>>, new.refs = 0, new.live = TRUE, NEW g, g = Append(h, new)
  PROVE  Graph(g, R \cup {Len(h) + 1}, c) /\ Grown(h, g, Len(h) + 1, new)
<1> DEFINE p == Len(h) + 1
<1>1. IsHeap(h) /\ h \in Seq(Node) /\ Whole(h) /\ Acyclic(h)
  BY DEF Graph, IsHeap
<1>2. Len(h) \in Nat /\ Nodes(h) = 1 .. Len(h) /\ Live(h) \subseteq Nodes(h)
  BY <1>1, HeapFacts
<1>3. g \in Seq(Node) /\ Len(g) = p
  BY <1>1
<1>4. IsHeap(g) /\ p \in Nat /\ p \notin Nodes(h) /\ Nodes(g) = Nodes(h) \cup {p}
  <2>1. IsHeap(g) /\ Nodes(g) = 1 .. p
    BY <1>3, HeapFacts DEF IsHeap
  <2> QED
    BY <1>2, <2>1
<1>5. \A n \in Nodes(h) : g[n] = h[n]
  BY <1>1, <1>2
<1>6. g[p] = new
  BY <1>1
<1> HIDE DEF p
<1>7. Live(g) = Live(h) \cup {p}
  BY <1>4, <1>5, <1>6 DEF Live
<1>8. \A n \in Nodes(h) : Children(g, n) = Children(h, n)
  BY <1>5 DEF Children, Slots
<1>9. Children(g, p) = {}
  <2>1. Slots(g, p) = {}
    BY <1>6 DEF Slots
  <2> QED
    BY <2>1 DEF Children
<1>10. \A m : Owners(g, m) = Owners(h, m)
  BY <1>2, <1>7, <1>8, <1>9 DEF Owners
<1>11. Owners(h, p) = {}
  BY <1>1, <1>2, <1>4 DEF Owners, Whole
<1>12. Whole(g)
  <2>1. \A n \in Nodes(g) : Children(g, n) \subseteq Nodes(g)
    BY <1>1, <1>4, <1>8, <1>9 DEF Whole
  <2>2. ASSUME NEW n \in Live(g)
        PROVE  Children(g, n) \subseteq Live(g) /\ Distinct(g[n].kids)
    <3>1. CASE n = p
      <4>1. Distinct(<<>>)
        BY DEF Distinct
      <4> QED
        BY <1>6, <1>9, <3>1, <4>1
    <3>2. CASE n \in Live(h)
      BY <1>1, <1>2, <1>5, <1>7, <1>8, <3>2 DEF Whole
    <3> QED
      BY <1>7, <3>1, <3>2
  <2> QED
    BY <2>1, <2>2 DEF Whole
<1>13. Acyclic(g)
  <2>1. Owners(g, p) = {}
    BY <1>10, <1>11
  <2>2. \A o \in Live(g) \ {p} : o \in Live(h) /\ Children(g, o) \subseteq Children(h, o)
    BY <1>2, <1>7, <1>8
  <2> QED
    BY <1>1, <2>1, <2>2, AcyclicFromRoot
<1>14. c \in Counts /\ (\A m \in Nat : c[m] # 0 => m = NULL \/ m \in Live(h)) /\ c[p] = 0
  <2>1. c \in Counts /\ (\A m \in Nat : c[m] # 0 => m = NULL \/ m \in Live(h))
    BY DEF Graph
  <2>2. p # NULL /\ p \notin Live(h)
    BY <1>2, <1>4 DEF p, NULL
  <2> QED
    BY <1>4, <2>1, <2>2
<1>15. \A m \in Live(g) : g[m].refs = Cardinality(Owners(g, m)) + c[m]
  <2>1. Cardinality(Owners(g, p)) = 0
    BY <1>10, <1>11, FS_EmptySet
  <2>2. g[p].refs = Cardinality(Owners(g, p)) + c[p]
    BY <1>6, <1>14, <2>1
  <2>3. \A m \in Live(h) : g[m].refs = Cardinality(Owners(g, m)) + c[m]
    BY <1>2, <1>5, <1>10 DEF Graph
  <2> QED
    BY <1>7, <2>2, <2>3
<1>16. \A m \in Live(g) : g[m].refs = 0 => m \in R \cup {p}
  BY <1>2, <1>5, <1>7 DEF Graph
<1>17. R \cup {p} \subseteq Live(g) /\ \A r \in R \cup {p} : Owners(g, r) = {}
  BY <1>7, <1>10, <1>11 DEF Graph
<1>18. Graph(g, R \cup {p}, c)
  BY <1>4, <1>7, <1>12, <1>13, <1>14, <1>15, <1>16, <1>17 DEF Graph
<1> QED
  BY <1>3, <1>4, <1>5, <1>6, <1>7, <1>8, <1>9, <1>18 DEF p, Grown

-----------------------------------------------------------------------------
(* Constructors.                                                           *)

Constructed(h, g, p, class, tag, kids) ==
  /\ IsHeap(g) /\ p = Len(h) + 1 /\ Len(g) = p /\ Nodes(g) = Nodes(h) \cup {p} /\ p \notin Nodes(h)
  /\ \A n \in Nodes(h) :
       /\ g[n].class = h[n].class /\ g[n].tag = h[n].tag
       /\ g[n].kids = h[n].kids /\ g[n].live = h[n].live
       /\ g[n].refs = h[n].refs + (IF n \in Entries(kids) THEN 1 ELSE 0)
       /\ g[n].parent = IF n \in Entries(kids) THEN p ELSE h[n].parent
  /\ g[p] = NewNode(class, tag, kids)

\* A new node.
LEMMA NewNodeIs ==
  ASSUME NEW class \in ClassNames, NEW tag \in Tags, NEW kids \in Seq(Nat)
  PROVE  /\ NewNode(class, tag, kids) \in Node
         /\ NewNode(class, tag, kids).class = class /\ NewNode(class, tag, kids).tag = tag
         /\ NewNode(class, tag, kids).kids = kids /\ NewNode(class, tag, kids).refs = 0
         /\ NewNode(class, tag, kids).live = TRUE
  BY DEF NewNode, Node, Unset

\* A constructor adds a node, a reference to each child and its parent.
LEMMA ConstructIs ==
  ASSUME NEW h, IsHeap(h), NEW class \in ClassNames, NEW tag \in Tags, NEW kids \in Seq(Nat)
  PROVE  Constructed(h, Construct(h, class, tag, kids), Len(h) + 1, class, tag, kids)
<1> DEFINE p == Len(h) + 1
           g == Construct(h, class, tag, kids)
           old == [n \in Nodes(h) |->
                     IF \E i \in DOMAIN kids : kids[i] = n THEN Adopt(h, p, n)[n] ELSE h[n]]
<1>1. Len(h) \in Nat /\ Nodes(h) = 1 .. Len(h) /\ p \in Nat /\ p \in Int
  BY HeapFacts
<1>2. \A n \in Nodes(h) : h[n] \in Node /\ h[n].refs \in Nat
  BY HeapFacts
<1>3. ASSUME NEW n \in Nodes(h), n \in Entries(kids)
      PROVE  Like(old[n], h[n], h[n].kids, p, h[n].refs + 1, h[n].live)
  <2>1. \E i \in DOMAIN kids : kids[i] = n
    BY <1>3 DEF Entries
  <2>2. PICK new : new = [h[n] EXCEPT !.refs = @ + 1, !.parent = p]
    OBVIOUS
  <2>3. old[n] = new
    <3>1. old[n] = Adopt(h, p, n)[n]
      BY <2>1
    <3>2. Adopt(h, p, n) = [h EXCEPT ![n] = new]
      BY <2>2 DEF Adopt
    <3> QED
      BY <3>1, <3>2 DEF Nodes
  <2> HIDE DEF old, p
  <2>4. PICK x \in Node : x = h[n]
    BY <1>2
  <2>5. Like(new, x, x.kids, p, x.refs + 1, x.live)
    BY <1>1, <2>2, <2>4, Adopted
  <2> QED
    BY <2>3, <2>4, <2>5
<1>4. ASSUME NEW n \in Nodes(h), n \notin Entries(kids)
      PROVE  old[n] = h[n]
  BY <1>4 DEF Entries
<1>5. \A n \in Nodes(h) : old[n] \in Node
  BY <1>2, <1>3, <1>4 DEF Like
<1>6. old \in [1 .. Len(h) -> Node]
  BY <1>1, <1>5
<1>7. g = Append(old, NewNode(class, tag, kids))
  BY DEF Construct
<1>8. \A n \in Nodes(h) :
        /\ old[n].class = h[n].class /\ old[n].tag = h[n].tag
        /\ old[n].kids = h[n].kids /\ old[n].live = h[n].live
        /\ old[n].refs = h[n].refs + (IF n \in Entries(kids) THEN 1 ELSE 0)
        /\ old[n].parent = IF n \in Entries(kids) THEN p ELSE h[n].parent
  <2> TAKE n \in Nodes(h)
  <2>1. CASE n \in Entries(kids)
    BY <1>3, <2>1 DEF Like
  <2>2. CASE n \notin Entries(kids)
    BY <1>2, <1>4, <2>2
  <2> QED
    BY <2>1, <2>2
<1> HIDE DEF old
<1>9. old \in Seq(Node) /\ Len(old) = Len(h)
  <2>1. old \in Seq(Node)
    BY <1>1, <1>6
  <2>2. DOMAIN old = 1 .. Len(h)
    BY <1>6
  <2> QED
    BY <1>1, <2>1, <2>2, LenProperties
<1>10. PICK new \in Node : new = NewNode(class, tag, kids)
  BY NewNodeIs
<1>11. g = Append(old, new)
  BY <1>7, <1>10
<1> HIDE DEF g
<1>12. g \in Seq(Node) /\ Len(g) = p
  BY <1>9, <1>11
<1>13. g[p] = new
  BY <1>9, <1>11
<1>14. \A n \in Nodes(h) : g[n] = old[n]
  BY <1>1, <1>9, <1>11
<1> HIDE DEF p
<1>15. IsHeap(g)
  BY <1>12 DEF IsHeap
<1>16. Nodes(g) = Nodes(h) \cup {p} /\ p \notin Nodes(h)
  <2>1. Nodes(g) = 1 .. p
    BY <1>12, <1>15, HeapFacts
  <2> QED
    BY <1>1, <2>1 DEF p
<1>17. \A n \in Nodes(h) :
         /\ g[n].class = h[n].class /\ g[n].tag = h[n].tag
         /\ g[n].kids = h[n].kids /\ g[n].live = h[n].live
         /\ g[n].refs = h[n].refs + (IF n \in Entries(kids) THEN 1 ELSE 0)
         /\ g[n].parent = IF n \in Entries(kids) THEN p ELSE h[n].parent
  BY <1>8, <1>14
<1>18. g[p] = NewNode(class, tag, kids) /\ p = Len(h) + 1
  BY <1>10, <1>13 DEF p
<1>19. Constructed(h, g, p, class, tag, kids)
  BY <1>12, <1>15, <1>16, <1>17, <1>18, Zenon DEF Constructed
<1> QED
  BY <1>19 DEF g, p

Owning(h, g, p, kids) ==
  /\ Live(g) = Live(h) \cup {p} /\ p \notin Live(h) /\ Children(g, p) = Entries(kids) \ {NULL}
  /\ \A n \in Nodes(h) : Children(g, n) = Children(h, n)

\* What it is given is then owned by the new node, which nobody owns.
LEMMA ConstructGraph ==
  ASSUME NEW h, NEW R, NEW c, Graph(h, R, c),
         NEW class \in ClassNames, NEW tag \in Tags, NEW kids \in Seq(Nat),
         Entries(kids) \subseteq Live(h) \cup {NULL}, Distinct(kids),
         NEW g, NEW p, Constructed(h, g, p, class, tag, kids)
  PROVE  Graph(g, (R \ Entries(kids)) \cup {p}, c) /\ Owning(h, g, p, kids)
<1>1. IsHeap(h) /\ <<>> \in Seq(Nat) /\ Acyclic(h) /\ Whole(h)
  BY DEF Graph
<1>2. PICK new \in Node : /\ new = NewNode(class, tag, <<>>) /\ new.kids = <<>>
                          /\ new.refs = 0 /\ new.live = TRUE
  <2>1. NewNode(class, tag, <<>>) \in Node
    BY <1>1, NewNodeIs
  <2> QED
    BY <2>1 DEF NewNode
<1>3. PICK h0 : h0 = Append(h, new)
  OBVIOUS
<1>4. /\ IsHeap(g) /\ p = Len(h) + 1 /\ Len(g) = p /\ Nodes(g) = Nodes(h) \cup {p} /\ p \notin Nodes(h)
      /\ \A n \in Nodes(h) :
           /\ g[n].kids = h[n].kids /\ g[n].live = h[n].live
           /\ g[n].refs = h[n].refs + (IF n \in Entries(kids) THEN 1 ELSE 0)
      /\ g[p] = NewNode(class, tag, kids)
  BY DEF Constructed
<1>5. /\ Graph(h0, R \cup {p}, c) /\ Nodes(h0) = Nodes(h) \cup {p}
      /\ Live(h0) = Live(h) \cup {p} /\ p \notin Nodes(h) /\ p \in Nat
      /\ Len(h0) = p
      /\ \A n \in Nodes(h) : h0[n] = h[n] /\ Children(h0, n) = Children(h, n)
      /\ h0[p] = new /\ Children(h0, p) = {}
  <2>1. Graph(h0, R \cup {p}, c) /\ Grown(h, h0, p, new)
    <3>1. p = Len(h) + 1
      BY <1>4
    <3>2. Graph(h0, R \cup {Len(h) + 1}, c) /\ Grown(h, h0, Len(h) + 1, new)
      BY <1>2, <1>3, FreshGraph
    <3> QED
      BY <3>1, <3>2
  <2> QED
    BY <2>1 DEF Grown
<1>6. g[p].kids = kids /\ g[p].refs = 0 /\ g[p].live = TRUE
  BY <1>4 DEF NewNode
<1>7. PICK Add : Add = Entries(kids) \ {NULL}
  OBVIOUS
<1>8. Live(h) \subseteq Nodes(h) /\ NULL \notin Nodes(h)
  BY <1>1, HeapFacts
<1>9. Add \in SUBSET Live(h) /\ p \notin Add /\ NULL \notin Add
      /\ \A n \in Nodes(h) : n \in Entries(kids) <=> n \in Add
  BY <1>4, <1>7, <1>8
<1>10. Children(g, p) = Add
  BY <1>6, <1>7 DEF Children, Slots, Entries
<1>11. Rewired(h0, g, p, Add, {})
  <2>1. \A n \in Nodes(h0) : /\ g[n].live = h0[n].live
                             /\ n # p => g[n].kids = h0[n].kids
                             /\ g[n].refs = h0[n].refs + (IF n \in Add THEN 1 ELSE 0)
    <3>1. \A n \in Nodes(h) : /\ g[n].live = h0[n].live
                              /\ n # p => g[n].kids = h0[n].kids
                              /\ g[n].refs = h0[n].refs + (IF n \in Add THEN 1 ELSE 0)
      BY <1>4, <1>5, <1>9
    <3>2. g[p].live = h0[p].live /\ g[p].refs = h0[p].refs + (IF p \in Add THEN 1 ELSE 0)
      <4>1. h0[p] = new /\ p \notin Add
        BY <1>5, <1>9
      <4>2. h0[p].live = TRUE /\ h0[p].refs = 0
        BY <1>2, <4>1
      <4>3. PICK x : x = IF p \in Add THEN 1 ELSE 0
        OBVIOUS
      <4>4. x = 0 /\ 0 + 0 = 0
        BY <4>1, <4>3
      <4>5. g[p].live = h0[p].live /\ g[p].refs = h0[p].refs + x
        BY <1>6, <4>2, <4>4
      <4> QED
        BY <4>3, <4>5
    <3> QED
      BY <1>5, <3>1, <3>2
  <2> QED
    BY <1>4, <1>5, <1>6, <1>10, <2>1 DEF Rewired
<1>12. IsHeap(h0) /\ Acyclic(h0) /\ Whole(h0) /\ p \in Live(h0)
  BY <1>5 DEF Graph
<1>13. /\ Live(g) = Live(h0) /\ \A n \in Nodes(h0) : n # p => Children(g, n) = Children(h0, n)
       /\ \A m : Owners(g, m) = IF m \in Add THEN Owners(h0, m) \cup {p} ELSE Owners(h0, m) \ {p}
  <2>1. RewiredEdges(h0, g, p, Add, {})
    BY <1>11, <1>12, RewiredOwners
  <2> QED
    BY <1>5, <2>1 DEF RewiredEdges
<1>14. Acyclic(g)
  <2>1. Owners(g, p) = {}
    <3>1. Owners(h0, p) = {}
      BY <1>5 DEF Graph
    <3> QED
      BY <1>9, <1>13, <3>1
  <2>2. \A o \in Live(g) \ {p} : o \in Live(h0) /\ Children(g, o) \subseteq Children(h0, o)
    BY <1>5, <1>8, <1>13
  <2> QED
    BY <1>12, <2>1, <2>2, AcyclicFromRoot
<1>15. Graph(g, (R \cup {p}) \ Add, c)
  <2>1. c \in Counts /\ \A m \in Nat \ {NULL} : c[m] = c[m] + (IF m \in {} THEN 1 ELSE 0)
    <3>1. c \in [Nat -> Nat]
      BY DEF Graph, Counts
    <3> QED
      BY <3>1 DEF Counts
  <2>2. Add \in SUBSET Live(h0) /\ {} \in SUBSET Children(h0, p) /\ Add \cap Children(h0, p) = {}
    BY <1>5, <1>9
  <2> QED
    BY <1>5, <1>11, <1>12, <1>14, <2>1, <2>2, RewiredGraph
<1>16. (R \cup {p}) \ Add = (R \ Entries(kids)) \cup {p}
  <2>1. R \subseteq Nodes(h)
    BY <1>8 DEF Graph
  <2> QED
    BY <1>9, <2>1
<1>17. \A n \in Nodes(h) : Children(g, n) = Children(h, n)
  BY <1>4, <1>5, <1>13
<1> QED
  BY <1>5, <1>7, <1>8, <1>10, <1>13, <1>15, <1>16, <1>17 DEF Owning

\* The roots it is given become children of the new root.
LEMMA ConstructForest ==
  ASSUME NEW h, NEW R, NEW c, Graph(h, R, c), NEW T, NEW odd, Forest(h, T, R, odd),
         NEW class \in ClassNames, NEW tag \in Tags, NEW kids \in Seq(Nat),
         Entries(kids) \subseteq R \cup {NULL}, Distinct(kids),
         NEW g, NEW p, Constructed(h, g, p, class, tag, kids)
  PROVE  /\ Graph(g, (R \ Entries(kids)) \cup {p}, c)
         /\ Forest(g, T \cup {p}, (R \ Entries(kids)) \cup {p}, odd)
<1>1. IsHeap(h) /\ R \subseteq Live(h) /\ (\A r \in R : Owners(h, r) = {}) /\ Whole(h)
  BY DEF Graph
<1>2. Live(h) \subseteq Nodes(h)
  BY <1>1, HeapFacts
<1>3. Entries(kids) \subseteq Live(h) \cup {NULL}
  BY <1>1
<1>4. /\ Graph(g, (R \ Entries(kids)) \cup {p}, c)
      /\ Live(g) = Live(h) \cup {p} /\ p \notin Live(h) /\ Children(g, p) = Entries(kids) \ {NULL}
      /\ \A n \in Nodes(h) : Children(g, n) = Children(h, n)
  <2>1. Graph(g, (R \ Entries(kids)) \cup {p}, c) /\ Owning(h, g, p, kids)
    BY <1>3, ConstructGraph
  <2> QED
    BY <2>1 DEF Owning
<1>5. T \subseteq Live(h) /\ R \subseteq T /\ \A o \in T : Children(h, o) \subseteq T /\ Children(g, o) = Children(h, o)
  BY <1>2, <1>4 DEF Forest
<1>6. T \cup {p} \subseteq Live(g) /\ (R \ Entries(kids)) \cup {p} \subseteq T \cup {p}
  BY <1>4, <1>5
<1>7. \A o \in T \cup {p} : Children(g, o) \subseteq T \cup {p}
  BY <1>4, <1>5
<1>8. ASSUME NEW m \in T \cup {p}
      PROVE  m \in (R \ Entries(kids)) \cup {p} \/ \E o \in T \cup {p} : m \in Children(g, o)
  <2>1. CASE m \in Entries(kids)
    <3>1. m # NULL \/ m = p
      BY <1>2, <1>5, HeapFacts, <1>1
    <3> QED
      BY <1>4, <2>1, <3>1
  <2>2. CASE m \notin Entries(kids) /\ m # p
    <3>1. m \in R \/ \E o \in T : m \in Children(h, o)
      BY <2>2 DEF Forest
    <3> QED
      BY <1>5, <2>2, <3>1
  <2> QED
    BY <2>1, <2>2
<1>9. ASSUME NEW o \in T \cup {p}, NEW m \in Children(g, o)
      PROVE  g[m].parent = o \/ <<o, m>> \in odd
  <2>1. CASE o = p
    <3>1. m \in Entries(kids) /\ m \in Nodes(h)
      BY <1>1, <1>2, <1>4, <1>9, <2>1
    <3> QED
      BY <2>1, <3>1 DEF Constructed
  <2>2. CASE o \in T
    <3>1. m \in Children(h, o) /\ o \in Live(h) /\ m \in Nodes(h) /\ m \notin R /\ m # NULL
      <4>1. m \in Children(h, o) /\ o \in Live(h)
        BY <1>5, <1>9, <2>2
      <4>2. m \in Nodes(h) /\ o \in Owners(h, m)
        BY <1>1, <1>2, <4>1 DEF Whole, Owners
      <4> QED
        BY <1>1, <4>1, <4>2, HeapFacts
    <3>2. m \notin Entries(kids)
      BY <3>1
    <3>3. g[m].parent = h[m].parent
      BY <3>1, <3>2 DEF Constructed
    <3>4. h[m].parent = o \/ <<o, m>> \in odd
      BY <2>2, <3>1 DEF Forest
    <3> QED
      BY <3>3, <3>4
  <2> QED
    BY <2>1, <2>2
<1> QED
  BY <1>4, <1>6, <1>7, <1>8, <1>9 DEF Forest

-----------------------------------------------------------------------------
(* Children that are appended or replaced.                                 *)

\* Places and entries of a sequence.
LEMMA EntriesOf ==
  ASSUME NEW S, NEW s \in Seq(S)
  PROVE  Len(s) \in Nat /\ DOMAIN s = 1 .. Len(s) /\ Entries(s) \subseteq S
  BY DEF Entries

\* An element more, at some place.
MoreBy(k, s, x, L, at) ==
  /\ Len(k) = L /\ Len(s) = L + 1
  /\ (\A i \in 1 .. at : s[i] = k[i]) /\ s[at + 1] = x
  /\ \A i \in 1 .. L : i > at => s[i + 1] = k[i]
\* A sequence with one more entry has that entry and the others.
LEMMA OneMore ==
  ASSUME NEW S, NEW k \in Seq(S), NEW x \in S, NEW L \in Nat, NEW at \in 0 .. L,
         NEW s \in Seq(S), MoreBy(k, s, x, L, at)
  PROVE  /\ Entries(s) = Entries(k) \cup {x}
         /\ Distinct(k) /\ x \notin Entries(k) => Distinct(s)
<1> USE DEF MoreBy
<1>1. at \in Int /\ 0 <= at /\ at <= L /\ DOMAIN k = 1 .. L
  OBVIOUS
<1>2. DOMAIN s = 1 .. L + 1
  OBVIOUS
<1>3. ASSUME NEW i \in 1 .. L + 1
      PROVE  /\ i <= at => i \in 1 .. L /\ s[i] = k[i]
             /\ i = at + 1 => s[i] = x
             /\ i > at + 1 => i - 1 \in 1 .. L /\ s[i] = k[i - 1]
  <2>1. i <= at => i \in 1 .. L /\ i \in 1 .. at
    BY <1>1
  <2>2. ASSUME i > at + 1
        PROVE  i - 1 \in 1 .. L /\ s[i] = k[i - 1]
    <3>1. PICK j \in 1 .. L : j = i - 1 /\ j > at /\ i = j + 1
      BY <1>1, <2>2
    <3> QED
      BY <3>1
  <2> QED
    BY <2>1, <2>2
<1>4. \A i \in 1 .. L + 1 : i \in Int /\ (i <= at \/ i = at + 1 \/ (i > at + 1 /\ ~(i <= at)))
  BY <1>1
<1>5. \A i \in 1 .. L : i + 1 \in 1 .. L + 1 /\ (i <= at \/ i > at) /\ i \in 1 .. L + 1 /\ (i <= at => i \in 1 .. at)
  BY <1>1
<1>6. at + 1 \in 1 .. L + 1
  BY <1>1
<1>7. Entries(s) = Entries(k) \cup {x}
  <2>1. ASSUME NEW i \in DOMAIN s
        PROVE  s[i] \in Entries(k) \cup {x}
    BY <1>1, <1>2, <1>3, <1>4 DEF Entries
  <2>2. ASSUME NEW i \in DOMAIN k
        PROVE  k[i] \in Entries(s)
    <3>1. i \in 1 .. L
      BY <1>1
    <3>2. \E j \in DOMAIN s : s[j] = k[i]
      BY <1>2, <1>5, <3>1
    <3> QED
      BY <3>2 DEF Entries
  <2>3. x \in Entries(s)
    BY <1>2, <1>6 DEF Entries
  <2> QED
    BY <2>1, <2>2, <2>3 DEF Entries
<1>8. ASSUME Distinct(k), x \notin Entries(k)
      PROVE  Distinct(s)
  <2> SUFFICES ASSUME NEW i \in DOMAIN s, NEW j \in DOMAIN s, s[i] = s[j], s[i] # NULL
               PROVE  i = j
    BY DEF Distinct
  <2>1. ASSUME NEW l \in DOMAIN s, l # at + 1
        PROVE  s[l] # x /\ \E o \in DOMAIN k : s[l] = k[o] /\ o = IF l <= at THEN l ELSE l - 1
    <3>1. l \in 1 .. L + 1 /\ l \in Int /\ (l <= at \/ (l > at + 1 /\ ~(l <= at)))
      BY <1>2, <1>4, <2>1
    <3>2. \E o \in DOMAIN k : s[l] = k[o] /\ o = IF l <= at THEN l ELSE l - 1
      BY <1>1, <1>3, <3>1
    <3> QED
      BY <1>8, <3>2 DEF Entries
  <2>2. at + 1 \in DOMAIN s
    BY <1>2, <1>6
  <2>3. CASE i = at + 1 \/ j = at + 1
    BY <2>1, <2>2, <2>3
  <2>4. CASE i # at + 1 /\ j # at + 1
    <3>1. PICK o \in DOMAIN k : s[i] = k[o] /\ o = IF i <= at THEN i ELSE i - 1
      BY <2>1, <2>4
    <3>2. PICK q \in DOMAIN k : s[j] = k[q] /\ q = IF j <= at THEN j ELSE j - 1
      BY <2>1, <2>4
    <3>3. o = q
      BY <1>8, <3>1, <3>2 DEF Distinct
    <3>4. i \in Int /\ j \in Int
      BY <1>2, <1>4
    <3> QED
      BY <1>1, <2>4, <3>1, <3>2, <3>3, <3>4
  <2> QED
    BY <2>3, <2>4
<1> QED
  BY <1>7, <1>8

WithOneMore(S, k, x, s) ==
  /\ s \in Seq(S) /\ Entries(s) = Entries(k) \cup {x}
  /\ Distinct(k) /\ x \notin Entries(k) => Distinct(s)
\* appendStatement and the like insert one entry somewhere.
LEMMA Inserted ==
  ASSUME NEW S, NEW k \in Seq(S), NEW x \in S, NEW at \in 0 .. Len(k)
  PROVE  WithOneMore(S, k, x, SubSeq(k, 1, at) \o <<x>> \o SubSeq(k, at + 1, Len(k)))
<1>0. PICK L \in Nat : L = Len(k)
  OBVIOUS
<1>1. at \in 0 .. L /\ at \in Int /\ 0 <= at /\ at <= L
  BY <1>0
<1>2. PICK a : a = SubSeq(k, 1, at)
  OBVIOUS
<1>3. PICK b : b = SubSeq(k, at + 1, L)
  OBVIOUS
<1>4. a \in Seq(S) /\ Len(a) = at /\ \A i \in 1 .. at : a[i] = k[i]
  BY <1>0, <1>1, <1>2
<1>5. b \in Seq(S) /\ Len(b) = L - at /\ \A i \in 1 .. L - at : b[i] = k[at + i]
  BY <1>0, <1>1, <1>3
<1>6. PICK ax : ax = a \o <<x>>
  OBVIOUS
<1>7. ax \in Seq(S) /\ Len(ax) = at + 1 /\ (\A i \in 1 .. at : ax[i] = a[i]) /\ ax[at + 1] = x
  <2>1. <<x>> \in Seq(S) /\ Len(<<x>>) = 1 /\ <<x>>[1] = x
    OBVIOUS
  <2> QED
    BY <1>1, <1>4, <1>6, <2>1
<1>8. PICK s : s = ax \o b
  OBVIOUS
<1>9. s \in Seq(S) /\ Len(s) = Len(ax) + Len(b)
      /\ \A i \in 1 .. Len(ax) + Len(b) : s[i] = IF i <= Len(ax) THEN ax[i] ELSE b[i - Len(ax)]
  BY <1>5, <1>7, <1>8, ConcatProperties
<1>10. Len(ax) + Len(b) = L + 1 /\ Len(s) = L + 1
  <2>1. Len(ax) + Len(b) = (at + 1) + (L - at)
    BY <1>5, <1>7
  <2>2. (at + 1) + (L - at) = L + 1
    BY <1>0, <1>1
  <2>3. Len(s) = Len(ax) + Len(b)
    BY <1>9
  <2> QED
    BY <2>1, <2>2, <2>3
<1>11. \A i \in 1 .. at : s[i] = k[i]
  <2> TAKE i \in 1 .. at
  <2>1. i \in 1 .. L + 1 /\ i <= at + 1
    BY <1>1
  <2> QED
    BY <1>4, <1>7, <1>9, <1>10, <2>1
<1>12. s[at + 1] = x
  <2>1. at + 1 \in 1 .. L + 1 /\ at + 1 <= at + 1
    BY <1>1
  <2> QED
    BY <1>7, <1>9, <1>10, <2>1
<1>13. ASSUME NEW i \in 1 .. L, i > at
       PROVE  s[i + 1] = k[i]
  <2>1. i + 1 \in 1 .. L + 1 /\ ~(i + 1 <= at + 1) /\ i - at \in 1 .. L - at /\ at + (i - at) = i
        /\ (i + 1) - (at + 1) = i - at
    BY <1>1, <1>13
  <2>2. s[i + 1] = b[(i + 1) - (at + 1)]
    BY <1>7, <1>9, <1>10, <2>1
  <2>3. b[i - at] = k[at + (i - at)]
    BY <1>5, <2>1
  <2> QED
    BY <2>1, <2>2, <2>3
<1>14. MoreBy(k, s, x, L, at)
  BY <1>0, <1>10, <1>11, <1>12, <1>13 DEF MoreBy
<1>15. /\ Entries(s) = Entries(k) \cup {x}
       /\ Distinct(k) /\ x \notin Entries(k) => Distinct(s)
  BY <1>1, <1>9, <1>14, OneMore
<1>16. s = SubSeq(k, 1, at) \o <<x>> \o SubSeq(k, at + 1, Len(k))
  BY <1>0, <1>2, <1>3, <1>6, <1>8
<1>17. WithOneMore(S, k, x, s)
  BY <1>9, <1>15 DEF WithOneMore
<1> QED
  BY <1>16, <1>17

\* Node p takes child n, and lets go of those of Drop.
Linked(h, g, p, n, Drop) ==
  /\ IsHeap(g) /\ Len(g) = Len(h) /\ Nodes(g) = Nodes(h)
  /\ \A m \in Nodes(h) :
       /\ g[m].class = h[m].class /\ g[m].tag = h[m].tag /\ g[m].live = h[m].live
       /\ m # p => g[m].kids = h[m].kids
       /\ g[m].refs = h[m].refs + (IF m \in {n} THEN 1 ELSE 0)
       /\ g[m].parent = IF m = n THEN p ELSE h[m].parent
  /\ Entries(g[p].kids) \ {NULL} = (Children(h, p) \ Drop) \cup {n}
  /\ Distinct(g[p].kids)

Adopting(h, g, p, n, kids) ==
  /\ IsHeap(g) /\ Len(g) = Len(h) /\ Nodes(g) = Nodes(h)
  /\ \A m \in Nodes(h) :
       /\ g[m].class = h[m].class /\ g[m].tag = h[m].tag /\ g[m].live = h[m].live
       /\ m # p => g[m].kids = h[m].kids
       /\ g[m].refs = h[m].refs + (IF m \in {n} THEN 1 ELSE 0)
       /\ g[m].parent = IF m = n THEN p ELSE h[m].parent
  /\ g[p].kids = kids

\* A node that takes another as its child.
LEMMA AdoptIs ==
  ASSUME NEW h, IsHeap(h), NEW p \in Nodes(h), NEW n \in Nodes(h), n # p,
         NEW kids \in Seq(Nat), NEW g, g = [Adopt(h, p, n) EXCEPT ![p].kids = kids]
  PROVE  Adopting(h, g, p, n, kids)
<1>1. \A m \in Nodes(h) : h[m] \in Node /\ h[m].refs \in Nat /\ m \in Int
  BY HeapFacts
<1>2. PICK x \in Node : x = h[n]
  BY <1>1
<1>3. PICK new : new = [x EXCEPT !.refs = @ + 1, !.parent = p]
  OBVIOUS
<1>4. Like(new, x, x.kids, p, x.refs + 1, x.live)
  BY <1>1, <1>3, Adopted
<1>5. PICK a : a = Adopt(h, p, n)
  OBVIOUS
<1>6. Altered(h, a, n, new)
  <2>1. a = [h EXCEPT ![n] = new]
    BY <1>2, <1>3, <1>5 DEF Adopt
  <2>2. new \in Node
    BY <1>4 DEF Like
  <2> QED
    BY <2>1, <2>2, OneChanged
<1>7. IsHeap(a) /\ Len(a) = Len(h) /\ Nodes(a) = Nodes(h)
  BY <1>6 DEF Altered
<1>8. PICK y \in Node : y = a[p]
  BY <1>7, HeapFacts
<1>9. PICK next1 : next1 = [y EXCEPT !.kids = kids]
  OBVIOUS
<1>10. Like(next1, y, kids, y.parent, y.refs, y.live)
  BY <1>9, OtherKids
<1>11. Altered(a, g, p, next1)
  <2>1. g = [a EXCEPT ![p] = next1]
    BY <1>5, <1>8, <1>9
  <2>2. next1 \in Node
    BY <1>10 DEF Like
  <2> QED
    BY <1>7, <2>1, <2>2, OneChanged
<1>12. IsHeap(g) /\ Len(g) = Len(h) /\ Nodes(g) = Nodes(h)
  BY <1>7, <1>11 DEF Altered
<1>13. \A m \in Nodes(h) :
         /\ m # n => a[m] = h[m]
         /\ m # p => g[m] = a[m]
  BY <1>6, <1>7, <1>11 DEF Altered
<1>14. a[n] = new /\ g[p] = next1
  BY <1>6, <1>11 DEF Altered
<1>15. ASSUME NEW m \in Nodes(h)
       PROVE  /\ g[m].class = h[m].class /\ g[m].tag = h[m].tag /\ g[m].live = h[m].live
              /\ m # p => g[m].kids = h[m].kids
              /\ g[m].refs = h[m].refs + (IF m \in {n} THEN 1 ELSE 0)
              /\ g[m].parent = IF m = n THEN p ELSE h[m].parent
  <2>1. CASE m = n
    <3>1. g[m] = new /\ h[m] = x
      BY <1>2, <1>13, <1>14, <2>1
    <3> QED
      BY <1>4, <2>1, <3>1 DEF Like
  <2>2. CASE m = p
    <3>1. g[m] = next1 /\ y = h[m] /\ m # n /\ h[m].refs \in Nat
      BY <1>1, <1>8, <1>13, <1>14, <2>2
    <3> QED
      <4>1. /\ g[m].class = h[m].class /\ g[m].tag = h[m].tag /\ g[m].live = h[m].live
            /\ g[m].refs = h[m].refs /\ g[m].parent = h[m].parent
        BY <1>10, <3>1 DEF Like
      <4> QED
        BY <2>2, <3>1, <4>1
  <2>3. CASE m # n /\ m # p
    <3>1. g[m] = h[m] /\ h[m].refs \in Nat
      BY <1>1, <1>13, <2>3
    <3> QED
      BY <2>3, <3>1
  <2> QED
    BY <2>1, <2>2, <2>3
<1>16. g[p].kids = kids
  BY <1>10, <1>14 DEF Like
<1> QED
  BY <1>12, <1>15, <1>16 DEF Adopting

\* append takes the child as one more entry of its list.
LEMMA AppendIs ==
  ASSUME NEW h, IsHeap(h), NEW p \in Nodes(h), NEW n \in Nodes(h), n # p,
         n \notin Children(h, p), Distinct(h[p].kids)
  PROVE  /\ Linked(h, AppendChild(h, p, n), p, n, {})
         /\ Entries(AppendChild(h, p, n)[p].kids) = Entries(h[p].kids) \cup {n}
<1> DEFINE kids == h[p].kids
           at == IF h[n].class \in Later THEN Len(kids)
                 ELSE Cardinality({i \in DOMAIN kids : h[kids[i]].class \notin Later})
           new == SubSeq(kids, 1, at) \o <<n>> \o SubSeq(kids, at + 1, Len(kids))
           g == AppendChild(h, p, n)
<1>1. kids \in Seq(Nat) /\ n \in Nat /\ n # NULL
  BY HeapFacts
<1>2. at \in 0 .. Len(kids)
  <2>1. CASE h[n].class \in Later
    BY <1>1, <2>1
  <2>2. CASE h[n].class \notin Later
    <3> DEFINE A == {i \in DOMAIN kids : h[kids[i]].class \notin Later}
    <3>1. PICK B : B = 1 .. Len(kids)
      OBVIOUS
    <3>2. Len(kids) \in Nat /\ A \in SUBSET B
      BY <1>1, <3>1
    <3>3. IsFiniteSet(B) /\ Cardinality(B) = Len(kids)
      <4>1. PICK L \in Nat : L = Len(kids)
        BY <3>2
      <4>2. IsFiniteSet(1 .. L) /\ Cardinality(1 .. L) = L
        BY FS_Interval
      <4> QED
        BY <3>1, <4>1, <4>2
    <3>4. PICK C : C = A
      OBVIOUS
    <3>5. C \in SUBSET B
      BY <3>2, <3>4
    <3>6. IsFiniteSet(C) /\ Cardinality(C) <= Cardinality(B)
      BY <3>3, <3>5, FS_Subset
    <3>7. Cardinality(C) \in Nat
      BY <3>6, FS_CardinalityType
    <3> QED
      BY <2>2, <3>2, <3>3, <3>4, <3>6, <3>7
  <2> QED
    BY <2>1, <2>2
<1>3. g = [Adopt(h, p, n) EXCEPT ![p].kids = new]
  BY DEF AppendChild
<1>4. n \notin Entries(kids) /\ Distinct(kids) /\ Children(h, p) = Entries(kids) \ {NULL}
  BY <1>1 DEF Children, Slots, Entries
<1> HIDE DEF at, g, kids
<1>5. new \in Seq(Nat) /\ Entries(new) = Entries(kids) \cup {n} /\ Distinct(new)
  <2>1. PICK k \in Seq(Nat), x \in Nat : k = kids /\ x = n
    BY <1>1
  <2>2. PICK a \in 0 .. Len(k) : a = at
    BY <1>2, <2>1
  <2>3. WithOneMore(Nat, k, x, SubSeq(k, 1, a) \o <<x>> \o SubSeq(k, a + 1, Len(k)))
    BY Inserted
  <2>4. WithOneMore(Nat, kids, n, new)
    BY <2>1, <2>2, <2>3
  <2> HIDE DEF new
  <2> QED
    BY <1>4, <2>4 DEF WithOneMore
<1> HIDE DEF new
<1>6. /\ IsHeap(g) /\ Len(g) = Len(h) /\ Nodes(g) = Nodes(h)
      /\ \A m \in Nodes(h) :
           /\ g[m].class = h[m].class /\ g[m].tag = h[m].tag /\ g[m].live = h[m].live
           /\ m # p => g[m].kids = h[m].kids
           /\ g[m].refs = h[m].refs + (IF m \in {n} THEN 1 ELSE 0)
           /\ g[m].parent = IF m = n THEN p ELSE h[m].parent
      /\ g[p].kids = new
  <2>1. Adopting(h, g, p, n, new)
    <3>1. PICK s \in Seq(Nat) : s = new
      BY <1>5
    <3>2. g = [Adopt(h, p, n) EXCEPT ![p].kids = s]
      BY <1>3, <3>1
    <3>3. Adopting(h, g, p, n, s)
      BY <3>2, AdoptIs
    <3> QED
      BY <3>1, <3>3
  <2> QED
    BY <2>1 DEF Adopting
<1>7. Entries(g[p].kids) \ {NULL} = (Children(h, p) \ {}) \cup {n} /\ Distinct(g[p].kids)
  BY <1>1, <1>4, <1>5, <1>6
<1>8. Linked(h, g, p, n, {})
  BY <1>6, <1>7 DEF Linked
<1>9. Entries(g[p].kids) = Entries(kids) \cup {n}
  BY <1>5, <1>6
<1> QED
  BY <1>8, <1>9 DEF g, kids

-----------------------------------------------------------------------------
(* Trees from which something is taken away or to which it is added.       *)

\* A step that changes neither children nor parents leaves the trees alone.
LEMMA ForestKept ==
  ASSUME NEW h, NEW g, IsHeap(h), SameShape(h, g),
         \A n \in Nodes(h) : g[n].parent = h[n].parent,
         NEW T, NEW R, NEW odd, Forest(h, T, R, odd), Whole(h)
  PROVE  Forest(g, T, R, odd)
<1>1. Nodes(g) = Nodes(h) /\ Live(g) = Live(h) /\ \A n \in Nodes(h) : Children(g, n) = Children(h, n)
  BY ShapeKept
<1>2. T \subseteq Nodes(h) /\ T \subseteq Live(h) /\ \A o \in T : Children(h, o) \subseteq T
  BY HeapFacts DEF Forest
<1>3. \A o \in T : Children(g, o) = Children(h, o)
  BY <1>1, <1>2
<1>4. \A o \in T : \A m \in Children(g, o) : g[m].parent = o \/ <<o, m>> \in odd
  BY <1>2, <1>3 DEF Forest
<1>5. T \subseteq Live(g) /\ R \subseteq T
  BY <1>1, <1>2 DEF Forest
<1>6. \A m \in T : m \in R \/ \E o \in T : m \in Children(g, o)
  BY <1>3 DEF Forest
<1> QED
  BY <1>2, <1>3, <1>4, <1>5, <1>6 DEF Forest

\* A root is no child of a live node.
LEMMA RootHasNoOwner ==
  ASSUME NEW h, NEW R, NEW c, Graph(h, R, c)
  PROVE  \A r \in R, o \in Live(h) : r \notin Children(h, o)
  BY DEF Graph, Owners

\* The tree below x: no edge leads into it, but for one to x.
LEMMA Prune ==
  ASSUME NEW h, NEW R, NEW c, Graph(h, R, c), NEW T, Forest(h, T, R, {}),
         NEW x \in T, NEW B, B = Below(h, x)
  PROVE  /\ x \in B /\ B \subseteq T /\ Closed(h, B)
         /\ \A o \in T \ B : \A m \in Children(h, o) : m \in B => m = x
         /\ \A r \in R : r \in B => r = x
         /\ \A m \in T \ B : m \in R \/ \E o \in T \ B : m \in Children(h, o)
<1>1. IsHeap(h) /\ Whole(h) /\ T \subseteq Live(h) /\ x \in Live(h) /\ x # NULL
  <2>1. IsHeap(h) /\ Whole(h) /\ T \subseteq Live(h)
    BY DEF Graph, Forest
  <2> QED
    BY <2>1, HeapFacts
<1>2. /\ B \subseteq Live(h) /\ Closed(h, B) /\ x \in B
      /\ \A S \in SUBSET Nodes(h) : x \in S \cup {NULL} /\ Closed(h, S) => B \subseteq S
  BY <1>1, BelowFacts
<1>3. B \subseteq T
  <2>1. T \in SUBSET Nodes(h) /\ Closed(h, T)
    BY <1>1, HeapFacts DEF Closed, Forest
  <2> QED
    BY <1>2, <2>1
<1>4. \A m \in B : m # x => \E o \in B : m \in Children(h, o)
  BY <1>1, BelowOwned
<1>5. ASSUME NEW o \in T \ B, NEW m \in Children(h, o), m \in B, m # x
      PROVE  FALSE
  <2>1. PICK q \in B : m \in Children(h, q)
    BY <1>4, <1>5
  <2>2. h[m].parent = o /\ h[m].parent = q
    BY <1>3, <2>1 DEF Forest
  <2> QED
    BY <2>1, <2>2
<1>6. ASSUME NEW r \in R, r \in B, r # x
      PROVE  FALSE
  <2>1. PICK q \in B : r \in Children(h, q)
    BY <1>4, <1>6
  <2> QED
    BY <1>2, <2>1, RootHasNoOwner
<1>7. ASSUME NEW m \in T \ B, m \notin R
      PROVE  \E o \in T \ B : m \in Children(h, o)
  <2>1. PICK o \in T : m \in Children(h, o)
    BY <1>7 DEF Forest
  <2>2. o \notin B
    BY <1>2, <1>7, <2>1 DEF Closed
  <2> QED
    BY <2>1, <2>2
<1> QED
  BY <1>2, <1>3, <1>5, <1>6, <1>7

\* A root that something else refers to need not be one.
LEMMA DropRoot ==
  ASSUME NEW h, NEW R, NEW c, Graph(h, R, c), NEW T, Forest(h, T, R, {}),
         NEW r \in R, c[r] # 0
  PROVE  Graph(h, R \ {r}, c) /\ Forest(h, T \ Below(h, r), R \ {r}, {})
<1>1. IsHeap(h) /\ R \subseteq Live(h) /\ r \in T
  BY DEF Graph, Forest
<1>2. PICK B : B = Below(h, r)
  OBVIOUS
<1>3. /\ r \in B /\ B \subseteq T /\ Closed(h, B)
      /\ \A o \in T \ B : \A m \in Children(h, o) : m \in B => m = r
      /\ \A q \in R : q \in B => q = r
      /\ \A m \in T \ B : m \in R \/ \E o \in T \ B : m \in Children(h, o)
  BY <1>1, <1>2, Prune
<1>4. Graph(h, R \ {r}, c)
  <2>1. r \in Nodes(h) /\ r \in Nat /\ r \in Live(h) /\ h[r].refs \in Nat
    BY <1>1, HeapFacts
  <2>2. h[r].refs # 0
    <3>1. h[r].refs = Cardinality(Owners(h, r)) + c[r] /\ c[r] \in Nat /\ Cardinality(Owners(h, r)) \in Nat
      BY <1>1, <2>1, OwnersAreFinite DEF Graph, Counts
    <3> QED
      BY <3>1
  <2>3. \A n \in Live(h) : h[n].refs = 0 => n \in R \ {r}
    BY <2>2 DEF Graph
  <2> QED
    BY <2>3 DEF Graph
<1>5. Forest(h, T \ B, R \ {r}, {})
  <2>1. T \ B \subseteq Live(h) /\ R \ {r} \subseteq T \ B
    BY <1>3 DEF Forest
  <2>2. ASSUME NEW o \in T \ B
        PROVE  Children(h, o) \subseteq T \ B
    <3>1. Children(h, o) \subseteq T
      BY DEF Forest
    <3>2. r \notin Children(h, o)
      BY <2>1, RootHasNoOwner
    <3> QED
      BY <1>3, <3>1, <3>2
  <2>3. \A m \in T \ B : m \in R \ {r} \/ \E o \in T \ B : m \in Children(h, o)
    BY <1>3
  <2>4. \A o \in T \ B : \A m \in Children(h, o) : h[m].parent = o \/ <<o, m>> \in {}
    BY DEF Forest
  <2> QED
    BY <2>1, <2>2, <2>3, <2>4 DEF Forest
<1> QED
  BY <1>2, <1>4, <1>5

-----------------------------------------------------------------------------
LinkEdges(h, g, p, n, Drop) ==
  /\ Live(g) = Live(h) /\ Children(g, p) = (Children(h, p) \ Drop) \cup {n}
  /\ \A m \in Nodes(h) : m # p => Children(g, m) = Children(h, m)

\* A root takes a child that it has not yet, and lets go of those of Drop.
LEMMA LinkGraph ==
  ASSUME NEW h, NEW R, NEW c, Graph(h, R, c), NEW p \in R, NEW n \in Live(h), n # p,
         n \notin Children(h, p), NEW Drop \in SUBSET Children(h, p),
         NEW g, Linked(h, g, p, n, Drop),
         NEW c2 \in Counts, \A m \in Nat \ {NULL} : c2[m] = c[m] + (IF m \in Drop THEN 1 ELSE 0)
  PROVE  Graph(g, R \ {n}, c2) /\ LinkEdges(h, g, p, n, Drop)
<1>1. IsHeap(h) /\ p \in Live(h) /\ Acyclic(h) /\ Owners(h, p) = {} /\ Live(h) \subseteq Nodes(h)
  <2>1. IsHeap(h) /\ p \in Live(h) /\ Acyclic(h) /\ Owners(h, p) = {}
    BY DEF Graph
  <2> QED
    BY <2>1, HeapFacts
<1>2. Children(g, p) = (Children(h, p) \ Drop) \cup {n}
  BY DEF Linked, Children, Slots, Entries
<1>3. Rewired(h, g, p, {n}, Drop)
  BY <1>2 DEF Linked, Rewired
<1>4. /\ Nodes(g) = Nodes(h) /\ Live(g) = Live(h)
      /\ \A m \in Nodes(h) : m # p => Children(g, m) = Children(h, m)
      /\ \A m : Owners(g, m) = IF m \in (Children(h, p) \ Drop) \cup {n} THEN Owners(h, m) \cup {p}
                               ELSE Owners(h, m) \ {p}
  <2>1. RewiredEdges(h, g, p, {n}, Drop)
    BY <1>1, <1>3, RewiredOwners
  <2> QED
    BY <2>1 DEF RewiredEdges
<1>5. Acyclic(g)
  <2>1. p \notin Children(h, p)
    BY <1>1, RootHasNoOwner
  <2>2. Owners(g, p) = {}
    BY <1>1, <1>4, <2>1
  <2>3. \A o \in Live(g) \ {p} : o \in Live(h) /\ Children(g, o) \subseteq Children(h, o)
    BY <1>1, <1>4
  <2> QED
    BY <1>1, <2>2, <2>3, AcyclicFromRoot
<1>6. {n} \in SUBSET Live(h) /\ {n} \cap Children(h, p) = {}
  OBVIOUS
<1>7. Graph(g, R \ {n}, c2)
  BY <1>1, <1>3, <1>5, <1>6, RewiredGraph
<1> QED
  BY <1>2, <1>4, <1>7 DEF LinkEdges

\* Appended: a child may have had another owner before (MergeStatement).
LEMMA LinkForest ==
  ASSUME NEW h, NEW R, NEW c, Graph(h, R, c), NEW T, NEW odd, Forest(h, T, R, odd),
         NEW p \in R, NEW n \in T, n # p, n \notin Children(h, p),
         NEW g, Linked(h, g, p, n, {}),
         NEW odd2, odd \subseteq odd2, \A o \in T : n \in Children(h, o) => <<o, n>> \in odd2
  PROVE  Graph(g, R \ {n}, c) /\ Forest(g, T, R \ {n}, odd2)
<1>1. c \in Counts /\ \A m \in Nat \ {NULL} : c[m] = c[m] + (IF m \in {} THEN 1 ELSE 0)
  <2>1. c \in [Nat -> Nat]
    BY DEF Graph, Counts
  <2> QED
    BY <2>1 DEF Counts
<1>2. n \in Live(h) /\ {} \in SUBSET Children(h, p) /\ p \in T /\ T \subseteq Live(h)
  BY DEF Forest
<1>3. /\ Graph(g, R \ {n}, c) /\ Live(g) = Live(h)
      /\ Children(g, p) = (Children(h, p) \ {}) \cup {n}
      /\ \A m \in Nodes(h) : m # p => Children(g, m) = Children(h, m)
  <2>1. Graph(g, R \ {n}, c) /\ LinkEdges(h, g, p, n, {})
    BY <1>1, <1>2, LinkGraph
  <2> QED
    BY <2>1 DEF LinkEdges
<1>4. IsHeap(h) /\ Live(h) \subseteq Nodes(h)
  BY HeapFacts DEF Graph
<1>5. \A o \in T : Children(g, o) = IF o = p THEN Children(h, o) \cup {n} ELSE Children(h, o)
  BY <1>2, <1>3, <1>4
<1>6. T \subseteq Live(g) /\ R \ {n} \subseteq T /\ \A o \in T : Children(g, o) \subseteq T
  BY <1>3, <1>5 DEF Forest
<1>7. ASSUME NEW m \in T
      PROVE  m \in R \ {n} \/ \E o \in T : m \in Children(g, o)
  <2>1. CASE m = n
    BY <1>2, <1>5, <2>1
  <2>2. CASE m # n
    BY <1>5, <2>2 DEF Forest
  <2> QED
    BY <2>1, <2>2
<1>8. ASSUME NEW o \in T, NEW m \in Children(g, o)
      PROVE  g[m].parent = o \/ <<o, m>> \in odd2
  <2>1. m \in Nodes(h)
    BY <1>2, <1>4, <1>6
  <2>2. g[m].parent = IF m = n THEN p ELSE h[m].parent
    BY <2>1 DEF Linked
  <2>3. CASE m = n
    BY <1>5, <2>2, <2>3
  <2>4. CASE m # n
    <3>1. m \in Children(h, o)
      BY <1>5, <2>4
    <3>2. h[m].parent = o \/ <<o, m>> \in odd
      BY <3>1 DEF Forest
    <3> QED
      BY <2>2, <2>4, <3>2
  <2> QED
    BY <2>3, <2>4
<1> QED
  BY <1>3, <1>6, <1>7, <1>8 DEF Forest

\* Put in the place of another child, which is released with what is below it.
LEMMA ReplaceForest ==
  ASSUME NEW h, NEW R, NEW c, Graph(h, R, c), NEW T, Forest(h, T, R, {}),
         NEW p \in R, NEW n \in R, n # p, NEW old \in Children(h, p),
         NEW g, Linked(h, g, p, n, {old}),
         NEW c2 \in Counts, \A m \in Nat \ {NULL} : c2[m] = c[m] + (IF m \in {old} THEN 1 ELSE 0)
  PROVE  Graph(g, R \ {n}, c2) /\ Forest(g, T \ Below(h, old), R \ {n}, {})
<1>1. IsHeap(h) /\ Live(h) \subseteq Nodes(h) /\ R \subseteq Live(h) /\ T \subseteq Live(h) /\ R \subseteq T
  BY HeapFacts DEF Graph, Forest
<1>2. n \notin Children(h, p) /\ {old} \in SUBSET Children(h, p) /\ old \notin R /\ old # n
  BY <1>1, RootHasNoOwner
<1>3. /\ Graph(g, R \ {n}, c2) /\ Live(g) = Live(h)
      /\ Children(g, p) = (Children(h, p) \ {old}) \cup {n}
      /\ \A m \in Nodes(h) : m # p => Children(g, m) = Children(h, m)
  <2>1. n \in Live(h)
    BY <1>1
  <2>2. Graph(g, R \ {n}, c2) /\ LinkEdges(h, g, p, n, {old})
    BY <1>2, <2>1, LinkGraph
  <2> QED
    BY <2>2 DEF LinkEdges
<1>4. old \in T
  BY <1>1 DEF Forest
<1>5. PICK B : B = Below(h, old)
  OBVIOUS
<1>6. /\ old \in B /\ B \subseteq T /\ Closed(h, B)
      /\ \A o \in T \ B : \A m \in Children(h, o) : m \in B => m = old
      /\ \A r \in R : r \in B => r = old
      /\ \A m \in T \ B : m \in R \/ \E o \in T \ B : m \in Children(h, o)
  BY <1>4, <1>5, Prune
<1>7. \A r \in R : r \in T \ B
  BY <1>1, <1>2, <1>6
<1>8. \A o \in T : Children(g, o) = IF o = p THEN (Children(h, o) \ {old}) \cup {n} ELSE Children(h, o)
  BY <1>1, <1>3
<1>9. \A o \in T : old \in Children(h, o) => o = p
  BY <1>1 DEF Forest
<1>10. ASSUME NEW o \in T \ B
       PROVE  Children(g, o) \subseteq T \ B
  <2>1. Children(h, o) \subseteq T
    BY DEF Forest
  <2> QED
    BY <1>6, <1>7, <1>8, <1>9, <2>1
<1>11. ASSUME NEW m \in T \ B
       PROVE  m \in R \ {n} \/ \E o \in T \ B : m \in Children(g, o)
  <2>1. CASE m = n
    BY <1>7, <1>8, <2>1
  <2>2. CASE m # n
    BY <1>6, <1>8, <2>2
  <2> QED
    BY <2>1, <2>2
<1>12. ASSUME NEW o \in T \ B, NEW m \in Children(g, o)
       PROVE  g[m].parent = o
  <2>1. m \in Nodes(h)
    BY <1>1, <1>10
  <2>2. g[m].parent = IF m = n THEN p ELSE h[m].parent
    BY <2>1 DEF Linked
  <2>3. CASE m = n
    <3>1. n \notin Children(h, o)
      BY <1>1, RootHasNoOwner
    <3> QED
      BY <1>8, <2>2, <2>3, <3>1
  <2>4. CASE m # n
    <3>1. m \in Children(h, o)
      BY <1>8, <2>4
    <3>2. h[m].parent = o
      BY <3>1 DEF Forest
    <3> QED
      BY <2>2, <2>4, <3>2
  <2> QED
    BY <2>3, <2>4
<1>13. T \ B \subseteq Live(g) /\ R \ {n} \subseteq T \ B
  BY <1>1, <1>3, <1>7
<1>14. Forest(g, T \ B, R \ {n}, {})
  BY <1>10, <1>11, <1>12, <1>13 DEF Forest
<1> QED
  BY <1>3, <1>5, <1>14

\* The children of a root move to other owners, which are their parents already.
NoKids(h, b) == [h EXCEPT ![b].kids = <<>>]
\* A block whose statements are in another tree can be cleared, and is no tree then.
LEMMA ClearedForest ==
  ASSUME NEW h, NEW R, NEW c, Graph(h, R, c), NEW T, NEW odd, Forest(h, T, R, odd),
         NEW b \in R, \A o, m : <<o, m>> \in odd => o = b,
         \A m \in Children(h, b) : \E a \in T : a # b /\ m \in Children(h, a),
         NEW g, g = NoKids(h, b),
         NEW c2 \in Counts,
         \A m \in Nat \ {NULL} : c2[m] = c[m] + (IF m \in Children(h, b) THEN 1 ELSE 0)
  PROVE  /\ Graph(g, R, c2) /\ Forest(g, T, R, {})
         /\ IsHeap(g) /\ Nodes(g) = Nodes(h) /\ Live(g) = Live(h) /\ Children(g, b) = {}
         /\ \A n \in Nodes(h) : g[n].class = h[n].class /\ (n # b => g[n] = h[n])
<1>1. /\ IsHeap(h) /\ b \in Live(h) /\ Acyclic(h) /\ Owners(h, b) = {}
      /\ Live(h) \subseteq Nodes(h) /\ b \in Nodes(h) /\ h[b] \in Node
  <2>1. IsHeap(h) /\ b \in Live(h) /\ Acyclic(h) /\ Owners(h, b) = {}
    BY DEF Graph
  <2> QED
    BY <2>1, HeapFacts
<1>2. PICK x \in Node : x = h[b]
  BY <1>1
<1>3. PICK kids \in Seq(Nat) : kids = <<>>
  <2>1. <<>> \in Seq(Nat)
    OBVIOUS
  <2> QED
    BY <2>1
<1>4. PICK new : new = [x EXCEPT !.kids = kids]
  OBVIOUS
<1>5. Like(new, x, kids, x.parent, x.refs, x.live)
  BY <1>4, OtherKids
<1>6. Altered(h, g, b, new)
  <2>1. g = [h EXCEPT ![b] = new]
    BY <1>2, <1>3, <1>4 DEF NoKids
  <2>2. new \in Node
    BY <1>5 DEF Like
  <2> QED
    BY <1>1, <2>1, <2>2, OneChanged
<1>7. /\ IsHeap(g) /\ Len(g) = Len(h) /\ Nodes(g) = Nodes(h)
      /\ \A n \in Nodes(h) : n # b => g[n] = h[n]
  BY <1>6 DEF Altered
<1>8. /\ g[b].kids = <<>> /\ g[b].parent = h[b].parent /\ g[b].refs = h[b].refs
      /\ g[b].live = h[b].live /\ g[b].class = h[b].class
  BY <1>2, <1>3, <1>5, <1>6 DEF Altered, Like
<1>9. Children(g, b) = {}
  <2>1. Slots(g, b) = {}
    BY <1>8 DEF Slots
  <2> QED
    BY <2>1 DEF Children
<1>10. Rewired(h, g, b, {}, Children(h, b))
  <2>1. \A n \in Nodes(h) : h[n].refs \in Nat
    BY <1>1, HeapFacts
  <2>2. \A n \in Nodes(h) : /\ g[n].live = h[n].live
                            /\ n # b => g[n].kids = h[n].kids
                            /\ g[n].refs = h[n].refs + (IF n \in {} THEN 1 ELSE 0)
    BY <1>7, <1>8, <2>1
  <2>3. Children(g, b) = (Children(h, b) \ Children(h, b)) \cup {}
    BY <1>9
  <2>4. Distinct(g[b].kids)
    <3>1. Distinct(<<>>)
      BY DEF Distinct
    <3> QED
      BY <1>8, <3>1
  <2> QED
    BY <1>7, <2>2, <2>3, <2>4 DEF Rewired
<1>11. /\ Nodes(g) = Nodes(h) /\ Live(g) = Live(h)
       /\ \A n \in Nodes(h) : n # b => Children(g, n) = Children(h, n)
       /\ \A m : Owners(g, m) \subseteq Owners(h, m)
  <2>1. RewiredEdges(h, g, b, {}, Children(h, b))
    BY <1>1, <1>10, RewiredOwners
  <2> QED
    BY <2>1 DEF RewiredEdges
<1>12. Acyclic(g)
  <2>1. Owners(g, b) = {}
    BY <1>1, <1>11
  <2>2. \A o \in Live(g) \ {b} : o \in Live(h) /\ Children(g, o) \subseteq Children(h, o)
    BY <1>1, <1>11
  <2> QED
    BY <1>1, <2>1, <2>2, AcyclicFromRoot
<1>13. Graph(g, R, c2)
  <2>1. {} \in SUBSET Live(h) /\ {} \cap Children(h, b) = {} /\ Children(h, b) \in SUBSET Children(h, b)
    OBVIOUS
  <2>2. Graph(g, R \ {}, c2)
    BY <1>1, <1>10, <1>12, <2>1, RewiredGraph
  <2>3. R \ {} = R
    OBVIOUS
  <2> QED
    BY <2>2, <2>3
<1>14. T \subseteq Live(h) /\ R \subseteq T /\ T \subseteq Nodes(h)
  BY <1>1 DEF Forest
<1>15. \A o \in T : Children(g, o) = IF o = b THEN {} ELSE Children(h, o)
  BY <1>9, <1>11, <1>14
<1>16. ASSUME NEW m \in T
       PROVE  m \in R \/ \E o \in T : m \in Children(g, o)
  <2>1. CASE m \in Children(h, b)
    BY <1>15, <2>1
  <2>2. CASE m \notin Children(h, b)
    BY <1>15, <2>2 DEF Forest
  <2> QED
    BY <2>1, <2>2
<1>17. ASSUME NEW o \in T, NEW m \in Children(g, o)
       PROVE  g[m].parent = o
  <2>1. o # b /\ m \in Children(h, o)
    BY <1>15
  <2>2. h[m].parent = o /\ m \in T
    BY <2>1 DEF Forest
  <2>3. m \in Nodes(h)
    BY <1>14, <2>2
  <2> QED
    BY <1>7, <1>8, <2>2, <2>3
<1>18. \A o \in T : Children(g, o) \subseteq T
  BY <1>15 DEF Forest
<1>19. Forest(g, T, R, {})
  BY <1>11, <1>14, <1>16, <1>17, <1>18 DEF Forest
<1> QED
  BY <1>7, <1>8, <1>9, <1>11, <1>13, <1>19

-----------------------------------------------------------------------------
\* One child in the place of another.
OtherEntry(k, s, i, x) ==
  /\ s \in Seq(Nat) /\ Distinct(s) /\ Len(s) = Len(k)
  /\ Entries(s) \ {NULL} = ((Entries(k) \ {NULL}) \ {k[i]}) \cup {x}
  /\ s[i] = x /\ \A j \in DOMAIN k : j # i => s[j] = k[j]
\* A sequence with one entry replaced.
LEMMA EntryReplaced ==
  ASSUME NEW k \in Seq(Nat), NEW i \in DOMAIN k, Distinct(k),
         NEW x \in Nat, x # NULL, x \notin Entries(k)
  PROVE  OtherEntry(k, [k EXCEPT ![i] = x], i, x)
<1>1. PICK s : s = [k EXCEPT ![i] = x]
  OBVIOUS
<1>2. s \in Seq(Nat) /\ Len(s) = Len(k)
  BY <1>1, ExceptSeq
<1>3. DOMAIN s = DOMAIN k /\ s[i] = x /\ \A j \in DOMAIN k : j # i => s[j] = k[j]
  BY <1>1
<1>4. Distinct(s)
  BY <1>3 DEF Distinct, Entries
<1>5. \A y : y \in Entries(s) <=> y = x \/ \E j \in DOMAIN k : j # i /\ y = k[j]
  BY <1>3 DEF Entries
<1>6. \A y : y \in Entries(k) <=> y = k[i] \/ \E j \in DOMAIN k : j # i /\ y = k[j]
  BY DEF Entries
<1>7. \A j \in DOMAIN k : j # i => k[j] # k[i] \/ k[j] = NULL
  BY DEF Distinct
<1>8. Entries(s) \ {NULL} = ((Entries(k) \ {NULL}) \ {k[i]}) \cup {x}
  BY <1>5, <1>6, <1>7
<1>9. OtherEntry(k, s, i, x)
  BY <1>2, <1>3, <1>4, <1>8 DEF OtherEntry
<1> QED
  BY <1>1, <1>9

-----------------------------------------------------------------------------
(* Copies.                                                                 *)

\* The places of the members of a set of numbers, in order.
Rank(A, m) == Cardinality({o \in A : o <= m})
\* The places that the nodes of a subtree have among each other number their copies.
LEMMA Ranks ==
  ASSUME NEW A \in SUBSET Nat, IsFiniteSet(A)
  PROVE  /\ \A m \in A : Rank(A, m) \in 1 .. Cardinality(A)
         /\ \A m, o \in A : Rank(A, m) = Rank(A, o) => m = o
         /\ \A i \in 1 .. Cardinality(A) : \E m \in A : Rank(A, m) = i
<1>1. PICK N \in Nat : N = Cardinality(A)
  BY FS_CardinalityType
<1>2. ASSUME NEW m \in A
      PROVE  /\ IsFiniteSet({o \in A : o <= m}) /\ Rank(A, m) \in Nat
             /\ Rank(A, m) \in 1 .. N
  <2>1. PICK B : B = {o \in A : o <= m}
    OBVIOUS
  <2>2. B \in SUBSET A /\ m \in B
    BY <2>1
  <2>3. IsFiniteSet(B) /\ Cardinality(B) <= Cardinality(A)
    BY <2>2, FS_Subset
  <2>4. Cardinality(B) \in Nat /\ Cardinality(B) # 0
    BY <2>2, <2>3, FS_CardinalityType, FS_EmptySet
  <2>5. PICK r \in Nat : r = Cardinality(B) /\ r # 0 /\ r <= N
    BY <1>1, <2>3, <2>4
  <2>6. r \in 1 .. N
    BY <2>5
  <2>7. Rank(A, m) = r
    BY <2>1, <2>5 DEF Rank
  <2> QED
    BY <2>1, <2>3, <2>6, <2>7
<1>3. ASSUME NEW m \in A, NEW o \in A, m < o
      PROVE  Rank(A, m) < Rank(A, o)
  <2>1. PICK B : B = {q \in A : q <= m}
    OBVIOUS
  <2>2. PICK C : C = {q \in A : q <= o}
    OBVIOUS
  <2>3. m \in Nat /\ o \in Nat /\ ~(o <= m)
    BY <1>3
  <2>4. B \in SUBSET C /\ o \in C /\ o \notin B
    <3>1. \A q \in A : q <= m => q <= o
      BY <1>3, <2>3
    <3>2. o <= o
      BY <2>3
    <3> QED
      BY <2>1, <2>2, <2>3, <3>1, <3>2
  <2>5. IsFiniteSet(C)
    BY <1>2, <2>2
  <2>6. Cardinality(B) <= Cardinality(C) /\ (Cardinality(B) = Cardinality(C) => B = C)
    BY <2>4, <2>5, FS_Subset
  <2>7. Rank(A, m) = Cardinality(B) /\ Rank(A, o) = Cardinality(C)
    BY <2>1, <2>2 DEF Rank
  <2>8. Rank(A, m) \in Nat /\ Rank(A, o) \in Nat
    BY <1>2
  <2> QED
    BY <2>4, <2>6, <2>7, <2>8
<1>4. ASSUME NEW m \in A, NEW o \in A, Rank(A, m) = Rank(A, o)
      PROVE  m = o
  <2>1. m \in Nat /\ o \in Nat /\ Rank(A, m) \in Nat /\ Rank(A, o) \in Nat
    BY <1>2
  <2>2. ~(m < o) /\ ~(o < m)
    BY <1>3, <1>4, <2>1
  <2> QED
    BY <2>1, <2>2
<1>5. \A i \in 1 .. N : \E m \in A : Rank(A, m) = i
  <2>1. PICK I : I = {Rank(A, m) : m \in A}
    OBVIOUS
  <2>2. PICK J : J = 1 .. N
    OBVIOUS
  <2>3. I \in SUBSET J
    <3>1. \A m \in A : Rank(A, m) \in J
      BY <1>2, <2>2
    <3> QED
      BY <2>1, <3>1
  <2>4. PICK g : g = [m \in A |-> Rank(A, m)]
    OBVIOUS
  <2>5. g \in [A -> I] /\ (\A m, o \in A : g[m] = g[o] => m = o) /\ \A i \in I : \E m \in A : g[m] = i
    BY <1>4, <2>1, <2>4
  <2>6. g \in Bijection(A, I)
    BY <2>5, Zenon DEF Bijection, Injection, Surjection, IsInjective
  <2>7. Cardinality(I) = N
    BY <1>1, <2>6, FS_Bijection DEF ExistsBijection
  <2>8. IsFiniteSet(J) /\ Cardinality(J) = N
    BY <2>2, FS_Interval
  <2>9. I = J
    BY <2>3, <2>7, <2>8, FS_Subset
  <2> QED
    BY <2>1, <2>2, <2>9
<1>6. \A m \in A : Rank(A, m) \in 1 .. N
  BY <1>2
<1> QED
  BY <1>1, <1>4, <1>5, <1>6

Copies(h, g, old, K) ==
  /\ IsHeap(g) /\ K \in [old -> Nat]
  /\ \A a, b \in old : K[a] = K[b] => a = b
  /\ \A m \in old : K[m] \notin Nodes(h) /\ K[m] # NULL
  /\ Nodes(g) = Nodes(h) \cup {K[m] : m \in old}
  /\ \A i \in Nodes(h) : g[i] = h[i]
  /\ \A m \in old :
       /\ g[K[m]].class = h[m].class /\ g[K[m]].tag = h[m].tag /\ g[K[m]].live = TRUE
       /\ DOMAIN g[K[m]].kids = DOMAIN h[m].kids /\ Len(g[K[m]].kids) = Len(h[m].kids)
       /\ \A i \in DOMAIN h[m].kids :
            g[K[m]].kids[i] = IF h[m].kids[i] = NULL THEN NULL ELSE K[h[m].kids[i]]
Duplicated(h, g, n, old, K) ==
  /\ Copies(h, g, old, K)
  /\ \A m \in old : g[K[m]].refs = IF m = n THEN 0 ELSE 1
  /\ \A m \in old \ {n}, o \in old : m \in Children(h, o) => g[K[m]].parent = K[o]

\* A copy of a node.
LEMMA CopiedNode ==
  ASSUME NEW x \in Node, NEW kids \in Seq(Nat), NEW p \in Int, NEW r \in Nat,
         NEW new, new = [x EXCEPT !.kids = kids, !.parent = p, !.refs = r]
  PROVE  Like(new, x, kids, p, r, x.live)
  BY DEF Node, Like

\* duplicate() yields a copy of the tree below a root, node by node.
LEMMA DuplicateIs ==
  ASSUME NEW h, NEW R, NEW c, Graph(h, R, c), NEW T, Forest(h, T, R, {}), NEW n \in R
  PROVE  \E g, K : /\ Duplicate(h, n) = [heap |-> g, root |-> K[n]]
                   /\ Duplicated(h, g, n, Below(h, n), K)
<1> DEFINE old == Below(h, n)
           Copy(m) == IF m = NULL THEN NULL ELSE Len(h) + Cardinality({o \in old : o <= m})
           Original(i) == CHOOSE m \in old : Copy(m) = i
           Owner(m) == CHOOSE o \in old : m \in Children(h, o)
           Copied(m) ==
             [h[m] EXCEPT !.kids = [i \in Slots(h, m) |-> Copy(h[m].kids[i])],
                          !.parent = IF m = n THEN Unset ELSE Copy(Owner(m)),
                          !.refs = IF m = n THEN 0 ELSE 1]
           g == [i \in 1 .. Len(h) + Cardinality(old) |->
                   IF i <= Len(h) THEN h[i] ELSE Copied(Original(i))]
           K == [m \in old |-> Copy(m)]
<1>1. Duplicate(h, n) = [heap |-> g, root |-> Copy(n)]
  BY DEF Duplicate
<1>2. /\ IsHeap(h) /\ Whole(h) /\ n \in Live(h) \cup {NULL} /\ n # NULL
      /\ T \subseteq Live(h) /\ n \in T /\ Live(h) \subseteq Nodes(h)
  <2>1. IsHeap(h) /\ Whole(h) /\ n \in Live(h) /\ T \subseteq Live(h) /\ n \in T
    BY DEF Graph, Forest
  <2> QED
    BY <2>1, HeapFacts
<1>3. /\ n \in old /\ old \subseteq T /\ Closed(h, old)
      /\ \A m \in old : m # n => \E o \in old : m \in Children(h, o)
  <2>1. PICK B : B = old
    OBVIOUS
  <2>2. n \in B /\ B \subseteq T /\ Closed(h, B)
    <3> HIDE DEF old
    <3>1. B = Below(h, n)
      BY <2>1 DEF old
    <3> QED
      BY <1>2, <3>1, Prune
  <2>3. \A m \in Below(h, n) : m # n => \E o \in Below(h, n) : m \in Children(h, o)
    BY <1>2, BelowOwned
  <2> QED
    BY <2>1, <2>2, <2>3
<1> HIDE DEF old
<1>4. PICK L \in Nat : L = Len(h) /\ Nodes(h) = 1 .. L
  BY <1>2, HeapFacts
<1>5. old \in SUBSET (1 .. L) /\ old \in SUBSET Nat /\ IsFiniteSet(old)
  <2>1. old \subseteq 1 .. L
    BY <1>2, <1>3, <1>4
  <2>2. IsFiniteSet(1 .. L)
    BY FS_Interval
  <2>3. PICK A, B : A = old /\ B = 1 .. L
    OBVIOUS
  <2>4. A \in SUBSET B /\ IsFiniteSet(B)
    BY <2>1, <2>2, <2>3
  <2>5. IsFiniteSet(A)
    BY <2>4, FS_Subset
  <2>6. 1 .. L \subseteq Nat
    OBVIOUS
  <2> QED
    BY <2>1, <2>3, <2>5, <2>6
<1>6. PICK N \in Nat : N = Cardinality(old)
  BY <1>5, FS_CardinalityType
<1>7. /\ \A m \in old : Rank(old, m) \in 1 .. N
      /\ \A m, o \in old : Rank(old, m) = Rank(old, o) => m = o
      /\ \A i \in 1 .. N : \E m \in old : Rank(old, m) = i
  BY <1>5, <1>6, Ranks
<1>8. \A m \in old : Copy(m) = L + Rank(old, m) /\ m # NULL
  BY <1>4, <1>5 DEF Rank, NULL
<1>9. Copy(NULL) = NULL
  OBVIOUS
<1> HIDE DEF Copy
<1>10. ASSUME NEW m \in old
       PROVE  Copy(m) \in L + 1 .. L + N /\ Copy(m) \in Nat /\ Copy(m) # NULL
  <2>1. PICK i \in 1 .. N : i = Rank(old, m)
    BY <1>7
  <2>2. L + i \in L + 1 .. L + N /\ L + i \in Nat /\ L + i # 0
    OBVIOUS
  <2> QED
    BY <1>8, <2>1, <2>2 DEF NULL
<1>11. ASSUME NEW a \in old, NEW b \in old, Copy(a) = Copy(b)
       PROVE  a = b
  <2>1. PICK i \in 1 .. N, j \in 1 .. N : i = Rank(old, a) /\ j = Rank(old, b)
    BY <1>7
  <2>2. L + i = L + j
    BY <1>8, <1>11, <2>1
  <2>3. i = j
    BY <2>2
  <2> QED
    BY <1>7, <2>1, <2>3
<1>12. ASSUME NEW i \in L + 1 .. L + N
       PROVE  \E m \in old : Copy(m) = i
  <2>1. i - L \in 1 .. N /\ L + (i - L) = i
    OBVIOUS
  <2>2. PICK m \in old : Rank(old, m) = i - L
    BY <1>7, <2>1
  <2> QED
    BY <1>8, <2>1, <2>2
<1>13. \A m \in old : Original(Copy(m)) = m
  BY <1>11
<1>14. \A i \in L + 1 .. L + N : Original(i) \in old /\ Copy(Original(i)) = i
  BY <1>12
<1>15. ASSUME NEW m \in old, NEW o \in old, m \in Children(h, o)
       PROVE  Owner(m) = o
  <2>1. \A q \in old : m \in Children(h, q) => q = o
    BY <1>3, <1>15 DEF Forest
  <2> QED
    BY <1>15, <2>1
<1>16. \A m \in old \ {n} : Owner(m) \in old
  BY <1>3
<1> HIDE DEF Original, Owner
<1>17. ASSUME NEW m \in old
       PROVE  \E kids \in Seq(Nat), p \in Int :
                /\ Like(Copied(m), h[m], kids, p, IF m = n THEN 0 ELSE 1, h[m].live)
                /\ DOMAIN kids = DOMAIN h[m].kids /\ Len(kids) = Len(h[m].kids)
                /\ \A i \in DOMAIN h[m].kids :
                     kids[i] = IF h[m].kids[i] = NULL THEN NULL ELSE Copy(h[m].kids[i])
                /\ m # n => p = Copy(Owner(m))
  <2>1. PICK x \in Node : x = h[m]
    BY <1>2, <1>3, HeapFacts
  <2>2. PICK k \in Seq(Nat) : k = h[m].kids
    BY <1>2, <1>3, HeapFacts
  <2>3. PICK M \in Nat : M = Len(k) /\ DOMAIN k = 1 .. M
    BY <2>2
  <2>4. PICK kids : kids = [i \in Slots(h, m) |-> Copy(h[m].kids[i])]
    OBVIOUS
  <2>5. \A i \in 1 .. M : k[i] = NULL \/ k[i] \in old
    <3>1. Children(h, m) \subseteq old
      BY <1>3 DEF Closed
    <3> QED
      BY <2>2, <2>3, <3>1 DEF Children, Slots
  <2>6. DOMAIN kids = 1 .. M /\ \A i \in 1 .. M : kids[i] = Copy(k[i])
    BY <2>2, <2>3, <2>4 DEF Slots
  <2>7. \A i \in 1 .. M : kids[i] = IF k[i] = NULL THEN NULL ELSE Copy(k[i])
    BY <1>9, <2>6
  <2>8. \A i \in 1 .. M : kids[i] \in Nat
    BY <1>10, <2>5, <2>7 DEF NULL
  <2>9. kids \in [1 .. M -> Nat]
    BY <2>2, <2>3, <2>4, <2>6, <2>8 DEF Slots
  <2>10. kids \in Seq(Nat) /\ Len(kids) = M
    <3>1. kids \in Seq(Nat)
      BY <2>9
    <3>2. DOMAIN kids = 1 .. Len(kids) /\ Len(kids) \in Nat
      BY <3>1
    <3> QED
      BY <2>6, <3>1, <3>2
  <2>11. PICK p \in Int : p = IF m = n THEN Unset ELSE Copy(Owner(m))
    <3>1. m # n => Copy(Owner(m)) \in Int
      BY <1>10, <1>16
    <3> QED
      BY <3>1 DEF Unset
  <2>12. PICK r \in Nat : r = IF m = n THEN 0 ELSE 1
    OBVIOUS
  <2>13. PICK new : new = [x EXCEPT !.kids = kids, !.parent = p, !.refs = r]
    OBVIOUS
  <2>14. Like(new, x, kids, p, r, x.live)
    BY <2>10, <2>13, CopiedNode
  <2>15. Copied(m) = new
    BY <2>1, <2>4, <2>11, <2>12, <2>13
  <2>16. Like(Copied(m), h[m], kids, p, IF m = n THEN 0 ELSE 1, h[m].live)
    BY <2>1, <2>12, <2>14, <2>15
  <2>17. /\ DOMAIN kids = DOMAIN h[m].kids /\ Len(kids) = Len(h[m].kids)
         /\ \A i \in DOMAIN h[m].kids :
              kids[i] = IF h[m].kids[i] = NULL THEN NULL ELSE Copy(h[m].kids[i])
    BY <2>2, <2>3, <2>6, <2>7, <2>10
  <2>18. m # n => p = Copy(Owner(m))
    BY <2>11
  <2> HIDE DEF Copied
  <2> QED
    BY <2>10, <2>16, <2>17, <2>18
<1>18. \A m \in old : Copied(m) \in Node
  <2> HIDE DEF Copied
  <2> QED
    BY <1>17 DEF Like
<1> HIDE DEF Copied
<1>19. \A i \in Nodes(h) : g[i] = h[i] /\ h[i] \in Node
  <2>1. \A i \in 1 .. L : i \in 1 .. L + N /\ i <= L
    OBVIOUS
  <2>2. \A i \in Nodes(h) : h[i] \in Node
    BY <1>2, HeapFacts
  <2> QED
    BY <1>4, <1>6, <2>1, <2>2
<1>20. \A i \in L + 1 .. L + N : g[i] = Copied(Original(i))
  <2>1. \A i \in L + 1 .. L + N : i \in 1 .. L + N /\ ~(i <= L)
    OBVIOUS
  <2> QED
    BY <1>4, <1>6, <2>1
<1>21. g \in [1 .. L + N -> Node]
  <2>1. \A i \in 1 .. L + N : i \in 1 .. L \/ i \in L + 1 .. L + N
    OBVIOUS
  <2>2. \A i \in 1 .. L + N : g[i] \in Node
    <3> HIDE DEF g
    <3> QED
      BY <1>4, <1>14, <1>18, <1>19, <1>20, <2>1
  <2>3. DOMAIN g = 1 .. L + N /\ g = [i \in 1 .. L + N |-> g[i]]
    BY <1>4, <1>6
  <2> HIDE DEF g
  <2> QED
    BY <2>2, <2>3
<1> HIDE DEF g
<1>22. IsHeap(g) /\ Nodes(g) = 1 .. L + N
  <2>1. g \in Seq(Node)
    BY <1>21
  <2>2. DOMAIN g = 1 .. L + N
    BY <1>21
  <2> QED
    BY <2>1, <2>2 DEF IsHeap, Nodes
<1>23. K \in [old -> Nat] /\ \A m \in old : K[m] = Copy(m)
  BY <1>10
<1> HIDE DEF K
<1>24. \A a, b \in old : K[a] = K[b] => a = b
  BY <1>11, <1>23
<1>25. \A m \in old : K[m] \notin Nodes(h) /\ K[m] # NULL
  <2>1. \A i \in L + 1 .. L + N : i \notin 1 .. L
    OBVIOUS
  <2> QED
    BY <1>4, <1>10, <1>23, <2>1
<1>26. Nodes(g) = Nodes(h) \cup {K[m] : m \in old}
  <2>1. \A i \in 1 .. L + N : i \in 1 .. L \/ i \in L + 1 .. L + N
    OBVIOUS
  <2>2. \A i \in 1 .. L : i \in 1 .. L + N
    OBVIOUS
  <2>3. \A i \in L + 1 .. L + N : i \in 1 .. L + N
    OBVIOUS
  <2>4. \A i \in L + 1 .. L + N : i \in {K[m] : m \in old}
    BY <1>12, <1>23
  <2>5. \A m \in old : K[m] \in 1 .. L + N
    BY <1>10, <1>23, <2>3
  <2> QED
    BY <1>4, <1>22, <2>1, <2>2, <2>4, <2>5
<1>27. ASSUME NEW m \in old
       PROVE  g[K[m]] = Copied(m)
  BY <1>10, <1>13, <1>20, <1>23
<1>28. ASSUME NEW m \in old
       PROVE  /\ g[K[m]].class = h[m].class /\ g[K[m]].tag = h[m].tag /\ g[K[m]].live = TRUE
              /\ DOMAIN g[K[m]].kids = DOMAIN h[m].kids /\ Len(g[K[m]].kids) = Len(h[m].kids)
              /\ \A i \in DOMAIN h[m].kids :
                   g[K[m]].kids[i] = IF h[m].kids[i] = NULL THEN NULL ELSE K[h[m].kids[i]]
              /\ g[K[m]].refs = IF m = n THEN 0 ELSE 1
              /\ m # n => g[K[m]].parent = Copy(Owner(m))
  <2>1. PICK kids \in Seq(Nat), p \in Int :
                /\ Like(Copied(m), h[m], kids, p, IF m = n THEN 0 ELSE 1, h[m].live)
                /\ DOMAIN kids = DOMAIN h[m].kids /\ Len(kids) = Len(h[m].kids)
                /\ \A i \in DOMAIN h[m].kids :
                     kids[i] = IF h[m].kids[i] = NULL THEN NULL ELSE Copy(h[m].kids[i])
                /\ m # n => p = Copy(Owner(m))
    BY <1>17
  <2>2. /\ Copied(m).class = h[m].class /\ Copied(m).tag = h[m].tag /\ Copied(m).live = h[m].live
        /\ Copied(m).kids = kids /\ Copied(m).parent = p /\ Copied(m).refs = IF m = n THEN 0 ELSE 1
    BY <2>1 DEF Like
  <2>3. h[m].live = TRUE
    BY <1>2, <1>3 DEF Live, IsHeap, Node
  <2>4. \A i \in DOMAIN h[m].kids : h[m].kids[i] = NULL \/ h[m].kids[i] \in old
    BY <1>3 DEF Closed, Children, Slots
  <2>5. \A i \in DOMAIN h[m].kids :
          kids[i] = IF h[m].kids[i] = NULL THEN NULL ELSE K[h[m].kids[i]]
    BY <1>23, <2>1, <2>4
  <2> QED
    BY <1>27, <2>1, <2>2, <2>3, <2>5
<1>29. \A m \in old \ {n}, o \in old : m \in Children(h, o) => g[K[m]].parent = K[o]
  <2> SUFFICES ASSUME NEW m \in old \ {n}, NEW o \in old, m \in Children(h, o)
               PROVE  g[K[m]].parent = K[o]
    OBVIOUS
  <2>1. Owner(m) = o
    BY <1>15
  <2>2. g[K[m]].parent = Copy(Owner(m))
    BY <1>28
  <2> QED
    BY <1>23, <2>1, <2>2
<1>30. Duplicated(h, g, n, old, K)
  BY <1>19, <1>22, <1>23, <1>24, <1>25, <1>26, <1>28, <1>29 DEF Duplicated, Copies
<1>31. Duplicate(h, n) = [heap |-> g, root |-> K[n]]
  BY <1>1, <1>3, <1>23
<1> QED
  BY <1>30, <1>31 DEF old

\* The copy is a tree of its own.
LEMMA DuplicateForest ==
  ASSUME NEW h, NEW R, NEW c, Graph(h, R, c), NEW T, Forest(h, T, R, {}), NEW n \in R,
         NEW old, old = Below(h, n), NEW g, NEW K, Duplicated(h, g, n, old, K)
  PROVE  /\ Graph(g, R \cup {K[n]}, c) /\ Forest(g, T \cup {K[m] : m \in old}, R \cup {K[n]}, {})
         /\ n \in old /\ old \subseteq T
<1> DEFINE New == {K[m] : m \in old}
<1>1. /\ IsHeap(h) /\ Whole(h) /\ Acyclic(h) /\ n \in Live(h) /\ n # NULL
      /\ T \subseteq Live(h) /\ n \in T /\ Live(h) \subseteq Nodes(h) /\ R \subseteq T
  <2>1. IsHeap(h) /\ Whole(h) /\ Acyclic(h) /\ n \in Live(h) /\ T \subseteq Live(h) /\ n \in T /\ R \subseteq T
    BY DEF Graph, Forest
  <2> QED
    BY <2>1, HeapFacts
<1>2. /\ n \in old /\ old \subseteq T /\ Closed(h, old)
  BY <1>1, Prune
<1>3. \A m \in old : m # n => \E o \in old : m \in Children(h, o)
  BY <1>1, BelowOwned
<1>4. /\ IsHeap(g) /\ K \in [old -> Nat]
      /\ \A a, b \in old : K[a] = K[b] => a = b
      /\ \A m \in old : K[m] \notin Nodes(h) /\ K[m] # NULL
      /\ Nodes(g) = Nodes(h) \cup New
      /\ \A i \in Nodes(h) : g[i] = h[i]
  BY DEF Duplicated, Copies
<1>5. \A m \in old :
        /\ g[K[m]].live = TRUE /\ DOMAIN g[K[m]].kids = DOMAIN h[m].kids
        /\ \A i \in DOMAIN h[m].kids :
             g[K[m]].kids[i] = IF h[m].kids[i] = NULL THEN NULL ELSE K[h[m].kids[i]]
        /\ g[K[m]].refs = IF m = n THEN 0 ELSE 1
  BY DEF Duplicated, Copies
<1>6. \A m \in old \ {n}, o \in old : m \in Children(h, o) => g[K[m]].parent = K[o]
  BY DEF Duplicated
<1>7. Live(g) = Live(h) \cup New
  BY <1>4, <1>5 DEF Live
<1>8. \A i \in Nodes(h) : Children(g, i) = Children(h, i)
  BY <1>4 DEF Children, Slots
<1>9. ASSUME NEW m \in old
      PROVE  Children(g, K[m]) = {K[o] : o \in Children(h, m)}
  <2>1. \A i \in DOMAIN h[m].kids : h[m].kids[i] # NULL => h[m].kids[i] \in old /\ K[h[m].kids[i]] # NULL
    BY <1>2, <1>4 DEF Closed, Children, Slots
  <2>2. \A x : x \in Children(g, K[m]) <=> \E i \in DOMAIN h[m].kids : h[m].kids[i] # NULL /\ x = K[h[m].kids[i]]
    BY <1>5, <2>1 DEF Children, Slots
  <2>3. \A o : o \in Children(h, m) <=> \E i \in DOMAIN h[m].kids : h[m].kids[i] # NULL /\ o = h[m].kids[i]
    BY DEF Children, Slots
  <2> QED
    BY <2>2, <2>3
<1>10. \A m \in old : Children(h, m) \subseteq old
  BY <1>2 DEF Closed
<1>11. ASSUME NEW m \in old, NEW o \in old
       PROVE  K[m] \in Children(g, K[o]) <=> m \in Children(h, o)
  BY <1>4, <1>9, <1>10
<1> HIDE DEF New
<1>12. \A x : x \in New <=> \E m \in old : x = K[m]
  BY DEF New
<1>13. \A o \in Live(h) : \A x \in New : x \notin Children(g, o)
  BY <1>1, <1>4, <1>8, <1>12 DEF Whole
<1>14. \A o \in New : \A x \in Nodes(h) : x \notin Children(g, o)
  BY <1>4, <1>9, <1>10, <1>12
<1>15. \A x \in Nodes(h) : Owners(g, x) = Owners(h, x)
  BY <1>1, <1>7, <1>8, <1>14 DEF Owners
<1>16. \A m \in old : Owners(g, K[m]) = {K[o] : o \in {q \in old : m \in Children(h, q)}}
  <2> TAKE m \in old
  <2>1. \A x : x \in Owners(g, K[m]) <=> \E o \in old : x = K[o] /\ m \in Children(h, o)
    BY <1>7, <1>11, <1>12, <1>13 DEF Owners
  <2> QED
    BY <2>1
<1>17. Whole(g)
  <2>1. ASSUME NEW x \in Nodes(g)
        PROVE  Children(g, x) \subseteq Nodes(g)
    <3>1. CASE x \in Nodes(h)
      BY <1>1, <1>4, <1>8, <3>1 DEF Whole
    <3>2. CASE x \in New
      BY <1>4, <1>9, <1>10, <1>12, <3>2
    <3> QED
      BY <1>4, <3>1, <3>2
  <2>2. ASSUME NEW x \in Live(g)
        PROVE  Children(g, x) \subseteq Live(g) /\ Distinct(g[x].kids)
    <3>1. CASE x \in Live(h)
      BY <1>1, <1>4, <1>7, <1>8, <3>1 DEF Whole
    <3>2. CASE x \in New
      <4>1. PICK m \in old : x = K[m]
        BY <1>12, <3>2
      <4>2. Children(g, x) \subseteq Live(g)
        BY <1>7, <1>9, <1>10, <1>12, <4>1
      <4>3. Distinct(h[m].kids)
        BY <1>1, <1>2 DEF Whole
      <4>4. \A i \in DOMAIN h[m].kids : h[m].kids[i] # NULL => h[m].kids[i] \in old
        BY <1>10 DEF Children, Slots
      <4>5. Distinct(g[K[m]].kids)
        BY <1>4, <1>5, <4>3, <4>4 DEF Distinct
      <4> QED
        BY <4>1, <4>2, <4>5
    <3> QED
      BY <1>7, <3>1, <3>2
  <2> QED
    BY <2>1, <2>2 DEF Whole
<1>18. Acyclic(g)
  <2> DEFINE phi == [x \in Live(g) |-> IF x \in Nodes(h) THEN x ELSE CHOOSE m \in old : K[m] = x]
  <2>1. \A x \in Live(h) : x \in Live(g) /\ phi[x] = x
    BY <1>1, <1>7
  <2>2. \A m \in old : K[m] \in Live(g) /\ phi[K[m]] = m
    BY <1>4, <1>7, <1>12
  <2> HIDE DEF phi
  <2>3. \A x \in Live(g) : phi[x] \in Live(h)
    BY <1>1, <1>2, <1>7, <1>12, <2>1, <2>2
  <2>4. ASSUME NEW o \in Live(g), NEW m \in Live(g), m \in Children(g, o)
        PROVE  phi[m] \in Children(h, phi[o])
    <3>1. CASE o \in Live(h)
      <4>1. m \in Live(h)
        BY <1>7, <1>13, <2>4, <3>1
      <4> QED
        BY <1>1, <1>8, <2>1, <2>4, <3>1, <4>1
    <3>2. CASE o \in New
      <4>1. m \in New
        BY <1>1, <1>7, <1>14, <2>4, <3>2
      <4>2. PICK a \in old, b \in old : o = K[a] /\ m = K[b]
        BY <1>12, <3>2, <4>1
      <4>3. b \in Children(h, a)
        BY <1>11, <2>4, <4>2
      <4> QED
        BY <2>2, <4>2, <4>3
    <3> QED
      BY <1>7, <3>1, <3>2
  <2> QED
    BY <1>1, <2>3, <2>4, AcyclicImage
<1>19. /\ c \in Counts /\ (\A m \in Nat : c[m] # 0 => m = NULL \/ m \in Live(g))
       /\ \A x \in New : c[x] = 0
  <2>1. c \in Counts /\ \A m \in Nat : c[m] # 0 => m = NULL \/ m \in Live(h)
    BY DEF Graph
  <2>2. \A x \in New : x \in Nat /\ x # NULL /\ x \notin Live(h)
    BY <1>1, <1>4, <1>12
  <2> QED
    BY <1>7, <2>1, <2>2
<1>20. \A m \in old \ {n} : \E o \in old : Owners(g, K[m]) = {K[o]}
  <2> TAKE m \in old \ {n}
  <2>1. PICK o \in old : m \in Children(h, o)
    BY <1>3
  <2>2. \A q \in old : m \in Children(h, q) => q = o
    BY <1>2, <2>1 DEF Forest
  <2>3. \A x : x \in Owners(g, K[m]) <=> x = K[o]
    BY <1>16, <2>1, <2>2
  <2> QED
    BY <2>3
<1>21. Owners(g, K[n]) = {}
  <2>1. \A q \in old : n \notin Children(h, q)
    BY <1>1, <1>2, RootHasNoOwner
  <2> QED
    BY <1>2, <1>16, <2>1
<1>22. ASSUME NEW x \in Live(g)
       PROVE  g[x].refs = Cardinality(Owners(g, x)) + c[x]
  <2>1. CASE x \in Live(h)
    BY <1>1, <1>4, <1>15, <2>1 DEF Graph
  <2>2. CASE x \in New
    <3>1. PICK m \in old : x = K[m]
      BY <1>12, <2>2
    <3>2. c[x] = 0 /\ g[x].refs = IF m = n THEN 0 ELSE 1
      BY <1>5, <1>19, <2>2, <3>1
    <3>3. CASE m = n
      <4>1. Owners(g, x) = {}
        BY <1>21, <3>1, <3>3
      <4> QED
        BY <3>2, <3>3, <4>1, FS_EmptySet
    <3>4. CASE m # n
      <4>1. PICK o \in old : Owners(g, x) = {K[o]}
        BY <1>20, <3>1, <3>4
      <4>2. Cardinality(Owners(g, x)) = 1
        BY <4>1, FS_Singleton
      <4> QED
        BY <3>2, <3>4, <4>2
    <3> QED
      BY <3>3, <3>4
  <2> QED
    BY <1>7, <2>1, <2>2
<1>23. ASSUME NEW x \in Live(g), g[x].refs = 0
       PROVE  x \in R \cup {K[n]}
  <2>1. CASE x \in Live(h)
    BY <1>1, <1>4, <1>23, <2>1 DEF Graph
  <2>2. CASE x \in New
    BY <1>5, <1>12, <1>23, <2>2
  <2> QED
    BY <1>7, <2>1, <2>2
<1>24. K[n] \in New
  BY <1>2, <1>12
<1>25. R \cup {K[n]} \subseteq Live(g) /\ \A r \in R \cup {K[n]} : Owners(g, r) = {}
  <2>1. \A r \in R : Owners(h, r) = {} /\ r \in Nodes(h) /\ r \in Live(h)
    BY <1>1 DEF Graph
  <2> QED
    BY <1>7, <1>15, <1>21, <1>24, <2>1
<1>26. Graph(g, R \cup {K[n]}, c)
  BY <1>4, <1>17, <1>18, <1>19, <1>22, <1>23, <1>25 DEF Graph
<1>27. T \cup New \subseteq Live(g) /\ R \cup {K[n]} \subseteq T \cup New
  BY <1>1, <1>7, <1>24
<1>28. ASSUME NEW o \in T \cup New
       PROVE  Children(g, o) \subseteq T \cup New
  <2>1. CASE o \in T
    BY <1>1, <1>8, <2>1 DEF Forest
  <2>2. CASE o \in New
    BY <1>9, <1>10, <1>12, <2>2
  <2> QED
    BY <2>1, <2>2
<1>29. ASSUME NEW m \in T \cup New
       PROVE  m \in R \cup {K[n]} \/ \E o \in T \cup New : m \in Children(g, o)
  <2>1. CASE m \in T
    <3>1. m \in R \/ \E o \in T : m \in Children(h, o)
      BY <2>1 DEF Forest
    <3> QED
      BY <1>1, <1>8, <3>1
  <2>2. CASE m \in New
    <3>1. PICK a \in old : m = K[a]
      BY <1>12, <2>2
    <3>2. CASE a = n
      BY <3>1, <3>2
    <3>3. CASE a # n
      <4>1. PICK o \in old : a \in Children(h, o)
        BY <1>3, <3>3
      <4>2. m \in Children(g, K[o]) /\ K[o] \in New
        BY <1>11, <1>12, <3>1, <4>1
      <4> QED
        BY <4>2
    <3> QED
      BY <3>2, <3>3
  <2> QED
    BY <2>1, <2>2
<1>30. ASSUME NEW o \in T \cup New, NEW m \in Children(g, o)
       PROVE  g[m].parent = o
  <2>1. CASE o \in T
    <3>1. m \in Children(h, o) /\ h[m].parent = o /\ m \in T
      BY <1>1, <1>8, <1>30, <2>1 DEF Forest
    <3> QED
      BY <1>1, <1>4, <3>1
  <2>2. CASE o \in New
    <3>1. PICK a \in old : o = K[a]
      BY <1>12, <2>2
    <3>2. PICK b \in Children(h, a) : m = K[b]
      BY <1>9, <1>30, <3>1
    <3>3. b \in old /\ b # n
      BY <1>1, <1>2, <1>10, <3>1, <3>2, RootHasNoOwner
    <3> QED
      BY <1>6, <3>1, <3>2, <3>3
  <2> QED
    BY <2>1, <2>2
<1>31. Forest(g, T \cup New, R \cup {K[n]}, {})
  BY <1>27, <1>28, <1>29, <1>30 DEF Forest
<1> QED
  BY <1>2, <1>26, <1>31 DEF New

-----------------------------------------------------------------------------
(* Classes.                                                                *)

\* Classes the semantic actions name.
LEMMA SomeClasses ==
  /\ {"Block", "Literal", "InitializerList", "VarDecl", "Conditional", "BinaryOp", "UnaryOp",
      "UDTFieldOuter", "UDTVarDecl"} \subseteq ClassNames
  /\ Class["Block"] = Block /\ Class["Literal"] = Literal
  /\ Class["InitializerList"] = InitializerList /\ Class["VarDecl"] = VarDecl
  /\ Class["Conditional"] = Conditional /\ Class["BinaryOp"] = BinaryOp
  /\ Class["UnaryOp"] = UnaryOp /\ Class["UDTFieldOuter"] = UDTFieldOuter
  /\ Class["UDTVarDecl"] = UDTVarDecl
  BY DEF ClassNames, Class
\* There is no class of null.
LEMMA NullIsNoClass == "null" \notin ClassNames
  BY DEF ClassNames, Class
\* Expressions and statements are nodes.
LEMMA ExpressionsAreClasses ==
  Expression \subseteq ClassNames /\ Statement \subseteq ClassNames
  BY DEF ClassNames, Class, Expression, LValue, Statement, AnyAssignment, Loop, AnyVarDecl, AnyArrayDecl
\* What the classes that semantic actions build accept.
LEMMA WhatTheyAccept ==
  /\ IsList("Block") /\ ~IsList("Literal") /\ IsList("InitializerList") /\ ~IsList("VarDecl")
  /\ ~IsList("Conditional") /\ ~IsList("BinaryOp") /\ ~IsList("UnaryOp") /\ ~IsList("UDTFieldOuter")
  /\ ~IsList("UDTVarDecl")
  /\ \A i : Accepts("Block", i) = Required(Statement)
  /\ \A i : Accepts("InitializerList", i) = Required(Expression)
  /\ Accepts("VarDecl", 1) = Required({"ScopedAnnotatedSymbol"})
  /\ Accepts("VarDecl", 2) = Required({"InitializerList"})
  /\ Accepts("Conditional", 1) = Required(Expression)
  /\ Accepts("Conditional", 2) = Optional({"Block"}) /\ Accepts("Conditional", 3) = Optional({"Block"})
  /\ Accepts("BinaryOp", 1) = Required(Expression) /\ Accepts("BinaryOp", 2) = Required(Expression)
  /\ Accepts("UnaryOp", 1) = Required(Expression)
  /\ Accepts("UDTVarDecl", 3) = Optional({"InitializerList"})
  /\ Len(Class["Literal"].slots) = 0 /\ Len(Class["VarDecl"].slots) = 2
  /\ Len(Class["Conditional"].slots) = 3 /\ Len(Class["BinaryOp"].slots) = 2
  /\ Len(Class["UnaryOp"].slots) = 1 /\ Len(Class["UDTVarDecl"].slots) = 3
  /\ Len(Class["UDTFieldOuter"].slots) = 2
<1>1. Statement # {} /\ Expression # {}
  BY DEF Statement, Expression
<1>2. \A c \in {"Literal", "VarDecl", "Conditional", "BinaryOp", "UnaryOp", "UDTFieldOuter", "UDTVarDecl"} :
         ~IsList(c)
  BY SomeClasses DEF IsList, Literal, VarDecl, Conditional, BinaryOp, UnaryOp, UDTFieldOuter,
     UDTVarDecl, NoChildren, Fixed, WithoutAdopting
<1>3. IsList("Block") /\ IsList("InitializerList")
  BY <1>1, SomeClasses DEF IsList, Block, InitializerList, ListOf
<1>4. /\ \A i : Accepts("Block", i) = Required(Statement)
      /\ \A i : Accepts("InitializerList", i) = Required(Expression)
  BY <1>3, SomeClasses DEF Accepts, Block, InitializerList, ListOf
<1>5. /\ Accepts("VarDecl", 1) = Required({"ScopedAnnotatedSymbol"})
      /\ Accepts("VarDecl", 2) = Required({"InitializerList"})
      /\ Len(Class["VarDecl"].slots) = 2 /\ Len(Class["Literal"].slots) = 0
  BY <1>2, SomeClasses DEF Accepts, VarDecl, Fixed, Literal, NoChildren
<1>6. /\ Accepts("Conditional", 1) = Required(Expression)
      /\ Accepts("Conditional", 2) = Optional({"Block"}) /\ Accepts("Conditional", 3) = Optional({"Block"})
      /\ Len(Class["Conditional"].slots) = 3
  BY <1>2, SomeClasses DEF Accepts, Conditional, Fixed
<1>7. /\ Accepts("BinaryOp", 1) = Required(Expression) /\ Accepts("BinaryOp", 2) = Required(Expression)
      /\ Accepts("UnaryOp", 1) = Required(Expression)
      /\ Len(Class["BinaryOp"].slots) = 2 /\ Len(Class["UnaryOp"].slots) = 1
  BY <1>2, SomeClasses DEF Accepts, BinaryOp, UnaryOp, Fixed
<1>8. /\ Accepts("UDTVarDecl", 3) = Optional({"InitializerList"})
      /\ Len(Class["UDTVarDecl"].slots) = 3 /\ Len(Class["UDTFieldOuter"].slots) = 2
  BY <1>2, SomeClasses DEF Accepts, UDTVarDecl, UDTFieldOuter, Fixed, WithoutAdopting
<1> QED
  BY <1>2, <1>3, <1>4, <1>5, <1>6, <1>7, <1>8

\* What rule "new" and the reductions construct fits its class, and so does
\* what becomes of a node.
Permits(class, i, type) ==
  /\ type \in Accepts(class, i).types
  /\ class = "UDTFieldOuter" /\ i = 1 => type # "BinaryOp"
Fits(h, n) ==
  LET class == h[n].class IN
  /\ IsList(class) \/ Len(h[n].kids) = Len(Class[class].slots)
  /\ \A i \in Slots(h, n) :
       IF h[n].kids[i] = NULL THEN Accepts(class, i).optional
       ELSE Permits(class, i, h[h[n].kids[i]].class)
AllFit(h, T) == \A n \in T : Fits(h, n)
TypeOf(h, n) == IF n = NULL THEN "null" ELSE h[n].class

\* A node that fits in this sense is what its class declares.
LEMMA FittingIsEnough ==
  ASSUME NEW h, NEW n, Fits(h, n)
  PROVE  FitsItsClass(h, n)
  BY DEF Fits, FitsItsClass, Permits

\* A node fits as long as its children keep their classes.
LEMMA FitsKept ==
  ASSUME NEW h, NEW g, NEW n, NEW m, Fits(h, n), g[m].class = h[n].class,
         DOMAIN g[m].kids = DOMAIN h[n].kids, Len(g[m].kids) = Len(h[n].kids),
         \A i \in DOMAIN h[n].kids :
           IF h[n].kids[i] = NULL THEN g[m].kids[i] = NULL
           ELSE g[m].kids[i] # NULL /\ g[g[m].kids[i]].class = h[h[n].kids[i]].class
  PROVE  Fits(g, m)
<1>1. PICK class : class = h[n].class
  OBVIOUS
<1>2. IsList(class) \/ Len(g[m].kids) = Len(Class[class].slots)
  BY <1>1 DEF Fits
<1>3. ASSUME NEW i \in Slots(g, m)
      PROVE  IF g[m].kids[i] = NULL THEN Accepts(class, i).optional
             ELSE Permits(class, i, g[g[m].kids[i]].class)
  <2>1. i \in Slots(h, n)
    BY <1>3 DEF Slots
  <2>2. IF h[n].kids[i] = NULL THEN Accepts(class, i).optional
        ELSE Permits(class, i, h[h[n].kids[i]].class)
    BY <1>1, <2>1 DEF Fits
  <2> QED
    BY <2>1, <2>2 DEF Slots
<1> QED
  BY <1>1, <1>2, <1>3 DEF Fits

\* In particular if neither its children nor any class has changed.
LEMMA AllFitKept ==
  ASSUME NEW h, IsHeap(h), Whole(h), NEW T \in SUBSET Nodes(h), AllFit(h, T), NEW g,
         \A n \in Nodes(h) : g[n].class = h[n].class /\ g[n].kids = h[n].kids
  PROVE  AllFit(g, T)
<1> SUFFICES ASSUME NEW n \in T PROVE Fits(g, n)
  BY DEF AllFit
<1>1. Fits(h, n) /\ n \in Nodes(h) /\ g[n].class = h[n].class /\ g[n].kids = h[n].kids
  BY DEF AllFit
<1>2. \A i \in DOMAIN h[n].kids : h[n].kids[i] # NULL => h[n].kids[i] \in Nodes(h)
  BY <1>1 DEF Whole, Children, Slots
<1> QED
  BY <1>1, <1>2, FitsKept

\* A list takes an element of its type.
LEMMA AppendFits ==
  ASSUME NEW h, IsHeap(h), Whole(h), NEW T \in SUBSET Nodes(h), AllFit(h, T),
         NEW p \in T, NEW n \in Nodes(h), NEW Drop,
         IsList(h[p].class), h[n].class \in Class[h[p].class].elements,
         ~ (h[p].class = "UDTFieldOuter"),
         NEW g, Linked(h, g, p, n, Drop), Entries(g[p].kids) = Entries(h[p].kids) \cup {n}
  PROVE  AllFit(g, T)
<1> SUFFICES ASSUME NEW q \in T PROVE Fits(g, q)
  BY DEF AllFit
<1>1. /\ \A m \in Nodes(h) : g[m].class = h[m].class /\ (m # p => g[m].kids = h[m].kids)
      /\ IsHeap(g)
  BY DEF Linked
<1>2. /\ Fits(h, q) /\ q \in Nodes(h)
      /\ \A i \in DOMAIN h[q].kids : h[q].kids[i] # NULL => h[q].kids[i] \in Nodes(h)
  BY DEF AllFit, Whole, Children, Slots
<1>3. CASE q # p
  BY <1>1, <1>2, <1>3, FitsKept
<1>4. CASE q = p
  <2>1. PICK class : class = h[p].class
    OBVIOUS
  <2>2. g[p].class = class /\ Accepts(class, 0) = Required(Class[class].elements)
        /\ \A i : Accepts(class, i) = Required(Class[class].elements)
    BY <1>1, <1>2, <1>4, <2>1 DEF Accepts
  <2>3. ASSUME NEW i \in Slots(g, p)
        PROVE  IF g[p].kids[i] = NULL THEN Accepts(class, i).optional
               ELSE Permits(class, i, g[g[p].kids[i]].class)
    <3>1. PICK x : x = g[p].kids[i]
      OBVIOUS
    <3>2. x = n \/ \E j \in Slots(h, p) : h[p].kids[j] = x
      BY <3>1 DEF Entries, Slots
    <3>3. CASE x = n
      <4>1. n # NULL
        BY HeapFacts
      <4> QED
        BY <1>1, <2>1, <2>2, <3>1, <3>3, <4>1 DEF Permits, Required
    <3>4. CASE x # n
      <4>1. PICK j \in Slots(h, p) : h[p].kids[j] = x
        BY <3>2, <3>4
      <4>2. IF x = NULL THEN Accepts(class, j).optional ELSE Permits(class, j, h[x].class)
        BY <1>2, <1>4, <2>1, <4>1 DEF Fits
      <4>3. ~ Accepts(class, j).optional
        BY <2>2 DEF Required
      <4>4. x # NULL /\ h[x].class \in Class[class].elements /\ x \in Nodes(h)
        BY <1>2, <1>4, <2>2, <4>1, <4>2, <4>3 DEF Permits, Required, Slots
      <4> QED
        BY <1>1, <2>1, <2>2, <3>1, <4>4 DEF Permits, Required
    <3> QED
      BY <3>3, <3>4
  <2> QED
    BY <1>4, <2>1, <2>2, <2>3 DEF Fits
<1> QED
  BY <1>3, <1>4

\* A child is replaced by one that its place permits.
KidReplaced(h, g, p, n, i) ==
  /\ \A m \in Nodes(h) : g[m].class = h[m].class /\ (m # p => g[m].kids = h[m].kids)
  /\ n # NULL /\ i \in Slots(h, p) /\ Permits(h[p].class, i, g[n].class)
  /\ DOMAIN g[p].kids = DOMAIN h[p].kids /\ Len(g[p].kids) = Len(h[p].kids)
  /\ g[p].kids[i] = n /\ \A j \in Slots(h, p) : j # i => g[p].kids[j] = h[p].kids[j]
\* A node fits with a child replaced by one its class accepts.
LEMMA ReplaceFits ==
  ASSUME NEW h, IsHeap(h), Whole(h), NEW T \in SUBSET Nodes(h), AllFit(h, T), NEW g,
         NEW p \in T, NEW n, NEW i, KidReplaced(h, g, p, n, i)
  PROVE  AllFit(g, T)
<1> SUFFICES ASSUME NEW q \in T PROVE Fits(g, q)
  BY DEF AllFit
<1> USE DEF KidReplaced
<1>2. /\ Fits(h, q) /\ q \in Nodes(h)
      /\ \A j \in DOMAIN h[q].kids : h[q].kids[j] # NULL => h[q].kids[j] \in Nodes(h)
  BY DEF AllFit, Whole, Children, Slots
<1>3. CASE q # p
  BY <1>2, <1>3, FitsKept
<1>4. CASE q = p
  <2>1. PICK class : class = h[p].class
    OBVIOUS
  <2>2. g[p].class = class /\ (IsList(class) \/ Len(g[p].kids) = Len(Class[class].slots))
    BY <1>2, <1>4, <2>1 DEF Fits
  <2>3. ASSUME NEW j \in Slots(g, p)
        PROVE  IF g[p].kids[j] = NULL THEN Accepts(class, j).optional
               ELSE Permits(class, j, g[g[p].kids[j]].class)
    <3>1. j \in Slots(h, p)
      BY <2>3 DEF Slots
    <3>2. CASE j = i
      BY <2>1, <3>2
    <3>3. CASE j # i
      <4>1. g[p].kids[j] = h[p].kids[j]
        BY <3>1, <3>3
      <4>2. IF h[p].kids[j] = NULL THEN Accepts(class, j).optional
            ELSE Permits(class, j, h[h[p].kids[j]].class)
        BY <1>2, <1>4, <2>1, <3>1 DEF Fits
      <4>3. h[p].kids[j] # NULL => g[h[p].kids[j]].class = h[h[p].kids[j]].class
        BY <1>2, <1>4, <3>1 DEF Slots
      <4> QED
        BY <4>1, <4>2, <4>3
    <3> QED
      BY <3>2, <3>3
  <2> QED
    BY <1>4, <2>1, <2>2, <2>3 DEF Fits
<1> QED
  BY <1>3, <1>4

\* A copy fits as what it is a copy of.
LEMMA CopiesFit ==
  ASSUME NEW h, IsHeap(h), Whole(h), NEW T \in SUBSET Nodes(h), AllFit(h, T),
         NEW old \in SUBSET T, Closed(h, old), NEW g, NEW K, Copies(h, g, old, K)
  PROVE  AllFit(g, T \cup {K[m] : m \in old})
<1>1. AllFit(g, T)
  <2>1. \A n \in Nodes(h) : g[n].class = h[n].class /\ g[n].kids = h[n].kids
    BY DEF Copies
  <2> QED
    BY <2>1, AllFitKept
<1>2. ASSUME NEW m \in old
      PROVE  Fits(g, K[m])
  <2>1. Fits(h, m) /\ m \in Nodes(h)
    BY DEF AllFit
  <2>2. /\ g[K[m]].class = h[m].class
        /\ DOMAIN g[K[m]].kids = DOMAIN h[m].kids /\ Len(g[K[m]].kids) = Len(h[m].kids)
        /\ \A i \in DOMAIN h[m].kids :
             g[K[m]].kids[i] = IF h[m].kids[i] = NULL THEN NULL ELSE K[h[m].kids[i]]
    BY DEF Copies
  <2>3. \A o \in old : K[o] # NULL /\ g[K[o]].class = h[o].class
    BY DEF Copies
  <2>4. \A i \in DOMAIN h[m].kids : h[m].kids[i] # NULL => h[m].kids[i] \in old
    BY DEF Closed, Children, Slots
  <2>5. \A i \in DOMAIN h[m].kids :
           IF h[m].kids[i] = NULL THEN g[K[m]].kids[i] = NULL
           ELSE g[K[m]].kids[i] # NULL /\ g[g[K[m]].kids[i]].class = h[h[m].kids[i]].class
    BY <2>2, <2>3, <2>4
  <2> QED
    BY <2>1, <2>2, <2>5, FitsKept
<1> QED
  BY <1>1, <1>2 DEF AllFit

-----------------------------------------------------------------------------
(* Operators: where a binary operator may stand, swapChild is looking for  *)
(* it, takes a unary operator and becomes its parent.                      *)
SwapsOperator(class) ==
  \A i \in Nat :
    (IsList(class) \/ i \in 1 .. Len(Class[class].slots)) /\ Permits(class, i, "BinaryOp") =>
      Permits(class, i, "UnaryOp") /\ Accepts(class, i).swaps /\ Class[class].adopts

\* The table of classes.
LEMMA NamedClasses ==
  /\ Class["Symbol"] = Symbol /\ Class["AnnotatedSymbol"] = AnnotatedSymbol
  /\ Class["ScopedAnnotatedSymbol"] = ScopedAnnotatedSymbol /\ Class["UDTRef"] = UDTRef
  /\ Class["Literal"] = Literal /\ Class["ArgList"] = ArgList
  /\ Class["InitializerList"] = InitializerList /\ Class["Block"] = Block
  /\ Class["VarRef"] = VarRef /\ Class["ArrayRef"] = ArrayRef
  /\ Class["UDTFieldOuter"] = UDTFieldOuter /\ Class["UDTFieldInner"] = UDTFieldInner
  /\ Class["BinaryOp"] = BinaryOp /\ Class["UnaryOp"] = UnaryOp
  /\ Class["CommandExpr"] = CommandExpr /\ Class["CommandStmnt"] = CommandStmnt
  /\ Class["FuncCallExpr"] = FuncCallExpr /\ Class["FuncCallExprOrArrayRef"] = FuncCallExprOrArrayRef
  /\ Class["FuncCallStmnt"] = FuncCallStmnt /\ Class["VarAssignment"] = VarAssignment
  /\ Class["ArrayAssignment"] = ArrayAssignment /\ Class["UDTFieldAssignment"] = UDTFieldAssignment
  /\ Class["ConstDeclExpr"] = ConstDeclExpr /\ Class["VarDecl"] = VarDecl
  /\ Class["UDTVarDecl"] = UDTVarDecl /\ Class["ArrayDecl"] = ArrayDecl
  /\ Class["UDTArrayDecl"] = UDTArrayDecl /\ Class["UDTDecl"] = UDTDecl
  /\ Class["UDTDeclBody"] = UDTDeclBody /\ Class["Conditional"] = Conditional
  /\ Class["InfiniteLoop"] = InfiniteLoop /\ Class["WhileLoop"] = WhileLoop
  /\ Class["UntilLoop"] = UntilLoop /\ Class["ForLoop"] = ForLoop
  /\ Class["Exit"] = Exit /\ Class["FuncDecl"] = FuncDecl
  /\ Class["FuncExit"] = FuncExit /\ Class["Goto"] = Goto
  /\ Class["Label"] = Label /\ Class["SubCall"] = SubCall
  /\ Class["SubReturn"] = SubReturn /\ Class["Select"] = Select
  /\ Class["CaseList"] = CaseList /\ Class["Case"] = Case
  /\ Class["DefaultCase"] = DefaultCase
  BY DEF Class

\* Where a class accepts a binary operator, its swapChild finds it (all classes).
LEMMA OperatorsAreSwapped ==
  ASSUME NEW class \in ClassNames
  PROVE  SwapsOperator(class)
<1>1. SwapsOperator("Symbol")
  BY NamedClasses DEF SwapsOperator, Permits, Accepts, IsList, Symbol, NoChildren, Fixed
<1>2. SwapsOperator("AnnotatedSymbol")
  BY NamedClasses DEF SwapsOperator, Permits, Accepts, IsList, AnnotatedSymbol,
     NoChildren, Fixed
<1>3. SwapsOperator("ScopedAnnotatedSymbol")
  BY NamedClasses DEF SwapsOperator, Permits, Accepts, IsList, ScopedAnnotatedSymbol,
     NoChildren, Fixed
<1>4. SwapsOperator("UDTRef")
  BY NamedClasses DEF SwapsOperator, Permits, Accepts, IsList, UDTRef, NoChildren, Fixed
<1>5. SwapsOperator("Literal")
  BY NamedClasses DEF SwapsOperator, Permits, Accepts, IsList, Literal, NoChildren, Fixed
<1>6. SwapsOperator("ArgList")
  BY NamedClasses DEF SwapsOperator, Permits, Accepts, IsList, ArgList, ListOf,
     Expression, LValue, Required
<1>7. SwapsOperator("InitializerList")
  BY NamedClasses DEF SwapsOperator, Permits, Accepts, IsList, InitializerList, ListOf,
     Expression, LValue, Required
<1>8. SwapsOperator("Block")
  BY NamedClasses DEF SwapsOperator, Permits, Accepts, IsList, Block, ListOf, Statement,
     AnyAssignment, Loop, AnyVarDecl, AnyArrayDecl, Required
<1>9. SwapsOperator("VarRef")
  BY NamedClasses DEF SwapsOperator, Permits, Accepts, IsList, VarRef, Fixed, Required
<1>10. SwapsOperator("ArrayRef")
  BY NamedClasses DEF SwapsOperator, Permits, Accepts, IsList, ArrayRef, Fixed, Required
<1>11. SwapsOperator("UDTFieldOuter")
  BY NamedClasses DEF SwapsOperator, Permits, Accepts, IsList, UDTFieldOuter,
     WithoutAdopting, Fixed, Required, Expression, LValue
<1>12. SwapsOperator("UDTFieldInner")
  BY NamedClasses DEF SwapsOperator, Permits, Accepts, IsList, UDTFieldInner,
     WithoutAdopting, Fixed, Required, LValue
<1>13. SwapsOperator("BinaryOp")
  BY NamedClasses DEF SwapsOperator, Permits, Accepts, IsList, BinaryOp, Fixed, Required,
     Expression, LValue
<1>14. SwapsOperator("UnaryOp")
  BY NamedClasses DEF SwapsOperator, Permits, Accepts, IsList, UnaryOp, Fixed, Required,
     Expression, LValue
<1>15. SwapsOperator("CommandExpr")
  BY NamedClasses DEF SwapsOperator, Permits, Accepts, IsList, CommandExpr, Fixed,
     Optional
<1>16. SwapsOperator("CommandStmnt")
  BY NamedClasses DEF SwapsOperator, Permits, Accepts, IsList, CommandStmnt, Fixed,
     Optional
<1>17. SwapsOperator("FuncCallExpr")
  BY NamedClasses DEF SwapsOperator, Permits, Accepts, IsList, FuncCallExpr, Fixed,
     Required, Optional
<1>18. SwapsOperator("FuncCallExprOrArrayRef")
  BY NamedClasses DEF SwapsOperator, Permits, Accepts, IsList, FuncCallExprOrArrayRef,
     Fixed, Required, Optional
<1>19. SwapsOperator("FuncCallStmnt")
  BY NamedClasses DEF SwapsOperator, Permits, Accepts, IsList, FuncCallStmnt, Fixed,
     Required, Optional
<1>20. SwapsOperator("VarAssignment")
  BY NamedClasses DEF SwapsOperator, Permits, Accepts, IsList, VarAssignment, Fixed,
     Required, Expression, LValue
<1>21. SwapsOperator("ArrayAssignment")
  BY NamedClasses DEF SwapsOperator, Permits, Accepts, IsList, ArrayAssignment, Fixed,
     Required, Expression, LValue
<1>22. SwapsOperator("UDTFieldAssignment")
  BY NamedClasses DEF SwapsOperator, Permits, Accepts, IsList, UDTFieldAssignment, Fixed,
     Required, Expression, LValue
<1>23. SwapsOperator("ConstDeclExpr")
  BY NamedClasses DEF SwapsOperator, Permits, Accepts, IsList, ConstDeclExpr, Fixed,
     Required, Expression, LValue
<1>24. SwapsOperator("VarDecl")
  BY NamedClasses DEF SwapsOperator, Permits, Accepts, IsList, VarDecl, Fixed, Required
<1>25. SwapsOperator("UDTVarDecl")
  BY NamedClasses DEF SwapsOperator, Permits, Accepts, IsList, UDTVarDecl,
     WithoutAdopting, Fixed, Unswappable, Required, Optional
<1>26. SwapsOperator("ArrayDecl")
  BY NamedClasses DEF SwapsOperator, Permits, Accepts, IsList, ArrayDecl, Fixed, Required
<1>27. SwapsOperator("UDTArrayDecl")
  BY NamedClasses DEF SwapsOperator, Permits, Accepts, IsList, UDTArrayDecl,
     WithoutAdopting, Fixed, Required
<1>28. SwapsOperator("UDTDecl")
  BY NamedClasses DEF SwapsOperator, Permits, Accepts, IsList, UDTDecl, WithoutAdopting,
     Fixed, Required
<1>29. SwapsOperator("UDTDeclBody")
  BY NamedClasses DEF SwapsOperator, Permits, Accepts, IsList, UDTDeclBody,
     WithoutAdopting, ListOf, AnyVarDecl, AnyArrayDecl, Required
<1>30. SwapsOperator("Conditional")
  BY NamedClasses DEF SwapsOperator, Permits, Accepts, IsList, Conditional, Fixed,
     Required, Expression, Optional, LValue
<1>31. SwapsOperator("InfiniteLoop")
  BY NamedClasses DEF SwapsOperator, Permits, Accepts, IsList, InfiniteLoop, Fixed,
     Optional
<1>32. SwapsOperator("WhileLoop")
  BY NamedClasses DEF SwapsOperator, Permits, Accepts, IsList, WhileLoop, Fixed, Required,
     Expression, Optional, LValue
<1>33. SwapsOperator("UntilLoop")
  BY NamedClasses DEF SwapsOperator, Permits, Accepts, IsList, UntilLoop, Fixed, Required,
     Expression, Optional, LValue
<1>34. SwapsOperator("ForLoop")
  BY NamedClasses DEF SwapsOperator, Permits, Accepts, IsList, ForLoop, Fixed, Required,
     AnyAssignment, Expression, Optional, LValue
<1>35. SwapsOperator("Exit")
  BY NamedClasses DEF SwapsOperator, Permits, Accepts, IsList, Exit, NoChildren, Fixed
<1>36. SwapsOperator("FuncDecl")
  BY NamedClasses DEF SwapsOperator, Permits, Accepts, IsList, FuncDecl, Fixed, Required,
     Unswappable, Optional, Expression, LValue
<1>37. SwapsOperator("FuncExit")
  BY NamedClasses DEF SwapsOperator, Permits, Accepts, IsList, FuncExit, Fixed, Optional,
     Expression, LValue
<1>38. SwapsOperator("Goto")
  BY NamedClasses DEF SwapsOperator, Permits, Accepts, IsList, Goto, WithoutAdopting,
     Fixed, Required
<1>39. SwapsOperator("Label")
  BY NamedClasses DEF SwapsOperator, Permits, Accepts, IsList, Label, Fixed, Required
<1>40. SwapsOperator("SubCall")
  BY NamedClasses DEF SwapsOperator, Permits, Accepts, IsList, SubCall, Fixed, Required
<1>41. SwapsOperator("SubReturn")
  BY NamedClasses DEF SwapsOperator, Permits, Accepts, IsList, SubReturn, NoChildren,
     Fixed
<1>42. SwapsOperator("Select")
  BY NamedClasses DEF SwapsOperator, Permits, Accepts, IsList, Select, Fixed, Required,
     Expression, Optional, LValue
<1>43. SwapsOperator("CaseList")
  BY NamedClasses DEF SwapsOperator, Permits, Accepts, IsList, CaseList, ListOf, Required
<1>44. SwapsOperator("Case")
  BY NamedClasses DEF SwapsOperator, Permits, Accepts, IsList, Case, Fixed, Required,
     Expression, Optional, LValue
<1>45. SwapsOperator("DefaultCase")
  BY NamedClasses DEF SwapsOperator, Permits, Accepts, IsList, DefaultCase, Fixed,
     Optional
<1>46. ClassNames = {"Symbol", "AnnotatedSymbol", "ScopedAnnotatedSymbol", "UDTRef", "Literal", "ArgList",
     "InitializerList", "Block", "VarRef", "ArrayRef", "UDTFieldOuter", "UDTFieldInner",
     "BinaryOp", "UnaryOp", "CommandExpr", "CommandStmnt", "FuncCallExpr",
     "FuncCallExprOrArrayRef", "FuncCallStmnt", "VarAssignment", "ArrayAssignment",
     "UDTFieldAssignment", "ConstDeclExpr", "VarDecl", "UDTVarDecl", "ArrayDecl",
     "UDTArrayDecl", "UDTDecl", "UDTDeclBody", "Conditional", "InfiniteLoop", "WhileLoop",
     "UntilLoop", "ForLoop", "Exit", "FuncDecl", "FuncExit", "Goto", "Label", "SubCall",
     "SubReturn", "Select", "CaseList", "Case", "DefaultCase"}
  BY DEF ClassNames, Class
<1> QED
  BY <1>46, <1>1, <1>2, <1>3, <1>4, <1>5, <1>6, <1>7, <1>8, <1>9, <1>10, <1>11, <1>12,
     <1>13, <1>14, <1>15, <1>16, <1>17, <1>18, <1>19, <1>20, <1>21, <1>22, <1>23, <1>24,
     <1>25, <1>26, <1>27, <1>28, <1>29, <1>30, <1>31, <1>32, <1>33, <1>34, <1>35, <1>36,
     <1>37, <1>38, <1>39, <1>40, <1>41, <1>42, <1>43, <1>44, <1>45

\* What a list takes is a node.
HasElements(class) ==
  /\ Class[class].elements \subseteq ClassNames /\ "null" \notin Class[class].elements
  /\ class = "UDTFieldOuter" => ~IsList(class)
\* What a list takes is a node (all classes).
LEMMA ElementsAreClasses ==
  ASSUME NEW class \in ClassNames
  PROVE  HasElements(class)
<1>1. HasElements("Symbol")
  BY NamedClasses DEF HasElements, Symbol, NoChildren, Fixed
<1>2. HasElements("AnnotatedSymbol")
  BY NamedClasses DEF HasElements, AnnotatedSymbol, NoChildren, Fixed
<1>3. HasElements("ScopedAnnotatedSymbol")
  BY NamedClasses DEF HasElements, ScopedAnnotatedSymbol, NoChildren, Fixed
<1>4. HasElements("UDTRef")
  BY NamedClasses DEF HasElements, UDTRef, NoChildren, Fixed
<1>5. HasElements("Literal")
  BY NamedClasses DEF HasElements, Literal, NoChildren, Fixed
<1>6. HasElements("ArgList")
  BY NamedClasses DEF HasElements, ClassNames, Class, ArgList, ListOf, Expression, LValue
<1>7. HasElements("InitializerList")
  BY NamedClasses DEF HasElements, ClassNames, Class, InitializerList, ListOf, Expression,
     LValue
<1>8. HasElements("Block")
  BY NamedClasses DEF HasElements, ClassNames, Class, Block, ListOf, Statement,
     AnyAssignment, Loop, AnyVarDecl, AnyArrayDecl
<1>9. HasElements("VarRef")
  BY NamedClasses DEF HasElements, VarRef, Fixed
<1>10. HasElements("ArrayRef")
  BY NamedClasses DEF HasElements, ArrayRef, Fixed
<1>11. HasElements("UDTFieldOuter")
  BY NamedClasses DEF HasElements, UDTFieldOuter, WithoutAdopting, Fixed, IsList
<1>12. HasElements("UDTFieldInner")
  BY NamedClasses DEF HasElements, UDTFieldInner, WithoutAdopting, Fixed
<1>13. HasElements("BinaryOp")
  BY NamedClasses DEF HasElements, BinaryOp, Fixed
<1>14. HasElements("UnaryOp")
  BY NamedClasses DEF HasElements, UnaryOp, Fixed
<1>15. HasElements("CommandExpr")
  BY NamedClasses DEF HasElements, CommandExpr, Fixed
<1>16. HasElements("CommandStmnt")
  BY NamedClasses DEF HasElements, CommandStmnt, Fixed
<1>17. HasElements("FuncCallExpr")
  BY NamedClasses DEF HasElements, FuncCallExpr, Fixed
<1>18. HasElements("FuncCallExprOrArrayRef")
  BY NamedClasses DEF HasElements, FuncCallExprOrArrayRef, Fixed
<1>19. HasElements("FuncCallStmnt")
  BY NamedClasses DEF HasElements, FuncCallStmnt, Fixed
<1>20. HasElements("VarAssignment")
  BY NamedClasses DEF HasElements, VarAssignment, Fixed
<1>21. HasElements("ArrayAssignment")
  BY NamedClasses DEF HasElements, ArrayAssignment, Fixed
<1>22. HasElements("UDTFieldAssignment")
  BY NamedClasses DEF HasElements, UDTFieldAssignment, Fixed
<1>23. HasElements("ConstDeclExpr")
  BY NamedClasses DEF HasElements, ConstDeclExpr, Fixed
<1>24. HasElements("VarDecl")
  BY NamedClasses DEF HasElements, VarDecl, Fixed
<1>25. HasElements("UDTVarDecl")
  BY NamedClasses DEF HasElements, UDTVarDecl, WithoutAdopting, Fixed
<1>26. HasElements("ArrayDecl")
  BY NamedClasses DEF HasElements, ArrayDecl, Fixed
<1>27. HasElements("UDTArrayDecl")
  BY NamedClasses DEF HasElements, UDTArrayDecl, WithoutAdopting, Fixed
<1>28. HasElements("UDTDecl")
  BY NamedClasses DEF HasElements, UDTDecl, WithoutAdopting, Fixed
<1>29. HasElements("UDTDeclBody")
  BY NamedClasses DEF HasElements, ClassNames, Class, UDTDeclBody, WithoutAdopting,
     ListOf, AnyVarDecl, AnyArrayDecl
<1>30. HasElements("Conditional")
  BY NamedClasses DEF HasElements, Conditional, Fixed
<1>31. HasElements("InfiniteLoop")
  BY NamedClasses DEF HasElements, InfiniteLoop, Fixed
<1>32. HasElements("WhileLoop")
  BY NamedClasses DEF HasElements, WhileLoop, Fixed
<1>33. HasElements("UntilLoop")
  BY NamedClasses DEF HasElements, UntilLoop, Fixed
<1>34. HasElements("ForLoop")
  BY NamedClasses DEF HasElements, ForLoop, Fixed
<1>35. HasElements("Exit")
  BY NamedClasses DEF HasElements, Exit, NoChildren, Fixed
<1>36. HasElements("FuncDecl")
  BY NamedClasses DEF HasElements, FuncDecl, Fixed
<1>37. HasElements("FuncExit")
  BY NamedClasses DEF HasElements, FuncExit, Fixed
<1>38. HasElements("Goto")
  BY NamedClasses DEF HasElements, Goto, WithoutAdopting, Fixed
<1>39. HasElements("Label")
  BY NamedClasses DEF HasElements, Label, Fixed
<1>40. HasElements("SubCall")
  BY NamedClasses DEF HasElements, SubCall, Fixed
<1>41. HasElements("SubReturn")
  BY NamedClasses DEF HasElements, SubReturn, NoChildren, Fixed
<1>42. HasElements("Select")
  BY NamedClasses DEF HasElements, Select, Fixed
<1>43. HasElements("CaseList")
  BY NamedClasses DEF HasElements, ClassNames, Class, CaseList, ListOf
<1>44. HasElements("Case")
  BY NamedClasses DEF HasElements, Case, Fixed
<1>45. HasElements("DefaultCase")
  BY NamedClasses DEF HasElements, DefaultCase, Fixed
<1>46. ClassNames = {"Symbol", "AnnotatedSymbol", "ScopedAnnotatedSymbol", "UDTRef", "Literal", "ArgList",
     "InitializerList", "Block", "VarRef", "ArrayRef", "UDTFieldOuter", "UDTFieldInner",
     "BinaryOp", "UnaryOp", "CommandExpr", "CommandStmnt", "FuncCallExpr",
     "FuncCallExprOrArrayRef", "FuncCallStmnt", "VarAssignment", "ArrayAssignment",
     "UDTFieldAssignment", "ConstDeclExpr", "VarDecl", "UDTVarDecl", "ArrayDecl",
     "UDTArrayDecl", "UDTDecl", "UDTDeclBody", "Conditional", "InfiniteLoop", "WhileLoop",
     "UntilLoop", "ForLoop", "Exit", "FuncDecl", "FuncExit", "Goto", "Label", "SubCall",
     "SubReturn", "Select", "CaseList", "Case", "DefaultCase"}
  BY DEF ClassNames, Class
<1> QED
  BY <1>46, <1>1, <1>2, <1>3, <1>4, <1>5, <1>6, <1>7, <1>8, <1>9, <1>10, <1>11, <1>12,
     <1>13, <1>14, <1>15, <1>16, <1>17, <1>18, <1>19, <1>20, <1>21, <1>22, <1>23, <1>24,
     <1>25, <1>26, <1>27, <1>28, <1>29, <1>30, <1>31, <1>32, <1>33, <1>34, <1>35, <1>36,
     <1>37, <1>38, <1>39, <1>40, <1>41, <1>42, <1>43, <1>44, <1>45

-----------------------------------------------------------------------------
(* swapChild.                                                              *)

SwapsAt(h, g, p, op, u, i) ==
  /\ Linked(h, g, p, u, {op}) /\ DOMAIN g[p].kids = DOMAIN h[p].kids
  /\ Len(g[p].kids) = Len(h[p].kids) /\ g[p].kids[i] = u
  /\ \A j \in Slots(h, p) : j # i => g[p].kids[j] = h[p].kids[j]

\* swapChild puts the new node in the place of the old one.
LEMMA SwapChildIs ==
  ASSUME NEW h, IsHeap(h), NEW p \in Nodes(h), NEW u \in Nodes(h), u # p,
         u \notin Children(h, p), Distinct(h[p].kids), NEW i \in Slots(h, p),
         NEW op, op # NULL, h[p].kids[i] = op,
         Accepts(h[p].class, i).swaps, h[u].class \in Accepts(h[p].class, i).types,
         Class[h[p].class].adopts
  PROVE  SwapsAt(h, SwapChild(h, p, op, u), p, op, u, i)
<1>1. PICK k \in Seq(Nat) : k = h[p].kids
  BY HeapFacts
<1>2. /\ i \in DOMAIN k /\ Distinct(k) /\ k[i] # NULL /\ u \in Nat /\ u # NULL /\ u \notin Entries(k)
      /\ Children(h, p) = Entries(k) \ {NULL} /\ Slots(h, p) = DOMAIN k /\ k[i] = op /\ p \in Int
      /\ \A j \in DOMAIN k : k[j] = op => j = i
  <2>1. u \in Nat /\ u # NULL /\ p \in Int
    BY HeapFacts
  <2> QED
    BY <1>1, <2>1 DEF Children, Slots, Entries, Distinct
<1>3. PICK s : s = [k EXCEPT ![i] = u]
  OBVIOUS
<1>4. OtherEntry(k, s, i, u)
  BY <1>2, <1>3, EntryReplaced
<1>5. s \in Seq(Nat)
  BY <1>4 DEF OtherEntry
<1>6. Swappable(h, p, op) = {i} /\ i \in Int
  BY <1>1, <1>2 DEF Swappable
<1>7. (CHOOSE j \in Swappable(h, p, op) : \A l \in Swappable(h, p, op) : j <= l) = i
  BY <1>6
<1>8. PICK a : a = AddRef(h, u)
  OBVIOUS
<1>9. PICK g : g = SwapChild(h, p, op, u)
  OBVIOUS
<1>10. g = [[a EXCEPT ![p].kids[i] = u] EXCEPT ![u].parent = p]
  BY <1>7, <1>8, <1>9 DEF SwapChild
<1>11. PICK x \in Node : x = h[u]
  BY HeapFacts
<1>12. PICK new : new = [x EXCEPT !.refs = @ + 1]
  OBVIOUS
<1>13. x.refs + 1 \in Nat /\ x.parent \in Int
  BY DEF Node
<1>14. Like(new, x, x.kids, x.parent, x.refs + 1, x.live)
  BY <1>12, <1>13, OtherCount
<1>15. Altered(h, a, u, new)
  <2>1. a = [h EXCEPT ![u] = new]
    BY <1>2, <1>8, <1>11, <1>12 DEF AddRef
  <2> QED
    BY <1>14, <2>1, OneChanged DEF Like
<1>16. IsHeap(a) /\ Len(a) = Len(h) /\ Nodes(a) = Nodes(h) /\ a[p] = h[p]
  BY <1>15 DEF Altered
<1>17. PICK y \in Node : y = h[p]
  BY HeapFacts
<1>18. PICK new2 : new2 = [y EXCEPT !.kids = s]
  OBVIOUS
<1>19. Like(new2, y, s, y.parent, y.refs, y.live)
  BY <1>5, <1>18, OtherKids
<1>20. PICK b : b = [a EXCEPT ![p].kids[i] = u]
  OBVIOUS
<1>21. Altered(a, b, p, new2)
  <2>1. b = [a EXCEPT ![p] = new2]
    BY <1>1, <1>3, <1>16, <1>17, <1>18, <1>20
  <2> QED
    BY <1>16, <1>19, <2>1, OneChanged DEF Like
<1>22. IsHeap(b) /\ Len(b) = Len(h) /\ Nodes(b) = Nodes(h)
  BY <1>16, <1>21 DEF Altered
<1>23. b[u] = new
  BY <1>15, <1>16, <1>21 DEF Altered
<1>24. PICK new3 : new3 = [new EXCEPT !.parent = p]
  OBVIOUS
<1>25. Like(new3, new, new.kids, p, new.refs, new.live)
  BY <1>2, <1>14, <1>24, OtherParent DEF Like
<1>26. Altered(b, g, u, new3)
  <2>1. g = [b EXCEPT ![u] = new3]
    BY <1>10, <1>20, <1>23, <1>24
  <2> QED
    BY <1>22, <1>25, <2>1, OneChanged DEF Like
<1>27. IsHeap(g) /\ Len(g) = Len(h) /\ Nodes(g) = Nodes(h)
  BY <1>22, <1>26 DEF Altered
<1>28. \A m \in Nodes(h) :
         /\ m # u => a[m] = h[m]
         /\ m # p => b[m] = a[m]
         /\ m # u => g[m] = b[m]
  BY <1>15, <1>16, <1>21, <1>22, <1>26 DEF Altered
<1>29. a[u] = new /\ b[p] = new2 /\ g[u] = new3
  BY <1>15, <1>21, <1>26 DEF Altered
<1>30. /\ g[p].class = h[p].class /\ g[p].tag = h[p].tag /\ g[p].live = h[p].live
       /\ g[p].refs = h[p].refs /\ g[p].parent = h[p].parent /\ g[p].kids = s
  BY <1>17, <1>19, <1>28, <1>29 DEF Like
<1>31. /\ g[u].class = h[u].class /\ g[u].tag = h[u].tag /\ g[u].live = h[u].live
       /\ g[u].refs = h[u].refs + 1 /\ g[u].parent = p /\ g[u].kids = h[u].kids
  BY <1>11, <1>14, <1>25, <1>29 DEF Like
<1>32. ASSUME NEW m \in Nodes(h)
       PROVE  /\ g[m].class = h[m].class /\ g[m].tag = h[m].tag /\ g[m].live = h[m].live
              /\ m # p => g[m].kids = h[m].kids
              /\ g[m].refs = h[m].refs + (IF m \in {u} THEN 1 ELSE 0)
              /\ g[m].parent = IF m = u THEN p ELSE h[m].parent
  <2>1. h[m].refs \in Nat
    BY HeapFacts
  <2>2. CASE m = p
    BY <1>30, <2>1, <2>2
  <2>3. CASE m = u
    BY <1>31, <2>1, <2>3
  <2>4. CASE m # p /\ m # u
    <3>1. g[m] = h[m]
      BY <1>28, <2>4
    <3> QED
      BY <2>1, <2>4, <3>1
  <2> QED
    BY <2>2, <2>3, <2>4
<1>33. Entries(g[p].kids) \ {NULL} = (Children(h, p) \ {op}) \cup {u} /\ Distinct(g[p].kids)
  BY <1>2, <1>4, <1>30 DEF OtherEntry
<1>34. Linked(h, g, p, u, {op})
  BY <1>27, <1>32, <1>33 DEF Linked
<1>35. /\ Len(g[p].kids) = Len(h[p].kids) /\ g[p].kids[i] = u /\ DOMAIN g[p].kids = DOMAIN h[p].kids
       /\ \A j \in Slots(h, p) : j # i => g[p].kids[j] = h[p].kids[j]
  <2>1. Len(s) = Len(k) /\ s[i] = u /\ \A j \in DOMAIN k : j # i => s[j] = k[j]
    BY <1>4 DEF OtherEntry
  <2>2. DOMAIN s = DOMAIN k
    BY <1>5, <2>1
  <2> QED
    BY <1>1, <1>2, <1>30, <2>1, <2>2
<1> QED
  BY <1>9, <1>34, <1>35 DEF SwapsAt

\* A binary operator has two operands.
LEMMA Operands ==
  ASSUME NEW h, IsHeap(h), Whole(h), Acyclic(h), NEW op \in Live(h), Fits(h, op),
         h[op].class = "BinaryOp"
  PROVE  /\ h[op].kids[1] \in Live(h) /\ h[op].kids[2] \in Live(h)
         /\ h[op].kids[1] # NULL /\ h[op].kids[2] # NULL
         /\ h[op].kids[1] # op /\ h[op].kids[1] # h[op].kids[2]
         /\ Children(h, op) = {h[op].kids[1], h[op].kids[2]}
         /\ h[h[op].kids[1]].class \in Expression /\ Slots(h, op) = {1, 2}
<1>1. PICK k \in Seq(Nat) : k = h[op].kids
  BY HeapFacts DEF Live
<1>2. ~IsList("BinaryOp") /\ Len(Class["BinaryOp"].slots) = 2
      /\ Accepts("BinaryOp", 1) = Required(Expression) /\ Accepts("BinaryOp", 2) = Required(Expression)
  BY WhatTheyAccept
<1>3. Len(k) = 2
  BY <1>1, <1>2 DEF Fits
<1>4. DOMAIN k = {1, 2}
  BY <1>3
<1>5. Slots(h, op) = {1, 2}
  BY <1>1, <1>4 DEF Slots
<1>6. \A i \in {1, 2} : IF k[i] = NULL THEN Accepts("BinaryOp", i).optional
                        ELSE Permits("BinaryOp", i, h[k[i]].class)
  BY <1>1, <1>5 DEF Fits
<1>7. k[1] # NULL /\ k[2] # NULL /\ h[k[1]].class \in Expression
  BY <1>2, <1>6 DEF Permits, Required
<1>8. Children(h, op) = {k[1], k[2]}
  BY <1>1, <1>5, <1>7 DEF Children
<1>9. Children(h, op) \subseteq Live(h) /\ Distinct(k)
  BY <1>1 DEF Whole
<1>10. k[1] # k[2]
  BY <1>4, <1>7, <1>9 DEF Distinct
<1>11. op \notin Children(h, op)
  <2>1. {op} \in SUBSET Live(h) /\ {op} # {}
    OBVIOUS
  <2>2. \E m \in {op} : \A o \in {op} : m \notin Children(h, o)
    BY <2>1 DEF Acyclic
  <2> QED
    BY <2>2
<1> QED
  BY <1>1, <1>5, <1>7, <1>8, <1>9, <1>10, <1>11

\* What the swap of an operator does.
Swapped(h, g, p, op, u, kid) ==
  /\ u \notin Nodes(h) /\ Nodes(g) = Nodes(h) \cup {u} /\ Live(g) = Live(h) \cup {u}
  /\ \A n \in Nodes(h) :
       /\ g[n].class = h[n].class /\ g[n].tag = h[n].tag
       /\ g[n].parent = IF n = kid THEN u ELSE h[n].parent
       /\ n # p => Children(g, n) = Children(h, n)
  /\ Children(g, p) = (Children(h, p) \ {op}) \cup {u}
  /\ Children(g, u) = {kid} /\ g[u].parent = p

\* The same, slot by slot.
SwappedKids(h, g, p, op, u, kid) ==
  /\ g[u].class = "UnaryOp" /\ g[u].tag = "not" /\ g[u].kids = <<kid>>
  /\ \A n \in Nodes(h) : n # p => g[n].kids = h[n].kids
  /\ g[p].kids = [j \in DOMAIN h[p].kids |-> IF h[p].kids[j] = op THEN u ELSE h[p].kids[j]]

\* The tree without an operator that is swapped and the operand it discards.
LEMMA SwapInTree ==
  ASSUME NEW h, NEW R, NEW c, Graph(h, R, c), NEW T, Forest(h, T, R, {}),
         NEW op \in T, NEW p, h[op].parent = p, p \in Live(h), op \in Children(h, p),
         NEW kid, NEW disc, Children(h, op) = {kid, disc}, kid # disc, disc # NULL, kid # op,
         NEW g, NEW u, Swapped(h, g, p, op, u, kid)
  PROVE  Forest(g, (T \ ({op} \cup Below(h, disc))) \cup {u}, R, {})
<1>1. /\ IsHeap(h) /\ Whole(h) /\ Acyclic(h) /\ Live(h) \subseteq Nodes(h) /\ R \subseteq Live(h)
      /\ T \subseteq Live(h)
  BY HeapFacts DEF Graph, Forest
<1>2. /\ R \subseteq T /\ \A o \in T : Children(h, o) \subseteq T
      /\ \A m \in T : m \in R \/ \E o \in T : m \in Children(h, o)
      /\ \A o \in T : \A m \in Children(h, o) : h[m].parent = o
  BY DEF Forest
<1>3. op \notin R /\ disc \notin R
  BY <1>1, <1>2, RootHasNoOwner
<1>4. p \in T
  BY <1>2, <1>3
<1>5. disc \in T /\ kid \in T /\ h[disc].parent = op /\ h[kid].parent = op
  BY <1>2
<1>6. PICK B : B = Below(h, disc)
  OBVIOUS
<1>7. /\ disc \in B /\ B \subseteq T /\ Closed(h, B)
      /\ \A o \in T \ B : \A m \in Children(h, o) : m \in B => m = disc
  BY <1>5, <1>6, Prune
<1>8. op \notin B
  <2>1. SUFFICES ASSUME op \in B PROVE FALSE
    OBVIOUS
  <2>2. \A m \in B : \E o \in B : m \in Children(h, o)
    <3>1. \A m \in B : m # disc => \E o \in B : m \in Children(h, o)
      BY <1>1, <1>5, <1>6, BelowOwned
    <3> QED
      BY <2>1, <3>1
  <2>3. B \in SUBSET Live(h) /\ B # {}
    BY <1>1, <1>7
  <2> QED
    BY <1>1, <2>2, <2>3 DEF Acyclic
<1>9. kid \notin B
  BY <1>7, <1>8
<1>10. p # op
  <2>1. {op} \in SUBSET Live(h) /\ {op} # {}
    BY <1>1
  <2>2. \E m \in {op} : \A o \in {op} : m \notin Children(h, o)
    BY <1>1, <2>1 DEF Acyclic
  <2> QED
    BY <2>2
<1>11. p \notin B
  BY <1>7, <1>8 DEF Closed
<1>12. PICK X : X = T \ ({op} \cup B)
  OBVIOUS
<1>13. p \in X /\ kid \in X /\ u \notin T /\ R \subseteq X
  <2>1. u \notin T
    BY <1>1 DEF Swapped
  <2>2. R \cap B = {}
    <3>1. \A r \in R : r \in B => r = disc
      BY <1>5, <1>6, Prune
    <3> QED
      BY <1>3, <3>1
  <2> QED
    BY <1>2, <1>3, <1>4, <1>5, <1>9, <1>10, <1>11, <1>12, <2>1, <2>2
<1>14. /\ Live(g) = Live(h) \cup {u}
       /\ \A o \in X : o # p => Children(g, o) = Children(h, o)
       /\ Children(g, p) = (Children(h, p) \ {op}) \cup {u}
       /\ Children(g, u) = {kid} /\ g[u].parent = p
       /\ \A m \in T : g[m].parent = IF m = kid THEN u ELSE h[m].parent
  <2>1. X \subseteq Nodes(h) /\ T \subseteq Nodes(h)
    BY <1>1, <1>12
  <2> QED
    BY <2>1 DEF Swapped
<1>15. ASSUME NEW o \in X, NEW m \in Children(h, o), m # op
       PROVE  m \in X /\ m # kid
  <2>1. o \in T /\ o # op /\ o \notin B
    BY <1>12
  <2>2. m \in T /\ h[m].parent = o
    BY <1>2, <2>1
  <2>3. m # kid /\ m # disc
    BY <1>5, <2>1, <2>2
  <2>4. m \notin B
    BY <1>7, <2>1, <2>3
  <2> QED
    BY <1>12, <1>15, <2>2, <2>3, <2>4
<1>16. ASSUME NEW o \in X, o # p
       PROVE  op \notin Children(h, o)
  BY <1>2, <1>12, <1>16
<1>17. PICK Y : Y = X \cup {u}
  OBVIOUS
<1>18. Y \subseteq Live(g) /\ R \subseteq Y
  BY <1>1, <1>12, <1>13, <1>14, <1>17
<1>19. ASSUME NEW o \in Y, NEW m \in Children(g, o)
       PROVE  m \in Y /\ g[m].parent = o
  <2>1. CASE o = u
    <3>1. m = kid
      BY <1>14, <1>19, <2>1
    <3> QED
      BY <1>5, <1>13, <1>14, <1>17, <2>1, <3>1
  <2>2. CASE o = p
    <3>1. CASE m = u
      BY <1>14, <1>17, <2>2, <3>1
    <3>2. CASE m # u
      <4>1. m \in Children(h, p) /\ m # op
        BY <1>14, <1>19, <2>2, <3>2
      <4>2. m \in X /\ m # kid
        BY <1>13, <1>15, <4>1
      <4>3. m \in T /\ h[m].parent = p
        BY <1>2, <1>4, <4>1
      <4> QED
        BY <1>14, <1>17, <2>2, <4>2, <4>3
    <3> QED
      BY <3>1, <3>2
  <2>3. CASE o # u /\ o # p
    <3>1. o \in X /\ m \in Children(h, o)
      BY <1>14, <1>17, <1>19, <2>3
    <3>2. m # op
      BY <1>16, <2>3, <3>1
    <3>3. m \in X /\ m # kid
      BY <1>15, <3>1, <3>2
    <3>4. m \in T /\ h[m].parent = o
      BY <1>2, <1>12, <3>1
    <3> QED
      BY <1>14, <1>17, <3>3, <3>4
  <2> QED
    BY <2>1, <2>2, <2>3
<1>20. ASSUME NEW m \in Y
       PROVE  m \in R \/ \E o \in Y : m \in Children(g, o)
  <2>1. CASE m = u
    BY <1>13, <1>14, <1>17, <2>1
  <2>2. CASE m = kid
    BY <1>14, <1>17, <2>2
  <2>3. CASE m # u /\ m # kid /\ m \notin R
    <3>1. m \in X /\ m \in T /\ m # op /\ m \notin B
      BY <1>12, <1>17, <2>3
    <3>2. PICK o \in T : m \in Children(h, o)
      BY <1>2, <2>3, <3>1
    <3>3. o # op
      BY <1>7, <2>3, <3>1, <3>2
    <3>4. o \notin B
      BY <1>7, <3>1, <3>2 DEF Closed
    <3>5. o \in X
      BY <1>12, <3>3, <3>4
    <3>6. m \in Children(g, o)
      BY <1>14, <3>1, <3>2, <3>5
    <3> QED
      BY <1>17, <3>5, <3>6
  <2> QED
    BY <2>1, <2>2, <2>3
<1>21. Forest(g, Y, R, {})
  BY <1>18, <1>19, <1>20 DEF Forest
<1> QED
  BY <1>6, <1>12, <1>17, <1>21

\* An operator in an operand that was discarded: the tree stays as it is.
LEMMA SwapBeside ==
  ASSUME NEW h, NEW R, NEW c, Graph(h, R, c), NEW T, Forest(h, T, R, {}),
         NEW op, op \in Live(h), op \notin T, NEW p, op \in Children(h, p),
         NEW kid, kid \in Children(h, op), h[kid].parent = op,
         NEW g, NEW u, Swapped(h, g, p, op, u, kid)
  PROVE  Forest(g, T, R, {})
<1>1. /\ IsHeap(h) /\ Live(h) \subseteq Nodes(h) /\ R \subseteq Live(h) /\ T \subseteq Live(h)
  BY HeapFacts DEF Graph, Forest
<1>2. /\ R \subseteq T /\ \A o \in T : Children(h, o) \subseteq T
      /\ \A m \in T : m \in R \/ \E o \in T : m \in Children(h, o)
      /\ \A o \in T : \A m \in Children(h, o) : h[m].parent = o
  BY DEF Forest
<1>3. p \notin T
  BY <1>2
<1>4. kid \notin T
  <2>1. kid \notin R
    BY <1>1, RootHasNoOwner
  <2> QED
    BY <1>2, <2>1
<1>5. /\ T \subseteq Live(g)
      /\ \A o \in T : Children(g, o) = Children(h, o) /\ g[o].parent = h[o].parent
  BY <1>1, <1>3, <1>4 DEF Swapped
<1> QED
  BY <1>2, <1>5 DEF Forest
=============================================================================
