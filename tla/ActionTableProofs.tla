-------------------------- MODULE ActionTableProofs --------------------------
(***************************************************************************)
(* Theorems about ActionTable, the passes of argdefgen over the actions of *)
(* a definition file, for every definition.                                *)
(*                                                                         *)
(* First what the operators of ActionGraph compute, for every graph of     *)
(* dependencies: Reached is the least set that holds the children and is   *)
(* closed under them, and Priorities, in a graph without a cycle, gives    *)
(* every action more than all that it leads to.  OdbCliProofs builds on    *)
(* this part too.  The recursive functions inside the operators are taken  *)
(* apart by Iterates; what they do is then shown by looking at the first   *)
(* step at which it would not be so (LeastOf).                             *)
(*                                                                         *)
(* Then the passes.  Making is the inductive invariant; its part Reducing  *)
(* says how far the lists have been reduced.                               *)
(***************************************************************************)
EXTENDS ActionTable, Integers, FiniteSetTheorems, SequenceTheorems, WellFoundedInduction, TLAPS

-----------------------------------------------------------------------------
(* Graphs of dependencies.                                                 *)

IsGraph(g) ==
  /\ IsFiniteSet(DOMAIN g)
  /\ \A a \in DOMAIN g : g[a] \in Seq(DOMAIN g)

-----------------------------------------------------------------------------
\* Every set of natural numbers that is not empty has a least element.
LEMMA LeastOf ==
  ASSUME NEW S \in SUBSET Nat, S # {}
  PROVE  \E x \in S : \A y \in S : x <= y
<1>1. IsWellFoundedOn(OpToRel(<, Nat), Nat)
  BY NatLessThanWellFounded, Zenon
<1>2. PICK x \in S : \A y \in S : ~(<<y, x>> \in OpToRel(<, Nat))
  BY <1>1, WFMin, Zenon
<1>3. \A y \in S : ~(y < x)
  BY <1>2, Zenon DEF OpToRel
<1> QED
  BY <1>3

\* A set of numbers that holds 0 and with every number the next holds them all.
LEMMA AllNumbers ==
  ASSUME NEW T, 0 \in T, \A n \in Nat : n \in T => n + 1 \in T
  PROVE  \A n \in Nat : n \in T
<1>1. SUFFICES ASSUME NEW m \in Nat, m \notin T
               PROVE  FALSE
  OBVIOUS
<1> DEFINE S == {n \in Nat : n \notin T}
<1>2. S \in SUBSET Nat /\ S # {}
  BY <1>1
<1>3. PICK x \in S : \A y \in S : x <= y
  BY <1>2, LeastOf, Zenon
<1>4. x \in Nat /\ x \notin T /\ x # 0
  BY <1>3
<1>5. x - 1 \in Nat /\ x = (x - 1) + 1 /\ ~(x <= x - 1)
  BY <1>4
<1>6. x - 1 \in T
  BY <1>3, <1>5
<1> QED
  BY <1>4, <1>5, <1>6

\* A set of natural numbers with a bound has a greatest element.
LEMMA GreatestOf ==
  ASSUME NEW S \in SUBSET Nat, S # {}, NEW B \in Nat, \A x \in S : x <= B
  PROVE  \E x \in S : \A y \in S : y <= x
<1> DEFINE T == {B - x : x \in S}
<1>1. T \in SUBSET Nat /\ T # {}
  <2>1. \A x \in S : B - x \in Nat
    OBVIOUS
  <2> QED
    BY <2>1
<1>2. PICK t \in T : \A y \in T : t <= y
  BY <1>1, LeastOf, Zenon
<1>3. PICK x \in S : t = B - x
  BY <1>2
<1>4. \A y \in S : B - x <= B - y
  BY <1>2, <1>3
<1> QED
  BY <1>4

LEMMA MaxOfIsGreatest ==
  ASSUME NEW S \in SUBSET Nat, S # {}, NEW B \in Nat, \A x \in S : x <= B
  PROVE  MaxOf(S) \in S /\ \A y \in S : y <= MaxOf(S)
<1>1. \E x \in S : \A y \in S : y <= x
  BY GreatestOf, Zenon
<1> QED
  BY <1>1 DEF MaxOf

\* A function applied over and over again, from some element on.
Chain(f, S, x, G, n) ==
  f \in [0 .. n -> S] /\ f[0] = x /\ \A i \in 0 .. n : i < n => f[i + 1] = G[f[i]]

LEMMA ChainsExist ==
  ASSUME NEW S, NEW x \in S, NEW G \in [S -> S]
  PROVE  \A n \in Nat : \E f : Chain(f, S, x, G, n)
<1> DEFINE T == {n \in Nat : \E f : Chain(f, S, x, G, n)}
<1>1. 0 \in T
  <2>1. Chain([i \in 0 .. 0 |-> x], S, x, G, 0)
    BY DEF Chain
  <2> QED
    BY <2>1
<1>2. ASSUME NEW n \in Nat, n \in T
      PROVE  n + 1 \in T
  <2>1. PICK f : Chain(f, S, x, G, n)
    BY <1>2
  <2>2. f \in [0 .. n -> S] /\ f[0] = x /\ \A i \in 0 .. n : i < n => f[i + 1] = G[f[i]]
    BY <2>1 DEF Chain
  <2> DEFINE h == [i \in 0 .. n + 1 |-> IF i <= n THEN f[i] ELSE G[f[n]]]
  <2>3. f[n] \in S /\ G[f[n]] \in S
    BY <2>2
  <2>4. h \in [0 .. n + 1 -> S]
    BY <2>2, <2>3
  <2>5. h[0] = x
    BY <2>2
  <2>6. ASSUME NEW i \in 0 .. n + 1, i < n + 1
        PROVE  h[i + 1] = G[h[i]]
    BY <2>2, <2>6
  <2>7. Chain(h, S, x, G, n + 1)
    BY <2>4, <2>5, <2>6 DEF Chain
  <2> QED
    BY <2>7
<1>3. \A n \in Nat : n \in T
  <2> HIDE DEF T
  <2> QED
    BY <1>1, <1>2, AllNumbers
<1> QED
  BY <1>3

LEMMA ChainsAgree ==
  ASSUME NEW S, NEW x \in S, NEW G \in [S -> S], NEW m \in Nat, NEW n \in Nat,
         NEW e, NEW f, Chain(e, S, x, G, m), Chain(f, S, x, G, n)
  PROVE  \A i \in Nat : i <= m /\ i <= n => e[i] = f[i]
<1> DEFINE T == {i \in Nat : i <= m /\ i <= n => e[i] = f[i]}
<1>1. 0 \in T
  BY DEF Chain
<1>2. ASSUME NEW i \in Nat, i \in T
      PROVE  i + 1 \in T
  <2>1. SUFFICES ASSUME i + 1 <= m, i + 1 <= n
                 PROVE  e[i + 1] = f[i + 1]
    OBVIOUS
  <2>2. e[i] = f[i]
    BY <1>2, <2>1
  <2>3. e[i + 1] = G[e[i]] /\ f[i + 1] = G[f[i]]
    BY <2>1 DEF Chain
  <2> QED
    BY <2>2, <2>3
<1>3. \A i \in Nat : i \in T
  <2> HIDE DEF T
  <2> QED
    BY <1>1, <1>2, AllNumbers
<1> QED
  BY <1>3

Iteration(f, S, x, G) ==
  f \in [Nat -> S] /\ f[0] = x /\ \A n \in Nat : f[n + 1] = G[f[n]]

LEMMA Iterates ==
  ASSUME NEW S, NEW x \in S, NEW G \in [S -> S]
  PROVE  \E f : Iteration(f, S, x, G)
<1> DEFINE chain(n) == CHOOSE f : Chain(f, S, x, G, n)
           f == [n \in Nat |-> chain(n)[n]]
<1>1. \A n \in Nat : Chain(chain(n), S, x, G, n)
  BY ChainsExist, Zenon
<1> HIDE DEF chain
<1>2. f \in [Nat -> S] /\ f[0] = x
  BY <1>1 DEF Chain
<1>3. ASSUME NEW n \in Nat
      PROVE  f[n + 1] = G[f[n]]
  <2>1. PICK c : c = chain(n) /\ Chain(c, S, x, G, n)
    BY <1>1
  <2>2. PICK d : d = chain(n + 1) /\ Chain(d, S, x, G, n + 1)
    BY <1>1
  <2>3. c[n] = d[n]
    BY <2>1, <2>2, ChainsAgree
  <2>4. d[n + 1] = G[d[n]]
    BY <2>2 DEF Chain
  <2> QED
    BY <2>1, <2>2, <2>3, <2>4
<1>4. Iteration(f, S, x, G)
  <2> HIDE DEF f
  <2> QED
    BY <1>2, <1>3 DEF Iteration
<1> QED
  BY <1>4
-----------------------------------------------------------------------------
\* What is reached in n + 1 steps, from what is reached in n.
Wider(g) == [s \in SUBSET DOMAIN g |-> s \cup UNION {Children(g, b) : b \in s}]

LEMMA ChildrenAreActions ==
  ASSUME NEW g, IsGraph(g), NEW a \in DOMAIN g
  PROVE  Children(g, a) \subseteq DOMAIN g
BY DEF Children, IsGraph

\* The function inside Reached, unfolded.
LEMMA ReachedBySteps ==
  ASSUME NEW g, IsGraph(g), NEW a \in DOMAIN g
  PROVE  \E reach \in [Nat -> SUBSET DOMAIN g] :
           /\ reach[0] = Children(g, a)
           /\ \A n \in Nat : reach[n + 1] = Wider(g)[reach[n]]
           /\ Reached(g)[a] = reach[Cardinality(DOMAIN g)]
<1> DEFINE reach[n \in Nat] ==
             IF n = 0 THEN Children(g, a)
             ELSE LET shorter == reach[n - 1] IN shorter \cup UNION {Children(g, b) : b \in shorter}
<1>1. Wider(g) \in [SUBSET DOMAIN g -> SUBSET DOMAIN g]
  BY ChildrenAreActions DEF Wider
<1>2. Children(g, a) \in SUBSET DOMAIN g
  BY ChildrenAreActions
<1>3. PICK f \in [Nat -> SUBSET DOMAIN g] :
        f[0] = Children(g, a) /\ \A n \in Nat : f[n + 1] = Wider(g)[f[n]]
  <2>1. PICK S, x, G : S = SUBSET DOMAIN g /\ x = Children(g, a) /\ G = Wider(g)
    OBVIOUS
  <2>2. x \in S /\ G \in [S -> S]
    BY <1>1, <1>2, <2>1, Zenon
  <2>3. PICK f : Iteration(f, S, x, G)
    BY <2>2, Iterates, Zenon
  <2> QED
    BY <2>1, <2>3, Zenon DEF Iteration
<1>4. \A n \in Nat : f[n] = IF n = 0 THEN Children(g, a)
                            ELSE LET shorter == f[n - 1]
                                 IN shorter \cup UNION {Children(g, b) : b \in shorter}
  <2>1. SUFFICES ASSUME NEW n \in Nat, n # 0
                 PROVE  f[n] = f[n - 1] \cup UNION {Children(g, b) : b \in f[n - 1]}
    BY <1>3
  <2>2. n - 1 \in Nat /\ n = (n - 1) + 1
    BY <2>1
  <2>3. f[n] = Wider(g)[f[n - 1]] /\ f[n - 1] \in SUBSET DOMAIN g
    BY <1>3, <2>2
  <2> QED
    BY <2>3 DEF Wider
<1>5. f = [n \in Nat |-> IF n = 0 THEN Children(g, a)
                         ELSE LET shorter == f[n - 1]
                              IN shorter \cup UNION {Children(g, b) : b \in shorter}]
  BY <1>4
<1>6. reach = [n \in Nat |-> IF n = 0 THEN Children(g, a)
                         ELSE LET shorter == reach[n - 1]
                              IN shorter \cup UNION {Children(g, b) : b \in shorter}]
  BY <1>5
<1>7. Reached(g)[a] = reach[Cardinality(DOMAIN g)]
  BY DEF Reached
<1> HIDE DEF reach
<1>8. reach[0] = Children(g, a)
  BY <1>6
<1>9. \A n \in Nat : reach[n + 1] = reach[n] \cup UNION {Children(g, b) : b \in reach[n]}
  <2>1. SUFFICES ASSUME NEW n \in Nat
                 PROVE  reach[n + 1] = reach[n] \cup UNION {Children(g, b) : b \in reach[n]}
    OBVIOUS
  <2>2. PICK m \in Nat : m = n + 1 /\ m # 0 /\ m - 1 = n
    OBVIOUS
  <2>3. reach[m] = reach[m - 1] \cup UNION {Children(g, b) : b \in reach[m - 1]}
    BY <1>6, <2>2
  <2> QED
    BY <2>2, <2>3
<1>10. ASSUME NEW n \in Nat, reach[n] \in SUBSET DOMAIN g
       PROVE  reach[n + 1] = Wider(g)[reach[n]] /\ reach[n + 1] \in SUBSET DOMAIN g
  BY <1>1, <1>9, <1>10 DEF Wider
<1>11. \A n \in Nat : reach[n] \in SUBSET DOMAIN g
  <2> DEFINE T == {n \in Nat : reach[n] \in SUBSET DOMAIN g}
  <2>1. 0 \in T
    BY <1>2, <1>8
  <2>2. \A n \in Nat : n \in T => n + 1 \in T
    BY <1>10
  <2>3. \A n \in Nat : n \in T
    <3> HIDE DEF T
    <3> QED
      BY <2>1, <2>2, AllNumbers
  <2> QED
    BY <2>3
<1>12. reach \in [Nat -> SUBSET DOMAIN g]
  BY <1>6, <1>11
<1> QED
  BY <1>7, <1>8, <1>10, <1>11, <1>12

LEMMA WiderIsMore ==
  ASSUME NEW g, NEW s \in SUBSET DOMAIN g
  PROVE  s \subseteq Wider(g)[s]
BY DEF Wider

\* A chain of ever larger parts of a finite set comes to an end within as many
\* steps as the set has elements.
LEMMA GrowthEnds ==
  ASSUME NEW D, IsFiniteSet(D), NEW f \in [Nat -> SUBSET D], NEW G \in [SUBSET D -> SUBSET D],
         \A n \in Nat : f[n + 1] = G[f[n]] /\ f[n] \subseteq f[n + 1]
  PROVE  f[Cardinality(D) + 1] = f[Cardinality(D)]
<1>1. PICK N \in Nat : N = Cardinality(D)
  BY FS_CardinalityType
<1>2. \A n \in Nat : IsFiniteSet(f[n]) /\ Cardinality(f[n]) \in Nat /\ Cardinality(f[n]) <= N
  BY <1>1, FS_Subset, FS_CardinalityType
<1>3. PICK c \in [Nat -> Nat] : \A n \in Nat : c[n] = Cardinality(f[n])
  <2> DEFINE c == [n \in Nat |-> Cardinality(f[n])]
  <2>1. c \in [Nat -> Nat] /\ \A n \in Nat : c[n] = Cardinality(f[n])
    BY <1>2
  <2> QED
    BY <2>1
<1>4. \A n \in Nat : f[n + 1] # f[n] => c[n] < c[n + 1]
  <2>1. SUFFICES ASSUME NEW n \in Nat, f[n + 1] # f[n]
                 PROVE  Cardinality(f[n]) < Cardinality(f[n + 1])
    BY <1>3
  <2>2. PICK a, b : a = f[n] /\ b = f[n + 1]
    OBVIOUS
  <2>3. IsFiniteSet(b) /\ a \in SUBSET b /\ a # b
    BY <1>2, <2>1, <2>2
  <2>4. Cardinality(a) < Cardinality(b)
    <3>1. Cardinality(a) <= Cardinality(b) /\ (Cardinality(b) = Cardinality(a) => b = a)
      BY <2>3, FS_Subset
    <3>2. PICK m, n1 \in Nat : m = Cardinality(a) /\ n1 = Cardinality(b)
      BY <1>2, <2>2
    <3>3. m <= n1 /\ m # n1
      BY <2>3, <3>1, <3>2, Zenon
    <3>4. m < n1
      BY <3>3
    <3> QED
      BY <3>2, <3>4
  <2> QED
    BY <2>2, <2>4
<1>5. SUFFICES ASSUME f[N + 1] # f[N]
               PROVE  FALSE
  BY <1>1
\* Going backwards, no two neighbours are equal.
<1>6. \A n \in Nat : n <= N => f[n + 1] # f[n]
  <2> DEFINE T == {n \in Nat : n <= N => f[N - n + 1] # f[N - n]}
  <2>1. 0 \in T
    BY <1>5
  <2>2. ASSUME NEW n \in Nat, n \in T
        PROVE  n + 1 \in T
    <3>1. SUFFICES ASSUME n + 1 <= N
                   PROVE  f[N - (n + 1) + 1] # f[N - (n + 1)]
      OBVIOUS
    <3>2. PICK k \in Nat : k = N - (n + 1) /\ k + 1 = N - n
      BY <3>1
    <3>3. f[k + 1 + 1] # f[k + 1]
      BY <2>2, <3>1, <3>2
    <3>4. f[k + 1] = G[f[k]] /\ f[k + 1 + 1] = G[f[k + 1]]
      BY <3>2
    <3> QED
      BY <3>2, <3>3, <3>4
  <2>3. \A n \in Nat : n \in T
    <3> HIDE DEF T
    <3> QED
      BY <2>1, <2>2, AllNumbers
  <2>4. SUFFICES ASSUME NEW n \in Nat, n <= N
                 PROVE  f[n + 1] # f[n]
    OBVIOUS
  <2>5. PICK m \in Nat : m = N - n /\ m <= N /\ N - m = n
    BY <2>4
  <2> QED
    BY <2>3, <2>5
<1>7. \A n \in Nat : n <= N + 1 => n <= c[n]
  <2> DEFINE T == {n \in Nat : n <= N + 1 => n <= c[n]}
  <2>1. 0 \in T
    BY <1>3
  <2>2. ASSUME NEW n \in Nat, n \in T
        PROVE  n + 1 \in T
    <3>1. SUFFICES ASSUME n + 1 <= N + 1
                   PROVE  n + 1 <= c[n + 1]
      OBVIOUS
    <3>2. n <= N /\ n <= c[n]
      BY <2>2, <3>1
    <3>3. c[n] < c[n + 1]
      BY <1>4, <1>6, <3>2
    <3> QED
      BY <3>2, <3>3, <1>3
  <2>3. \A n \in Nat : n \in T
    <3> HIDE DEF T
    <3> QED
      BY <2>1, <2>2, AllNumbers
  <2> QED
    BY <2>3
<1>8. N + 1 <= c[N + 1]
  BY <1>7
<1> QED
  BY <1>2, <1>3, <1>8

\* Reached holds the children, and the children of all that it holds.
LEMMA ReachedIsClosed ==
  ASSUME NEW g, IsGraph(g), NEW a \in DOMAIN g
  PROVE  /\ Reached(g)[a] \subseteq DOMAIN g
         /\ Children(g, a) \subseteq Reached(g)[a]
         /\ \A b \in Reached(g)[a] : Children(g, b) \subseteq Reached(g)[a]
<1>1. PICK reach \in [Nat -> SUBSET DOMAIN g] :
        /\ reach[0] = Children(g, a)
        /\ \A n \in Nat : reach[n + 1] = Wider(g)[reach[n]]
        /\ Reached(g)[a] = reach[Cardinality(DOMAIN g)]
  BY ReachedBySteps
<1>2. PICK N \in Nat : N = Cardinality(DOMAIN g)
  BY FS_CardinalityType DEF IsGraph
<1>3. Wider(g) \in [SUBSET DOMAIN g -> SUBSET DOMAIN g]
  BY ChildrenAreActions DEF Wider
<1>4. \A n \in Nat : reach[n] \subseteq reach[n + 1]
  BY <1>1, WiderIsMore
<1>5. reach[N + 1] = reach[N]
  <2>1. PICK D, G : D = DOMAIN g /\ G = Wider(g)
    OBVIOUS
  <2>2. IsFiniteSet(D) /\ reach \in [Nat -> SUBSET D] /\ G \in [SUBSET D -> SUBSET D]
    BY <1>3, <2>1 DEF IsGraph
  <2>3. \A n \in Nat : reach[n + 1] = G[reach[n]] /\ reach[n] \subseteq reach[n + 1]
    BY <1>1, <1>4, <2>1
  <2>4. reach[Cardinality(D) + 1] = reach[Cardinality(D)]
    BY <2>2, <2>3, GrowthEnds
  <2> QED
    BY <1>2, <2>1, <2>4
<1>6. \A b \in reach[N] : Children(g, b) \subseteq reach[N]
  <2>1. reach[N] \in SUBSET DOMAIN g /\ reach[N] = Wider(g)[reach[N]]
    BY <1>1, <1>5
  <2> QED
    BY <2>1 DEF Wider
<1>7. Children(g, a) \subseteq reach[N]
  <2> DEFINE T == {n \in Nat : Children(g, a) \subseteq reach[n]}
  <2>1. 0 \in T
    BY <1>1
  <2>2. \A n \in Nat : n \in T => n + 1 \in T
    BY <1>4
  <2>3. \A n \in Nat : n \in T
    <3> HIDE DEF T
    <3> QED
      BY <2>1, <2>2, AllNumbers
  <2> QED
    BY <2>3
<1> QED
  BY <1>1, <1>2, <1>6, <1>7

\* It is the least such set.
THEOREM ReachedIsLeast ==
  ASSUME NEW g, IsGraph(g), NEW a \in DOMAIN g, NEW X,
         Children(g, a) \subseteq X,
         \A b \in X : b \in DOMAIN g => Children(g, b) \subseteq X
  PROVE  Reached(g)[a] \subseteq X
<1>1. PICK reach \in [Nat -> SUBSET DOMAIN g] :
        /\ reach[0] = Children(g, a)
        /\ \A n \in Nat : reach[n + 1] = Wider(g)[reach[n]]
        /\ Reached(g)[a] = reach[Cardinality(DOMAIN g)]
  BY ReachedBySteps
<1> DEFINE T == {n \in Nat : reach[n] \subseteq X}
<1>2. 0 \in T
  BY <1>1
<1>3. ASSUME NEW n \in Nat, n \in T
      PROVE  n + 1 \in T
  <2>1. reach[n + 1] = reach[n] \cup UNION {Children(g, b) : b \in reach[n]}
    BY <1>1 DEF Wider
  <2>2. \A b \in reach[n] : Children(g, b) \subseteq X
    BY <1>1, <1>3
  <2>3. reach[n + 1] \subseteq X
    BY <1>3, <2>1, <2>2
  <2> QED
    BY <2>3
<1>4. \A n \in Nat : n \in T
  <2> HIDE DEF T
  <2> QED
    BY <1>2, <1>3, AllNumbers
<1>5. Cardinality(DOMAIN g) \in Nat
  BY FS_CardinalityType DEF IsGraph
<1> QED
  BY <1>1, <1>4, <1>5

LEMMA ReachedIsTransitive ==
  ASSUME NEW g, IsGraph(g), NEW a \in DOMAIN g, NEW b \in Reached(g)[a]
  PROVE  Reached(g)[b] \subseteq Reached(g)[a]
<1>1. b \in DOMAIN g
  BY ReachedIsClosed
<1>2. PICK X : X = Reached(g)[a]
  OBVIOUS
<1>3. Children(g, b) \subseteq X /\ \A c \in X : Children(g, c) \subseteq X
  BY <1>2, ReachedIsClosed
<1>4. Reached(g)[b] \subseteq X
  BY <1>1, <1>3, ReachedIsLeast
<1> QED
  BY <1>2, <1>4

\* In a graph with more dependencies more is reached.
LEMMA ReachedIsMonotone ==
  ASSUME NEW g, IsGraph(g), NEW h, IsGraph(h), DOMAIN g = DOMAIN h,
         \A a \in DOMAIN g : Children(g, a) \subseteq Children(h, a),
         NEW a \in DOMAIN g
  PROVE  Reached(g)[a] \subseteq Reached(h)[a]
<1>1. PICK X : X = Reached(h)[a]
  OBVIOUS
<1>2. Children(h, a) \subseteq X /\ \A c \in X : Children(h, c) \subseteq X
  BY <1>1, ReachedIsClosed
<1>3. Children(g, a) \subseteq X /\ \A c \in X : c \in DOMAIN g => Children(g, c) \subseteq X
  BY <1>2
<1>4. Reached(g)[a] \subseteq X
  BY <1>3, ReachedIsLeast
<1> QED
  BY <1>1, <1>4

-----------------------------------------------------------------------------
\* What assign_priorities makes of a guess of the priorities.
Deeper(g) == [s \in [DOMAIN g -> Nat] |-> [a \in DOMAIN g |-> Above(g, s, a)]]

LEMMA GreatestOfList ==
  ASSUME NEW L \in Nat, NEW f \in [1 .. L + 1 -> Nat]
  PROVE  \E k \in 1 .. L + 1 : \A j \in 1 .. L + 1 : f[j] <= f[k]
<1> DEFINE T == {n \in Nat : n <= L => \E k \in 1 .. n + 1 : \A j \in 1 .. n + 1 : f[j] <= f[k]}
<1>1. 0 \in T
  OBVIOUS
<1>2. ASSUME NEW n \in Nat, n \in T
      PROVE  n + 1 \in T
  <2>1. SUFFICES ASSUME n + 1 <= L
                 PROVE  \E k \in 1 .. n + 1 + 1 : \A j \in 1 .. n + 1 + 1 : f[j] <= f[k]
    OBVIOUS
  <2>2. PICK k \in 1 .. n + 1 : \A j \in 1 .. n + 1 : f[j] <= f[k]
    BY <1>2, <2>1
  <2>3. PICK m \in 1 .. L + 1 : m = n + 1 + 1 /\ (\A j \in 1 .. m : j \in 1 .. n + 1 \/ j = m) /\ k \in 1 .. m /\ m \in 1 .. m
                                 /\ \A j \in 1 .. m : j \in 1 .. L + 1
    BY <2>1
  <2>4. \A j \in 1 .. m : f[j] \in Nat
    BY <2>3
  <2>5. CASE f[m] <= f[k]
    BY <2>2, <2>3, <2>5
  <2>6. CASE ~(f[m] <= f[k])
    BY <2>2, <2>3, <2>4, <2>6
  <2> QED
    BY <2>5, <2>6
<1>3. \A n \in Nat : n \in T
  <2> HIDE DEF T
  <2> QED
    BY <1>1, <1>2, AllNumbers
<1>4. L \in T
  BY <1>3
<1> QED
  BY <1>4

\* The greatest of the children.
IsGreatest(m, these, s) ==
  m \in {s[b] : b \in these} /\ m \in Nat /\ \A b \in these : s[b] <= m

LEMMA MaxOfChildren ==
  ASSUME NEW g, IsGraph(g), NEW a \in DOMAIN g, g[a] # <<>>, NEW s \in [DOMAIN g -> Nat]
  PROVE  IsGreatest(MaxOf({s[b] : b \in Children(g, a)}), Children(g, a), s)
<1>1. g[a] \in Seq(DOMAIN g) /\ Len(g[a]) \in Nat /\ DOMAIN g[a] = 1 .. Len(g[a])
  BY DEF IsGraph
<1>2. PICK L \in Nat : Len(g[a]) = L + 1
  <2>1. Len(g[a]) # 0
    BY <1>1
  <2>2. Len(g[a]) - 1 \in Nat /\ Len(g[a]) = (Len(g[a]) - 1) + 1
    BY <1>1, <2>1
  <2> QED
    BY <2>2
<1>3. PICK f : f = [k \in 1 .. L + 1 |-> s[g[a][k]]]
  OBVIOUS
<1>4. f \in [1 .. L + 1 -> Nat]
  BY <1>1, <1>2, <1>3
<1>5. PICK k \in 1 .. L + 1 : \A j \in 1 .. L + 1 : f[j] <= f[k]
  BY <1>4, GreatestOfList
<1>6. PICK of : of = {s[b] : b \in Children(g, a)}
  OBVIOUS
<1>7. of \in SUBSET Nat
  BY <1>6, ChildrenAreActions
<1>8. f[k] \in of
  BY <1>1, <1>2, <1>3, <1>6 DEF Children
<1>9. \A x \in of : x <= f[k]
  <2>1. SUFFICES ASSUME NEW x \in of
                 PROVE  x <= f[k]
    OBVIOUS
  <2>2. PICK j \in 1 .. L + 1 : x = s[g[a][j]]
    BY <1>1, <1>2, <1>6 DEF Children
  <2> QED
    BY <1>3, <1>5, <2>2
<1>10. f[k] \in Nat
  BY <1>4
<1>11. MaxOf(of) \in of /\ \A y \in of : y <= MaxOf(of)
  BY <1>7, <1>8, <1>9, <1>10, MaxOfIsGreatest
<1> QED
  BY <1>6, <1>7, <1>11 DEF IsGreatest

LEMMA DeeperIsPriority ==
  ASSUME NEW g, IsGraph(g)
  PROVE  Deeper(g) \in [[DOMAIN g -> Nat] -> [DOMAIN g -> Nat]]
<1>1. SUFFICES ASSUME NEW s \in [DOMAIN g -> Nat], NEW a \in DOMAIN g
               PROVE  Above(g, s, a) \in Nat
  BY DEF Deeper
<1>2. g[a] # <<>> => MaxOf({s[b] : b \in Children(g, a)}) \in Nat
  BY MaxOfChildren DEF IsGreatest
<1> QED
  BY <1>2 DEF Above

\* A sequence of ever deeper guesses.
Guesses(g, depth) ==
  /\ depth \in [Nat -> [DOMAIN g -> Nat]]
  /\ \A n \in Nat : \A a \in DOMAIN g : depth[n + 1][a] = Above(g, depth[n], a)
  /\ \A a \in DOMAIN g : g[a] = <<>> => depth[0][a] = 0

\* The function inside Priorities, unfolded.
LEMMA PrioritiesBySteps ==
  ASSUME NEW g, IsGraph(g)
  PROVE  \E depth :
           /\ Guesses(g, depth)
           /\ Priorities(g) = [a \in DOMAIN g |-> IF a \in Visited(g) THEN depth[Cardinality(DOMAIN g)][a] ELSE 0]
<1> DEFINE depth[n \in Nat] ==
             LET smaller == IF n = 0 THEN [a \in DOMAIN g |-> 0] ELSE depth[n - 1]
             IN [a \in DOMAIN g |-> Above(g, smaller, a)]
           none == [a \in DOMAIN g |-> 0]
<1>1. Deeper(g) \in [[DOMAIN g -> Nat] -> [DOMAIN g -> Nat]]
  BY DeeperIsPriority
<1>2. none \in [DOMAIN g -> Nat] /\ Deeper(g)[none] \in [DOMAIN g -> Nat]
  BY <1>1
<1>3. PICK f \in [Nat -> [DOMAIN g -> Nat]] :
        f[0] = Deeper(g)[none] /\ \A n \in Nat : f[n + 1] = Deeper(g)[f[n]]
  <2>1. PICK S, x, G : S = [DOMAIN g -> Nat] /\ x = Deeper(g)[none] /\ G = Deeper(g)
    OBVIOUS
  <2>2. x \in S /\ G \in [S -> S]
    BY <1>1, <1>2, <2>1, Zenon
  <2>3. PICK f : Iteration(f, S, x, G)
    BY <2>2, Iterates, Zenon
  <2> QED
    BY <2>1, <2>3, Zenon DEF Iteration
<1>4. \A n \in Nat : f[n] = LET smaller == IF n = 0 THEN [a \in DOMAIN g |-> 0] ELSE f[n - 1]
             IN [a \in DOMAIN g |-> Above(g, smaller, a)]
  <2>1. ASSUME NEW n \in Nat, n # 0
        PROVE  f[n] = Deeper(g)[f[n - 1]] /\ f[n - 1] \in [DOMAIN g -> Nat]
    <3>1. n - 1 \in Nat /\ n = (n - 1) + 1
      BY <2>1
    <3> QED
      BY <1>3, <3>1
  <2> QED
    BY <1>2, <1>3, <2>1 DEF Deeper
<1>5. f = [n \in Nat |->
             LET smaller == IF n = 0 THEN [a \in DOMAIN g |-> 0] ELSE f[n - 1]
             IN [a \in DOMAIN g |-> Above(g, smaller, a)]]
  BY <1>3, <1>4
<1>6. depth = [n \in Nat |->
             LET smaller == IF n = 0 THEN [a \in DOMAIN g |-> 0] ELSE depth[n - 1]
             IN [a \in DOMAIN g |-> Above(g, smaller, a)]]
  BY <1>5
<1>7. Priorities(g) = [a \in DOMAIN g |-> IF a \in Visited(g) THEN depth[Cardinality(DOMAIN g)][a] ELSE 0]
  BY DEF Priorities
<1> HIDE DEF depth
<1>8. depth[0] = Deeper(g)[none]
  <2>1. depth[0] = [a \in DOMAIN g |-> Above(g, none, a)]
    BY <1>6
  <2> QED
    BY <1>2, <2>1 DEF Deeper
<1>9. ASSUME NEW n \in Nat, depth[n] \in [DOMAIN g -> Nat]
      PROVE  depth[n + 1] = Deeper(g)[depth[n]] /\ depth[n + 1] \in [DOMAIN g -> Nat]
  <2>1. PICK m \in Nat : m = n + 1 /\ m # 0 /\ m - 1 = n
    OBVIOUS
  <2>2. depth[m] = [a \in DOMAIN g |-> Above(g, depth[m - 1], a)]
    BY <1>6, <2>1
  <2>3. depth[m] = Deeper(g)[depth[n]]
    BY <1>9, <2>1, <2>2 DEF Deeper
  <2> QED
    BY <1>1, <1>9, <2>1, <2>3
<1>10. \A n \in Nat : depth[n] \in [DOMAIN g -> Nat]
  <2> DEFINE T == {n \in Nat : depth[n] \in [DOMAIN g -> Nat]}
  <2>1. 0 \in T
    BY <1>2, <1>8
  <2>2. \A n \in Nat : n \in T => n + 1 \in T
    BY <1>9
  <2>3. \A n \in Nat : n \in T
    <3> HIDE DEF T
    <3> QED
      BY <2>1, <2>2, AllNumbers
  <2> QED
    BY <2>3
<1>11. depth \in [Nat -> [DOMAIN g -> Nat]]
  BY <1>6, <1>10
<1>12. \A a \in DOMAIN g : g[a] = <<>> => depth[0][a] = 0
  BY <1>2, <1>8 DEF Deeper, Above
<1>13. \A n \in Nat : \A a \in DOMAIN g : depth[n + 1][a] = Above(g, depth[n], a)
  <2>1. SUFFICES ASSUME NEW n \in Nat, NEW a \in DOMAIN g
                 PROVE  depth[n + 1][a] = Above(g, depth[n], a)
    OBVIOUS
  <2>2. PICK s \in [DOMAIN g -> Nat] : s = depth[n]
    BY <1>10
  <2>3. Deeper(g)[s][a] = Above(g, s, a)
    BY DEF Deeper
  <2>4. depth[n + 1] = Deeper(g)[depth[n]]
    BY <1>9, <1>10
  <2> QED
    BY <2>2, <2>3, <2>4, Zenon
<1> QED
  BY <1>7, <1>11, <1>12, <1>13 DEF Guesses

\* In a graph without a cycle, what a child reaches is less than what the action does.
LEMMA ReachedShrinks ==
  ASSUME NEW g, IsGraph(g), Acyclic(g), NEW a \in DOMAIN g, NEW b \in Reached(g)[a]
  PROVE  /\ b \in DOMAIN g
         /\ Cardinality(Reached(g)[a]) \in Nat
         /\ Cardinality(Reached(g)[b]) \in Nat
         /\ Cardinality(Reached(g)[b]) < Cardinality(Reached(g)[a])
         /\ Cardinality(Reached(g)[a]) <= Cardinality(DOMAIN g)
<1>1. b \in DOMAIN g
  BY ReachedIsClosed
<1>2. PICK D, A, B : D = DOMAIN g /\ A = Reached(g)[a] /\ B = Reached(g)[b]
  OBVIOUS
<1>3. B \subseteq A /\ b \in A /\ A \subseteq D
  BY <1>2, ReachedIsTransitive, ReachedIsClosed
<1>4. b \notin B
  BY <1>1, <1>2 DEF Acyclic
<1>5. IsFiniteSet(D)
  BY <1>2 DEF IsGraph
<1>6. IsFiniteSet(A) /\ Cardinality(A) <= Cardinality(D)
  BY <1>3, <1>5, FS_Subset
<1>7. IsFiniteSet(B) /\ Cardinality(B) <= Cardinality(A) /\ (Cardinality(A) = Cardinality(B) => A = B)
  BY <1>3, <1>6, FS_Subset
<1>8. Cardinality(A) \in Nat /\ Cardinality(B) \in Nat
  BY <1>6, <1>7, FS_CardinalityType
<1>9. Cardinality(B) < Cardinality(A)
  BY <1>3, <1>4, <1>7, <1>8
<1> QED
  BY <1>1, <1>2, <1>6, <1>8, <1>9

LEMMA ReachedIsFinite ==
  ASSUME NEW g, IsGraph(g), NEW a \in DOMAIN g
  PROVE  /\ IsFiniteSet(Reached(g)[a])
         /\ Cardinality(Reached(g)[a]) \in Nat
         /\ Cardinality(Reached(g)[a]) <= Cardinality(DOMAIN g)
<1>1. PICK D, A : D = DOMAIN g /\ A = Reached(g)[a]
  OBVIOUS
<1>2. IsFiniteSet(D) /\ A \subseteq D
  BY <1>1, ReachedIsClosed DEF IsGraph
<1>3. IsFiniteSet(A) /\ Cardinality(A) <= Cardinality(D)
  BY <1>2, FS_Subset
<1> QED
  BY <1>1, <1>3, FS_CardinalityType

\* Without a cycle the roots lead to everything: the one that reaches most of
\* those that lead to an action is a root.
LEMMA RootsReachAll ==
  ASSUME NEW g, IsGraph(g), Acyclic(g), NEW a \in DOMAIN g
  PROVE  a \in Visited(g)
<1>1. PICK N \in Nat : N = Cardinality(DOMAIN g)
  BY FS_CardinalityType DEF IsGraph
<1> DEFINE leading == {c \in DOMAIN g : c = a \/ a \in Reached(g)[c]}
           sizes == {Cardinality(Reached(g)[c]) : c \in leading}
<1>2. sizes \in SUBSET Nat /\ sizes # {} /\ \A x \in sizes : x <= N
  BY <1>1, ReachedIsFinite
<1>3. PICK x \in sizes : \A y \in sizes : y <= x
  <2> HIDE DEF sizes
  <2> QED
    BY <1>2, GreatestOf, Zenon
<1>4. PICK c \in leading : x = Cardinality(Reached(g)[c])
  BY <1>3
<1>5. ASSUME NEW b \in DOMAIN g \ {c}, c \in Children(g, b)
      PROVE  FALSE
  <2>1. c \in Reached(g)[b]
    BY <1>5, ReachedIsClosed
  <2>2. a \in Reached(g)[b]
    BY <1>4, <1>5, <2>1, ReachedIsTransitive
  <2>3. Cardinality(Reached(g)[b]) \in sizes
    BY <1>5, <2>2
  <2>4. Cardinality(Reached(g)[b]) <= Cardinality(Reached(g)[c])
    BY <1>3, <1>4, <2>3
  <2>5. /\ Cardinality(Reached(g)[c]) < Cardinality(Reached(g)[b])
        /\ Cardinality(Reached(g)[b]) \in Nat /\ Cardinality(Reached(g)[c]) \in Nat
    BY <1>5, <2>1, ReachedShrinks
  <2> QED
    BY <2>4, <2>5
<1>6. c \in Roots(g)
  BY <1>4, <1>5 DEF Roots
<1> QED
  BY <1>4, <1>6 DEF Visited

\* A guess is right for what reaches no more actions than it took steps.
Settled(g, depth) ==
  \A n \in Nat : \A a \in DOMAIN g :
    Cardinality(Reached(g)[a]) <= n => depth[n + 1][a] = depth[n][a]

LEMMA PrioritiesSettle ==
  ASSUME NEW g, IsGraph(g), Acyclic(g), NEW depth, Guesses(g, depth)
  PROVE  Settled(g, depth)
<1> DEFINE T == {n \in Nat : \A a \in DOMAIN g :
                   Cardinality(Reached(g)[a]) <= n => depth[n + 1][a] = depth[n][a]}
<1>1. /\ \A n \in Nat : \A a \in DOMAIN g : depth[n + 1][a] = Above(g, depth[n], a)
      /\ \A a \in DOMAIN g : g[a] = <<>> => depth[0][a] = 0
  BY DEF Guesses
<1>2. 0 \in T
  <2>1. SUFFICES ASSUME NEW a \in DOMAIN g, Cardinality(Reached(g)[a]) <= 0
                 PROVE  depth[0 + 1][a] = depth[0][a]
    OBVIOUS
  <2>2. Reached(g)[a] = {}
    <3>1. PICK A : A = Reached(g)[a]
      OBVIOUS
    <3>2. IsFiniteSet(A) /\ Cardinality(A) \in Nat /\ Cardinality(A) <= 0
      BY <2>1, <3>1, ReachedIsFinite
    <3>3. A = {}
      BY <3>2, FS_EmptySet
    <3> QED
      BY <3>1, <3>3
  <2>3. Children(g, a) = {}
    BY <2>2, ReachedIsClosed
  <2>4. g[a] = <<>>
    <3>1. g[a] \in Seq(DOMAIN g) /\ Len(g[a]) \in Nat /\ DOMAIN g[a] = 1 .. Len(g[a])
      BY DEF IsGraph
    <3>2. \A k \in DOMAIN g[a] : FALSE
      BY <2>3 DEF Children
    <3>3. Len(g[a]) = 0
      <4>1. PICK l \in Nat : l = Len(g[a]) /\ \A k \in 1 .. l : FALSE
        BY <3>1, <3>2
      <4>2. l = 0
        BY <4>1
      <4> QED
        BY <4>1, <4>2
    <3> QED
      BY <3>1, <3>3, EmptySeq
  <2>5. depth[0 + 1][a] = Above(g, depth[0], a)
    BY <1>1
  <2> QED
    BY <1>1, <2>4, <2>5 DEF Above
<1>3. ASSUME NEW n \in Nat, n \in T
      PROVE  n + 1 \in T
  <2>1. SUFFICES ASSUME NEW a \in DOMAIN g, Cardinality(Reached(g)[a]) <= n + 1
                 PROVE  depth[n + 1 + 1][a] = depth[n + 1][a]
    OBVIOUS
  <2>2. ASSUME NEW b \in Children(g, a)
        PROVE  depth[n + 1][b] = depth[n][b]
    <3>1. b \in Reached(g)[a]
      BY ReachedIsClosed
    <3>2. /\ b \in DOMAIN g
          /\ Cardinality(Reached(g)[a]) \in Nat /\ Cardinality(Reached(g)[b]) \in Nat
          /\ Cardinality(Reached(g)[b]) < Cardinality(Reached(g)[a])
      BY <3>1, ReachedShrinks
    <3>3. Cardinality(Reached(g)[b]) <= n
      BY <2>1, <3>2
    <3> QED
      BY <1>3, <3>2, <3>3
  <2>3. depth[n + 1][a] = Above(g, depth[n], a) /\ depth[n + 1 + 1][a] = Above(g, depth[n + 1], a)
    BY <1>1
  <2>4. {depth[n + 1][b] : b \in Children(g, a)} = {depth[n][b] : b \in Children(g, a)}
    <3>1. PICK s, t : s = depth[n] /\ t = depth[n + 1]
      OBVIOUS
    <3>2. \A b \in Children(g, a) : t[b] = s[b]
      BY <2>2, <3>1
    <3>3. {t[b] : b \in Children(g, a)} = {s[b] : b \in Children(g, a)}
      BY ONLY <3>2
    <3> QED
      BY <3>1, <3>3, Zenon
  <2> QED
    BY <2>3, <2>4, Zenon DEF Above
<1>4. \A n \in Nat : n \in T
  <2> HIDE DEF T
  <2> QED
    BY <1>2, <1>3, AllNumbers
<1> QED
  BY <1>4 DEF Settled

\* Without a cycle every action has a greater priority than all that it leads to.
THEOREM PrioritiesAscend ==
  ASSUME NEW g, IsGraph(g), Acyclic(g)
  PROVE  /\ Priorities(g) \in [DOMAIN g -> Nat]
         /\ \A a \in DOMAIN g : \A b \in Reached(g)[a] : Priorities(g)[b] < Priorities(g)[a]
<1>1. PICK depth :
        /\ Guesses(g, depth)
        /\ Priorities(g) = [a \in DOMAIN g |-> IF a \in Visited(g) THEN depth[Cardinality(DOMAIN g)][a] ELSE 0]
  BY PrioritiesBySteps
<1>2. PICK N \in Nat : N = Cardinality(DOMAIN g)
  BY FS_CardinalityType DEF IsGraph
<1>3. \A a \in DOMAIN g : Priorities(g)[a] = depth[N][a]
  BY <1>1, <1>2, RootsReachAll
<1>4. Priorities(g) \in [DOMAIN g -> Nat]
  BY <1>1, <1>2 DEF Guesses
<1>5. ASSUME NEW a \in DOMAIN g, NEW b \in Children(g, a)
      PROVE  Priorities(g)[b] < Priorities(g)[a]
  <2>1. depth[N + 1][a] = depth[N][a]
    <3>1. Settled(g, depth)
      BY <1>1, PrioritiesSettle, Zenon
    <3>2. Cardinality(Reached(g)[a]) <= N
      BY <1>2, ReachedIsFinite
    <3> QED
      BY <3>1, <3>2 DEF Settled
  <2>2. depth[N + 1][a] = Above(g, depth[N], a)
    BY <1>1 DEF Guesses
  <2>3. g[a] # <<>>
    BY DEF Children
  <2>4. MaxOf({depth[N][c] : c \in Children(g, a)}) \in Nat /\ depth[N][b] <= MaxOf({depth[N][c] : c \in Children(g, a)})
    <3>1. PICK s \in [DOMAIN g -> Nat] : s = depth[N]
      BY <1>1 DEF Guesses
    <3>2. IsGreatest(MaxOf({s[c] : c \in Children(g, a)}), Children(g, a), s)
      BY <2>3, MaxOfChildren, Zenon
    <3> QED
      BY <3>1, <3>2, Zenon DEF IsGreatest
  <2>5. b \in DOMAIN g
    BY ChildrenAreActions
  <2>6. depth[N][b] \in Nat
    BY <1>1, <2>5 DEF Guesses
  <2>7. depth[N][a] = 1 + MaxOf({depth[N][c] : c \in Children(g, a)})
    BY <2>1, <2>2, <2>3 DEF Above
  <2> QED
    BY <1>3, <2>4, <2>5, <2>6, <2>7
<1>6. ASSUME NEW a \in DOMAIN g
      PROVE  \A b \in Reached(g)[a] : Priorities(g)[b] < Priorities(g)[a]
  <2>1. PICK p : p = Priorities(g) /\ p \in [DOMAIN g -> Nat] /\ \A c \in DOMAIN g : \A b \in Children(g, c) : p[b] < p[c]
    BY <1>4, <1>5
  <2> DEFINE X == {b \in DOMAIN g : p[b] < p[a]}
  <2>2. Children(g, a) \subseteq X
    BY <2>1, ChildrenAreActions
  <2>3. \A b \in X : b \in DOMAIN g => Children(g, b) \subseteq X
    <3>1. SUFFICES ASSUME NEW b \in X, NEW c \in Children(g, b)
                   PROVE  c \in X
      OBVIOUS
    <3>2. c \in DOMAIN g
      BY ChildrenAreActions
    <3>3. p[c] < p[b] /\ p[b] < p[a] /\ p[c] \in Nat /\ p[b] \in Nat /\ p[a] \in Nat
      BY <2>1, <3>2
    <3> QED
      BY <3>2, <3>3
  <2>4. Reached(g)[a] \subseteq X
    <3> HIDE DEF X
    <3> QED
      BY <2>2, <2>3, ReachedIsLeast
  <2> QED
    BY <2>1, <2>4
<1> QED
  BY <1>4, <1>6

-----------------------------------------------------------------------------
\* What is reached is a child or reached from a child.
LEMMA ReachedByChildren ==
  ASSUME NEW g, IsGraph(g), NEW a \in DOMAIN g, NEW b
  PROVE  b \in Reached(g)[a] <=>
           b \in Children(g, a) \/ \E c \in Children(g, a) : b \in Reached(g)[c]
<1> DEFINE X == Children(g, a) \cup UNION {Reached(g)[c] : c \in Children(g, a)}
<1>1. Children(g, a) \subseteq DOMAIN g
  BY ChildrenAreActions
<1>2. ASSUME NEW x \in X
      PROVE  Children(g, x) \subseteq X
  <2>1. CASE x \in Children(g, a)
    <3>1. Children(g, x) \subseteq Reached(g)[x]
      BY <1>1, <2>1, ReachedIsClosed
    <3> QED
      BY <2>1, <3>1
  <2>2. CASE \E c \in Children(g, a) : x \in Reached(g)[c]
    <3>1. PICK c \in Children(g, a) : x \in Reached(g)[c]
      BY <2>2
    <3>2. Children(g, x) \subseteq Reached(g)[c]
      BY <1>1, <3>1, ReachedIsClosed
    <3> QED
      BY <3>2
  <2> QED
    BY <2>1, <2>2
<1>3. Reached(g)[a] \subseteq X
  <2>1. Children(g, a) \subseteq X /\ \A x \in X : x \in DOMAIN g => Children(g, x) \subseteq X
    BY <1>2
  <2> HIDE DEF X
  <2> QED
    BY <2>1, ReachedIsLeast
<1>4. \A c \in Children(g, a) : c \in Reached(g)[a] /\ Reached(g)[c] \subseteq Reached(g)[a]
  BY ReachedIsClosed, ReachedIsTransitive
<1> QED
  BY <1>3, <1>4

Answers == {"yes", "no", "overflow"}

LEMMA FirstAnswerTells ==
  ASSUME NEW K \in SUBSET Nat, NEW f \in [K -> Answers]
  PROVE  /\ FirstAnswer(f) \in Answers
         /\ FirstAnswer(f) = "yes" => \E k \in K : f[k] = "yes"
         /\ FirstAnswer(f) = "no" => \A k \in K : f[k] = "no"
         /\ FirstAnswer(f) = "overflow" => \E k \in K : f[k] = "overflow"
<1> DEFINE found == {k \in DOMAIN f : f[k] # "no"}
<1>1. FirstAnswer(f) = IF found = {} THEN "no" ELSE f[CHOOSE k \in found : \A j \in found : k <= j]
  BY DEF FirstAnswer
<1>2. \A k : k \in found <=> k \in K /\ f[k] # "no"
  OBVIOUS
<1> HIDE DEF found
<1>3. CASE found = {}
  BY <1>1, <1>2, <1>3 DEF Answers
<1>4. CASE found # {}
  <2>1. \E k \in found : \A j \in found : k <= j
    BY <1>2, <1>4, LeastOf
  <2>2. PICK k : k = CHOOSE l \in found : \A j \in found : l <= j
    OBVIOUS
  <2>3. k \in found
    BY <2>1, <2>2, Zenon
  <2>4. FirstAnswer(f) = f[k]
    BY <1>1, <1>4, <2>2
  <2> QED
    BY <1>2, <2>3, <2>4
<1> QED
  BY <1>3, <1>4

\* One more level of the search.
Asked(g, target, s) ==
  [a \in DOMAIN g |->
     IF a = target THEN "yes" ELSE FirstAnswer([k \in DOMAIN g[a] |-> s[g[a][k]]])]

\* The function inside Search, unfolded.
Searching(g, target, search) ==
  /\ search \in [Nat -> [DOMAIN g -> Answers]]
  /\ \A a \in DOMAIN g : search[0][a] = IF a = target THEN "yes" ELSE "overflow"
  /\ \A n \in Nat : search[n + 1] = Asked(g, target, search[n])

LEMMA AskedIsAnswered ==
  ASSUME NEW g, IsGraph(g), NEW target, NEW s \in [DOMAIN g -> Answers]
  PROVE  /\ Asked(g, target, s) \in [DOMAIN g -> Answers]
         /\ \A a \in DOMAIN g :
              /\ Asked(g, target, s)[a] = "yes" =>
                   a = target \/ \E c \in Children(g, a) : s[c] = "yes"
              /\ Asked(g, target, s)[a] = "no" =>
                   a # target /\ \A c \in Children(g, a) : s[c] = "no"
              /\ Asked(g, target, s)[a] = "overflow" => \E c \in Children(g, a) : s[c] = "overflow"
<1>1. ASSUME NEW a \in DOMAIN g
      PROVE  /\ Asked(g, target, s)[a] \in Answers
             /\ Asked(g, target, s)[a] = "yes" =>
                  a = target \/ \E c \in Children(g, a) : s[c] = "yes"
             /\ Asked(g, target, s)[a] = "no" =>
                  a # target /\ \A c \in Children(g, a) : s[c] = "no"
             /\ Asked(g, target, s)[a] = "overflow" => \E c \in Children(g, a) : s[c] = "overflow"
  <2>1. PICK q \in Seq(DOMAIN g) : q = g[a]
    BY DEF IsGraph
  <2>2. PICK K, f : K = DOMAIN q /\ f = [k \in K |-> s[q[k]]]
    OBVIOUS
  <2>3. K \in SUBSET Nat /\ \A k \in K : q[k] \in DOMAIN g
    BY <2>2
  <2>4. f \in [K -> Answers]
    BY <2>2, <2>3
  <2>5. /\ FirstAnswer(f) \in Answers
        /\ FirstAnswer(f) = "yes" => \E k \in K : f[k] = "yes"
        /\ FirstAnswer(f) = "no" => \A k \in K : f[k] = "no"
        /\ FirstAnswer(f) = "overflow" => \E k \in K : f[k] = "overflow"
    BY <2>3, <2>4, FirstAnswerTells
  <2>6. Asked(g, target, s)[a] = IF a = target THEN "yes" ELSE FirstAnswer(f)
    BY <2>1, <2>2, Zenon DEF Asked
  <2>7. \A c : c \in Children(g, a) <=> \E k \in K : c = q[k]
    BY <2>1, <2>2 DEF Children
  <2> QED
    BY <2>2, <2>5, <2>6, <2>7 DEF Answers
<1>2. Asked(g, target, s) = [a \in DOMAIN g |-> Asked(g, target, s)[a]]
  BY DEF Asked
<1> QED
  BY <1>1, <1>2

LEMMA SearchBySteps ==
  ASSUME NEW g, IsGraph(g), NEW target
  PROVE  \E search :
           /\ Searching(g, target, search)
           /\ \A from : Search(g, from, target) = search[Cardinality(DOMAIN g)][from]
<1> DEFINE search[n \in Nat] ==
        [a \in DOMAIN g |->
           IF a = target THEN "yes"
           ELSE IF n = 0 THEN "overflow"
           ELSE FirstAnswer([k \in DOMAIN g[a] |-> search[n - 1][g[a][k]]])]
           first == [a \in DOMAIN g |-> IF a = target THEN "yes" ELSE "overflow"]
<1>1. PICK G \in [[DOMAIN g -> Answers] -> [DOMAIN g -> Answers]] :
        \A s \in [DOMAIN g -> Answers] : G[s] = Asked(g, target, s)
  <2> DEFINE G == [s \in [DOMAIN g -> Answers] |-> Asked(g, target, s)]
  <2>1. G \in [[DOMAIN g -> Answers] -> [DOMAIN g -> Answers]]
    BY AskedIsAnswered
  <2> QED
    BY <2>1
<1>2. first \in [DOMAIN g -> Answers]
  BY DEF Answers
<1>3. PICK f \in [Nat -> [DOMAIN g -> Answers]] : f[0] = first /\ \A n \in Nat : f[n + 1] = G[f[n]]
  <2>1. PICK S, x : S = [DOMAIN g -> Answers] /\ x = first
    OBVIOUS
  <2>2. x \in S /\ G \in [S -> S]
    BY <1>1, <1>2, <2>1, Zenon
  <2>3. PICK f : Iteration(f, S, x, G)
    BY <2>2, Iterates, Zenon
  <2> QED
    BY <2>1, <2>3, Zenon DEF Iteration
<1>4. \A n \in Nat : f[n + 1] = Asked(g, target, f[n])
  BY <1>1, <1>3
<1>5. ASSUME NEW n \in Nat
      PROVE  f[n] = [a \in DOMAIN g |->
           IF a = target THEN "yes"
           ELSE IF n = 0 THEN "overflow"
           ELSE FirstAnswer([k \in DOMAIN g[a] |-> f[n - 1][g[a][k]]])]
  <2>1. CASE n = 0
    BY <1>3, <2>1
  <2>2. CASE n # 0
    <3>1. PICK m \in Nat : m = n - 1 /\ m + 1 = n
      BY <2>2
    <3>2. f[n] = Asked(g, target, f[m])
      BY <1>4, <3>1
    <3>3. f[n] = [a \in DOMAIN g |->
             IF a = target THEN "yes" ELSE FirstAnswer([k \in DOMAIN g[a] |-> f[m][g[a][k]]])]
      BY <3>2, Zenon DEF Asked
    <3> QED
      BY <2>2, <3>1, <3>3
  <2> QED
    BY <2>1, <2>2
<1>6. f = [n \in Nat |-> [a \in DOMAIN g |->
           IF a = target THEN "yes"
           ELSE IF n = 0 THEN "overflow"
           ELSE FirstAnswer([k \in DOMAIN g[a] |-> f[n - 1][g[a][k]]])]]
  <2>1. f = [n \in Nat |-> f[n]]
    BY <1>3
  <2> QED
    BY <1>5, <2>1
<1>7. search = [n \in Nat |-> [a \in DOMAIN g |->
           IF a = target THEN "yes"
           ELSE IF n = 0 THEN "overflow"
           ELSE FirstAnswer([k \in DOMAIN g[a] |-> search[n - 1][g[a][k]]])]]
  BY <1>6, Zenon
<1>8. \A from : Search(g, from, target) = search[Cardinality(DOMAIN g)][from]
  BY DEF Search
<1> HIDE DEF search
<1>9. search[0] = first
  BY <1>7
<1>10. ASSUME NEW n \in Nat
       PROVE  search[n + 1] = Asked(g, target, search[n])
  <2>1. PICK m \in Nat : m = n + 1 /\ m # 0 /\ m - 1 = n
    OBVIOUS
  <2>2. search[m] = [a \in DOMAIN g |->
           IF a = target THEN "yes"
           ELSE IF m = 0 THEN "overflow"
           ELSE FirstAnswer([k \in DOMAIN g[a] |-> search[m - 1][g[a][k]]])]
    BY <1>7
  <2>3. search[m] = [a \in DOMAIN g |->
           IF a = target THEN "yes" ELSE FirstAnswer([k \in DOMAIN g[a] |-> search[n][g[a][k]]])]
    BY <2>1, <2>2
  <2> QED
    BY <2>1, <2>3, Zenon DEF Asked
<1>11. \A n \in Nat : search[n] \in [DOMAIN g -> Answers]
  <2> DEFINE T == {n \in Nat : search[n] \in [DOMAIN g -> Answers]}
  <2>1. 0 \in T
    BY <1>2, <1>9
  <2>2. ASSUME NEW n \in Nat, n \in T
        PROVE  n + 1 \in T
    <3>1. PICK s \in [DOMAIN g -> Answers] : s = search[n]
      BY <2>2
    <3>2. Asked(g, target, s) \in [DOMAIN g -> Answers]
      BY AskedIsAnswered
    <3> QED
      BY <1>10, <3>1, <3>2
  <2>3. \A n \in Nat : n \in T
    <3> HIDE DEF T
    <3> QED
      BY <2>1, <2>2, AllNumbers
  <2> QED
    BY <2>3
<1>12. search \in [Nat -> [DOMAIN g -> Answers]]
  BY <1>7, <1>11
<1>13. Searching(g, target, search)
  BY <1>9, <1>10, <1>12 DEF Searching
<1> QED
  BY <1>8, <1>13

\* A search without marks ends in a graph without cycles: it gets one level deeper
\* for every action that it has not met, and there are no more.
LEMMA SearchEnds ==
  ASSUME NEW g, IsGraph(g), Acyclic(g), NEW target, NEW from \in DOMAIN g
  PROVE  Search(g, from, target) # "overflow"
<1>1. PICK search :
        /\ Searching(g, target, search)
        /\ \A a : Search(g, a, target) = search[Cardinality(DOMAIN g)][a]
  BY SearchBySteps
<1>2. /\ search \in [Nat -> [DOMAIN g -> Answers]]
      /\ \A n \in Nat : search[n + 1] = Asked(g, target, search[n])
  BY <1>1 DEF Searching
<1>3. PICK size \in [DOMAIN g -> Nat] : \A a \in DOMAIN g : size[a] = Cardinality(Reached(g)[a])
  <2>1. \A a \in DOMAIN g : Cardinality(Reached(g)[a]) \in Nat
    BY ReachedIsFinite
  <2>2. [a \in DOMAIN g |-> Cardinality(Reached(g)[a])] \in [DOMAIN g -> Nat]
    BY <2>1
  <2> QED
    BY <2>2
<1>4. \A a \in DOMAIN g : \A c \in Children(g, a) : c \in DOMAIN g /\ size[c] < size[a]
  <2> SUFFICES ASSUME NEW a \in DOMAIN g, NEW c \in Children(g, a)
               PROVE  c \in DOMAIN g /\ size[c] < size[a]
    OBVIOUS
  <2>1. c \in Reached(g)[a]
    BY ReachedByChildren
  <2> QED
    BY <1>3, <2>1, ReachedShrinks
<1> DEFINE Ended(n) == \A a \in DOMAIN g : size[a] < n => search[n][a] # "overflow"
           T == {n \in Nat : Ended(n)}
<1>5. 0 \in T
  BY <1>3
<1>6. ASSUME NEW n \in Nat, n \in T
      PROVE  n + 1 \in T
  <2>1. PICK s \in [DOMAIN g -> Answers] : s = search[n]
    BY <1>2
  <2>2. SUFFICES ASSUME NEW a \in DOMAIN g, size[a] < n + 1, search[n + 1][a] = "overflow"
                 PROVE  FALSE
    OBVIOUS
  <2>3. Asked(g, target, s)[a] = "overflow"
    BY <1>2, <2>1, <2>2
  <2>4. PICK c \in Children(g, a) : s[c] = "overflow"
    BY <2>3, AskedIsAnswered
  <2>5. c \in DOMAIN g /\ size[c] < size[a]
    BY <1>4
  <2>6. size[c] < n
    BY <1>3, <2>2, <2>5
  <2> QED
    BY <1>6, <2>1, <2>4, <2>5, <2>6
<1>7. \A n \in Nat : n \in T
  <2> HIDE DEF T
  <2> QED
    BY <1>5, <1>6, AllNumbers
<1>8. PICK N \in Nat : N = Cardinality(DOMAIN g) /\ size[from] < N
  <2>1. PICK D, A : D = DOMAIN g /\ A = Reached(g)[from]
    OBVIOUS
  <2>2. IsFiniteSet(D) /\ A \subseteq D /\ from \in D /\ from \notin A
    BY <2>1, ReachedIsClosed DEF IsGraph, Acyclic
  <2>3. Cardinality(A) <= Cardinality(D) /\ (Cardinality(A) = Cardinality(D) => A = D)
    BY <2>2, FS_Subset
  <2>4. Cardinality(D) \in Nat /\ size[from] = Cardinality(A) /\ size[from] \in Nat
    BY <1>3, <2>1, <2>2, FS_CardinalityType
  <2> QED
    BY <2>1, <2>2, <2>3, <2>4
<1> QED
  BY <1>1, <1>7, <1>8

\* A search that ends tells what Reached does, in a graph with cycles too, and in one
\* without cycles every search ends.
THEOREM SearchIsRight ==
  ASSUME NEW g, IsGraph(g), NEW target, NEW from \in DOMAIN g
  PROVE  /\ Search(g, from, target) \in Answers
         /\ Search(g, from, target) = "yes" => from = target \/ target \in Reached(g)[from]
         /\ Search(g, from, target) = "no" => from # target /\ target \notin Reached(g)[from]
         /\ Acyclic(g) => Search(g, from, target) # "overflow"
<1>1. PICK search :
        /\ Searching(g, target, search)
        /\ \A a : Search(g, a, target) = search[Cardinality(DOMAIN g)][a]
  BY SearchBySteps
<1>2. /\ search \in [Nat -> [DOMAIN g -> Answers]]
      /\ \A a \in DOMAIN g : search[0][a] = IF a = target THEN "yes" ELSE "overflow"
      /\ \A n \in Nat : search[n + 1] = Asked(g, target, search[n])
  BY <1>1 DEF Searching
<1> DEFINE Right(s) == \A a \in DOMAIN g :
                         /\ s[a] = "yes" => a = target \/ target \in Reached(g)[a]
                         /\ s[a] = "no" => a # target /\ target \notin Reached(g)[a]
           T == {n \in Nat : Right(search[n])}
<1>3. 0 \in T
  BY <1>2
<1>4. ASSUME NEW n \in Nat, n \in T
      PROVE  n + 1 \in T
  <2>1. PICK s \in [DOMAIN g -> Answers] : s = search[n]
    BY <1>2
  <2>2. Right(s)
    BY <1>4, <2>1
  <2>3. SUFFICES Right(Asked(g, target, s))
    BY <1>2, <2>1
  <2>4. SUFFICES ASSUME NEW a \in DOMAIN g
                 PROVE  /\ Asked(g, target, s)[a] = "yes" => a = target \/ target \in Reached(g)[a]
                        /\ Asked(g, target, s)[a] = "no" => a # target /\ target \notin Reached(g)[a]
    OBVIOUS
  <2>5. /\ Asked(g, target, s)[a] = "yes" => a = target \/ \E c \in Children(g, a) : s[c] = "yes"
        /\ Asked(g, target, s)[a] = "no" => a # target /\ \A c \in Children(g, a) : s[c] = "no"
    BY AskedIsAnswered
  <2>6. \A c \in Children(g, a) : c \in DOMAIN g
    BY ChildrenAreActions
  <2>7. target \in Reached(g)[a] <=>
          target \in Children(g, a) \/ \E c \in Children(g, a) : target \in Reached(g)[c]
    BY ReachedByChildren
  <2> QED
    BY <2>2, <2>5, <2>6, <2>7
<1>5. \A n \in Nat : n \in T
  <2> HIDE DEF T
  <2> QED
    BY <1>3, <1>4, AllNumbers
<1>6. PICK N \in Nat : N = Cardinality(DOMAIN g)
  BY FS_CardinalityType DEF IsGraph
<1>7. Acyclic(g) => Search(g, from, target) # "overflow"
  BY SearchEnds
<1> QED
  BY <1>1, <1>2, <1>5, <1>6, <1>7

-----------------------------------------------------------------------------
\* h is g without the dependency of a on t.
Without(g, a, t, h) ==
  /\ DOMAIN h = DOMAIN g
  /\ \A b \in DOMAIN g : Children(h, b) = IF b = a THEN Children(g, a) \ {t} ELSE Children(g, b)

\* A dependency that another one of the same action implies makes no difference.
LEMMA ImpliedIsNotMissed ==
  ASSUME NEW g, IsGraph(g), Acyclic(g), NEW a \in DOMAIN g, NEW t,
         NEW c \in Children(g, a), c # t, t \in Reached(g)[c],
         NEW h, IsGraph(h), Without(g, a, t, h), NEW b \in DOMAIN g
  PROVE  Reached(h)[b] = Reached(g)[b]
<1>1. \A x \in DOMAIN g : Children(h, x) = IF x = a THEN Children(g, a) \ {t} ELSE Children(g, x)
  BY DEF Without
<1>2. DOMAIN h = DOMAIN g
  BY DEF Without
<1>3. \A x \in DOMAIN g : Reached(h)[x] \subseteq Reached(g)[x]
  <2>1. \A x \in DOMAIN h : Children(h, x) \subseteq Children(g, x)
    BY <1>1, <1>2
  <2> QED
    BY <1>2, <2>1, ReachedIsMonotone
<1>4. c \in DOMAIN g /\ c \in Reached(g)[a]
  BY ChildrenAreActions, ReachedIsClosed
\* Nothing that c leads to leads back to a.
<1>5. a \notin Reached(g)[c] /\ c # a
  <2>1. a \notin Reached(g)[a]
    BY DEF Acyclic
  <2> QED
    BY <1>4, <2>1, ReachedIsTransitive
<1>6. Reached(g)[c] \subseteq Reached(h)[c]
  <2>1. PICK X : X = Reached(h)[c]
    OBVIOUS
  <2>2. Children(h, c) \subseteq X /\ \A x \in X : x \in DOMAIN h /\ Children(h, x) \subseteq X
    BY <1>2, <1>4, <2>1, ReachedIsClosed
  <2>3. Children(g, c) \subseteq X
    BY <1>1, <1>4, <1>5, <2>2
  <2>4. ASSUME NEW x \in X
        PROVE  Children(g, x) \subseteq X
    <3>1. x \in Reached(g)[c]
      BY <1>3, <1>4, <2>1
    <3>2. x # a /\ x \in DOMAIN g
      BY <1>2, <1>5, <2>2, <3>1
    <3>3. Children(h, x) = Children(g, x)
      BY <1>1, <3>2
    <3> QED
      BY <2>2, <3>3
  <2>5. Reached(g)[c] \subseteq X
    BY <1>4, <2>3, <2>4, ReachedIsLeast
  <2> QED
    BY <2>1, <2>5
<1>7. Children(g, a) \subseteq Reached(h)[a]
  <2>1. c \in Children(h, a) /\ Children(g, a) \ {t} \subseteq Children(h, a)
    BY <1>1
  <2>2. t \in Reached(h)[c]
    BY <1>6
  <2>3. c \in Reached(h)[a] /\ Reached(h)[c] \subseteq Reached(h)[a] /\ Children(h, a) \subseteq Reached(h)[a]
    BY <1>2, <2>1, ReachedIsClosed, ReachedIsTransitive
  <2> QED
    BY <2>1, <2>2, <2>3
<1>8. Reached(g)[b] \subseteq Reached(h)[b]
  <2>1. PICK X : X = Reached(h)[b]
    OBVIOUS
  <2>2. Children(h, b) \subseteq X /\ \A x \in X : Children(h, x) \subseteq X
    BY <1>2, <2>1, ReachedIsClosed
  <2>3. a \in X \/ a = b => Reached(h)[a] \subseteq X
    BY <1>2, <2>1, ReachedIsTransitive
  <2>4. Children(g, b) \subseteq X
    BY <1>1, <1>7, <2>2, <2>3
  <2>5. \A x \in X : x \in DOMAIN g => Children(g, x) \subseteq X
    BY <1>1, <1>7, <2>2, <2>3
  <2>6. Reached(g)[b] \subseteq X
    BY <2>4, <2>5, ReachedIsLeast
  <2> QED
    BY <2>1, <2>6
<1> QED
  BY <1>3, <1>8

\* b is not implied by the other dependencies of a.
Essential(g, a, b) == \A c \in Children(g, a) : c # b => b \notin Reached(g)[c]

\* A graph that leads to the same and has no implied dependency is Direct.
LEMMA EssentialIsDirect ==
  ASSUME NEW g, IsGraph(g), Acyclic(g), NEW h, IsGraph(h), DOMAIN h = DOMAIN g,
         \A x \in DOMAIN g : Reached(h)[x] = Reached(g)[x] /\ Children(h, x) \subseteq Children(g, x),
         NEW a \in DOMAIN g, \A b \in Children(h, a) : Essential(h, a, b)
  PROVE  Children(h, a) = Direct(g)[a]
<1>1. Direct(g)[a] = {b \in Children(g, a) : \A c \in Children(g, a) \ {b} : b \notin Reached(g)[c]}
  BY DEF Direct
<1>2. \A x \in Children(g, a) : x \in DOMAIN g /\ x \in Reached(g)[a] /\ x \notin Reached(g)[x]
  BY ChildrenAreActions, ReachedIsClosed DEF Acyclic
<1>3. \A x : x \in Reached(h)[a] <=>
               x \in Children(h, a) \/ \E c \in Children(h, a) : x \in Reached(h)[c]
  BY ReachedByChildren
<1>4. ASSUME NEW b \in Children(h, a), NEW c \in Children(g, a) \ {b}, b \in Reached(g)[c]
      PROVE  FALSE
  <2>1. c \in Reached(h)[a]
    BY <1>2
  <2>2. c \notin Children(h, a)
    BY <1>2, <1>4 DEF Essential
  <2>3. PICK d \in Children(h, a) : c \in Reached(h)[d]
    BY <1>3, <2>1, <2>2
  <2>4. d \in DOMAIN g /\ d \in Children(g, a)
    BY <1>2, <2>3
  <2>5. b \in Reached(g)[d]
    BY <1>4, <2>3, <2>4, ReachedIsTransitive
  <2>6. d # b
    BY <1>2, <2>4, <2>5
  <2> QED
    BY <2>3, <2>4, <2>5, <2>6 DEF Essential
<1>5. ASSUME NEW b \in Children(g, a), \A c \in Children(g, a) \ {b} : b \notin Reached(g)[c],
             b \notin Children(h, a)
      PROVE  FALSE
  <2>1. b \in Reached(h)[a]
    BY <1>2
  <2>2. PICK d \in Children(h, a) : b \in Reached(h)[d]
    BY <1>3, <1>5, <2>1
  <2>3. d \in Children(g, a) /\ d \in DOMAIN g
    BY <1>2, <2>2
  <2>4. b \in Reached(g)[d] /\ d # b
    BY <1>5, <2>2, <2>3
  <2> QED
    BY <1>5, <2>3, <2>4
<1> QED
  BY <1>1, <1>4, <1>5

\* Of the actions that lead to a, one that reaches most: the roots lead to it,
\* or it is in a cycle.
LEMMA RootOrCycle ==
  ASSUME NEW g, IsGraph(g), NEW a \in DOMAIN g
  PROVE  a \in Visited(g) \/ \E c \in DOMAIN g : c \in Reached(g)[c] /\ a \in Reached(g)[c]
<1>1. PICK N \in Nat : N = Cardinality(DOMAIN g)
  BY FS_CardinalityType DEF IsGraph
<1> DEFINE leading == {c \in DOMAIN g : c = a \/ a \in Reached(g)[c]}
           sizes == {Cardinality(Reached(g)[c]) : c \in leading}
<1>2. sizes \in SUBSET Nat /\ sizes # {} /\ \A x \in sizes : x <= N
  BY <1>1, ReachedIsFinite
<1>3. PICK x \in sizes : \A y \in sizes : y <= x
  <2> HIDE DEF sizes
  <2> QED
    BY <1>2, GreatestOf, Zenon
<1>4. PICK c \in leading : x = Cardinality(Reached(g)[c])
  BY <1>3
<1>5. CASE c \in Roots(g)
  BY <1>4, <1>5 DEF Visited
<1>6. CASE c \notin Roots(g)
  <2>1. PICK b \in DOMAIN g \ {c} : c \in Children(g, b)
    BY <1>4, <1>6 DEF Roots
  <2>2. c \in Reached(g)[b]
    BY <2>1, ReachedIsClosed
  <2>3. Reached(g)[c] \subseteq Reached(g)[b]
    BY <2>1, <2>2, ReachedIsTransitive
  <2>4. a \in Reached(g)[b]
    BY <1>4, <2>2, <2>3
  <2>5. Cardinality(Reached(g)[b]) \in sizes
    BY <2>1, <2>4
  <2>6. Cardinality(Reached(g)[b]) <= Cardinality(Reached(g)[c])
    BY <1>3, <1>4, <2>5
  <2>7. Reached(g)[b] = Reached(g)[c]
    <3>1. PICK B, C : B = Reached(g)[b] /\ C = Reached(g)[c]
      OBVIOUS
    <3>2. IsFiniteSet(B) /\ Cardinality(B) \in Nat /\ Cardinality(C) \in Nat /\ C \in SUBSET B
      BY <1>4, <2>1, <2>3, <3>1, ReachedIsFinite
    <3>3. Cardinality(C) <= Cardinality(B) /\ (Cardinality(B) = Cardinality(C) => B = C)
      BY <3>2, FS_Subset
    <3>4. B = C
      BY <2>6, <3>1, <3>2, <3>3
    <3> QED
      BY <3>1, <3>4
  <2>8. c \in Reached(g)[c] /\ a \in Reached(g)[c]
    BY <2>2, <2>4, <2>7
  <2> QED
    BY <1>4, <2>8
<1> QED
  BY <1>5, <1>6

\* A cycle that the roots do not lead to is only entered from cycles.
LEMMA CyclesAreEnteredByCycles ==
  ASSUME NEW g, IsGraph(g), ~RootedCycle(g), NEW a \in DOMAIN g,
         NEW x \in Reached(g)[a], x \in Reached(g)[x]
  PROVE  \E c \in DOMAIN g : c \in Reached(g)[c] /\ a \in Reached(g)[c]
<1>1. SUFFICES a \notin Visited(g)
  BY RootOrCycle
<1>2. SUFFICES ASSUME a \in Visited(g)
               PROVE  x \in Visited(g)
  BY DEF RootedCycle
<1>3. PICK r \in Roots(g) : a = r \/ a \in Reached(g)[r]
  BY <1>2 DEF Visited
<1>4. r \in DOMAIN g
  BY DEF Roots
<1>5. x \in Reached(g)[r]
  BY <1>3, <1>4, ReachedIsTransitive
<1> QED
  BY <1>5 DEF Visited

\* Without a cycle the priorities are what assign_priorities makes of themselves.
LEMMA PriorityIsAbove ==
  ASSUME NEW g, IsGraph(g), Acyclic(g), NEW a \in DOMAIN g
  PROVE  Priorities(g)[a] = Above(g, Priorities(g), a)
<1>1. PICK depth :
        /\ Guesses(g, depth)
        /\ Priorities(g) = [b \in DOMAIN g |-> IF b \in Visited(g) THEN depth[Cardinality(DOMAIN g)][b] ELSE 0]
  BY PrioritiesBySteps
<1>2. PICK N \in Nat : N = Cardinality(DOMAIN g)
  BY FS_CardinalityType DEF IsGraph
<1>3. PICK p \in [DOMAIN g -> Nat] : p = depth[N]
  BY <1>1 DEF Guesses
<1>4. Priorities(g) = p
  <2>1. \A b \in DOMAIN g : b \in Visited(g)
    BY RootsReachAll
  <2> QED
    BY <1>1, <1>2, <1>3, <2>1
<1>5. depth[N + 1][a] = depth[N][a]
  <2>1. Settled(g, depth)
    BY <1>1, PrioritiesSettle, Zenon
  <2>2. Cardinality(Reached(g)[a]) <= N
    BY <1>2, ReachedIsFinite
  <2> QED
    BY <2>1, <2>2 DEF Settled
<1>6. depth[N + 1][a] = Above(g, depth[N], a)
  BY <1>1 DEF Guesses
<1> QED
  BY <1>3, <1>4, <1>5, <1>6, Zenon

LEMMA PriorityIsAtMost ==
  ASSUME NEW g, IsGraph(g), Acyclic(g), NEW h, IsGraph(h), Acyclic(h), DOMAIN h = DOMAIN g,
         NEW a \in DOMAIN g, Reached(h)[a] = Reached(g)[a],
         \A b \in Reached(g)[a] : Priorities(h)[b] = Priorities(g)[b]
  PROVE  Priorities(g)[a] <= Priorities(h)[a]
<1>1. PICK p \in [DOMAIN g -> Nat], q \in [DOMAIN g -> Nat] : p = Priorities(g) /\ q = Priorities(h)
  BY PrioritiesAscend
<1>2. p[a] = Above(g, p, a)
  BY <1>1, PriorityIsAbove
<1>3. CASE g[a] = <<>>
  <2>1. p[a] = 0
    BY <1>2, <1>3 DEF Above
  <2> QED
    BY <1>1, <2>1
<1>4. CASE g[a] # <<>>
  <2>1. PICK m : m = MaxOf({p[b] : b \in Children(g, a)})
    OBVIOUS
  <2>2. IsGreatest(m, Children(g, a), p)
    BY <1>4, <2>1, MaxOfChildren, Zenon
  <2>3. PICK c \in Children(g, a) : m = p[c]
    BY <2>2 DEF IsGreatest
  <2>4. p[a] = 1 + m
    BY <1>2, <1>4, <2>1 DEF Above
  <2>5. c \in Reached(g)[a] /\ c \in DOMAIN g
    BY ReachedIsClosed, ChildrenAreActions
  <2>6. q[c] < q[a]
    BY <1>1, <2>5, PrioritiesAscend
  <2>7. q[c] = p[c]
    BY <1>1, <2>5
  <2>8. q[c] \in Nat /\ q[a] \in Nat
    BY <1>1, <2>5
  <2>9. p[a] <= q[a]
    BY <2>3, <2>4, <2>6, <2>7, <2>8
  <2> QED
    BY <1>1, <2>9
<1> QED
  BY <1>3, <1>4

\* Graphs that lead to the same have the same priorities.
THEOREM SameReachSamePriorities ==
  ASSUME NEW g, IsGraph(g), Acyclic(g), NEW h, IsGraph(h), Acyclic(h), DOMAIN h = DOMAIN g,
         \A a \in DOMAIN g : Reached(h)[a] = Reached(g)[a]
  PROVE  Priorities(h) = Priorities(g)
<1>1. PICK p \in [DOMAIN g -> Nat], q \in [DOMAIN g -> Nat] : p = Priorities(g) /\ q = Priorities(h)
  BY PrioritiesAscend
<1> DEFINE T == {n \in Nat : \A a \in DOMAIN g : p[a] <= n => q[a] = p[a]}
           Lower(n) == \A a \in DOMAIN g : p[a] < n => q[a] = p[a]
<1>2. ASSUME NEW n \in Nat, Lower(n)
      PROVE  n \in T
  <2>1. SUFFICES ASSUME NEW a \in DOMAIN g, p[a] <= n
                 PROVE  q[a] = p[a]
    OBVIOUS
  <2>2. ASSUME NEW b \in Reached(g)[a]
        PROVE  q[b] = p[b]
    <3>1. b \in DOMAIN g /\ p[b] < p[a]
      BY <1>1, ReachedIsClosed, PrioritiesAscend
    <3>2. p[b] \in Nat /\ p[a] \in Nat
      BY <1>1, <3>1
    <3>3. p[b] < n
      BY <2>1, <3>1, <3>2
    <3> QED
      BY <1>2, <3>1, <3>3
  <2>3. p[a] <= q[a]
    BY <1>1, <2>2, PriorityIsAtMost
  <2>4. q[a] <= p[a]
    BY <1>1, <2>2, PriorityIsAtMost
  <2>5. p[a] \in Nat /\ q[a] \in Nat
    BY <1>1
  <2> QED
    BY <2>3, <2>4, <2>5
<1>3. 0 \in T
  <2>1. Lower(0)
    BY <1>1
  <2> QED
    BY <1>2, <2>1
<1>4. ASSUME NEW n \in Nat, n \in T
      PROVE  n + 1 \in T
  <2>1. PICK m \in Nat : m = n + 1
    OBVIOUS
  <2>2. Lower(m)
    <3>1. SUFFICES ASSUME NEW a \in DOMAIN g, p[a] < m
                   PROVE  q[a] = p[a]
      OBVIOUS
    <3>2. p[a] \in Nat
      BY <1>1
    <3>3. p[a] <= n
      BY <2>1, <3>1, <3>2
    <3> QED
      BY <1>4, <3>3
  <2>3. m \in T
    BY <1>2, <2>2
  <2> QED
    BY <2>1, <2>3
<1>5. \A n \in Nat : n \in T
  <2> HIDE DEF T
  <2> QED
    BY <1>3, <1>4, AllNumbers
<1>6. ASSUME NEW a \in DOMAIN g
      PROVE  q[a] = p[a]
  <2>1. PICK n \in Nat : n = p[a]
    BY <1>1
  <2> QED
    BY <1>5, <2>1
<1>7. q = p
  BY <1>1, <1>6
<1> QED
  BY <1>1, <1>7

-----------------------------------------------------------------------------
(* Lists that are built step by step.                                      *)

Stepwise(f, T, x, H) ==
  f \in [Nat -> T] /\ f[0] = x /\ \A n \in Nat : f[n + 1] = H[<<n + 1, f[n]>>]

LEMMA StepwiseExist ==
  ASSUME NEW T, NEW x \in T, NEW H \in [Nat \X T -> T]
  PROVE  \E f : Stepwise(f, T, x, H)
<1>1. PICK S : S = Nat \X T
  OBVIOUS
<1>2. PICK G : G = [p \in S |-> <<p[1] + 1, H[<<p[1] + 1, p[2]>>]>>]
  OBVIOUS
<1>3. ASSUME NEW n \in Nat, NEW t \in T
      PROVE  <<n, t>> \in S /\ G[<<n, t>>] = <<n + 1, H[<<n + 1, t>>]>> /\ H[<<n + 1, t>>] \in T
  <2>1. PICK m \in Nat : m = n + 1
    OBVIOUS
  <2>2. <<m, t>> \in Nat \X T
    OBVIOUS
  <2>3. H[<<m, t>>] \in T
    BY <2>2
  <2>4. <<n, t>> \in S
    BY <1>1
  <2>5. PICK p \in S : p = <<n, t>> /\ p[1] = n /\ p[2] = t
    BY <2>4
  <2>6. G[p] = <<p[1] + 1, H[<<p[1] + 1, p[2]>>]>>
    BY <1>2
  <2> QED
    BY <2>1, <2>3, <2>4, <2>5, <2>6
<1>4. G \in [S -> S]
  <2>1. ASSUME NEW p \in S
        PROVE  G[p] \in S
    <3>1. PICK n \in Nat, t \in T : p = <<n, t>>
      BY <1>1
    <3>2. G[p] = <<n + 1, H[<<n + 1, t>>]>> /\ H[<<n + 1, t>>] \in T
      BY <1>3, <3>1
    <3>3. PICK m \in Nat, u \in T : m = n + 1 /\ u = H[<<n + 1, t>>]
      BY <3>2
    <3>4. <<m, u>> \in S
      BY <1>1
    <3> QED
      BY <3>2, <3>3, <3>4
  <2> QED
    BY <1>2, <2>1
<1>5. PICK z \in S : z = <<0, x>>
  BY <1>3
<1>6. PICK e : Iteration(e, S, z, G)
  BY <1>4, Iterates, Zenon
<1>7. e \in [Nat -> S] /\ e[0] = z /\ \A n \in Nat : e[n + 1] = G[e[n]]
  BY <1>6 DEF Iteration
<1>8. \A n \in Nat : e[n] \in S
  BY <1>7
<1>9. \A n \in Nat : \E t \in T : e[n] = <<n, t>>
  <2> DEFINE N == {n \in Nat : \E t \in T : e[n] = <<n, t>>}
  <2>1. 0 \in N
    BY <1>5, <1>7
  <2>2. ASSUME NEW n \in Nat, n \in N
        PROVE  n + 1 \in N
    <3>1. PICK t \in T : e[n] = <<n, t>>
      BY <2>2
    <3>2. e[n + 1] = <<n + 1, H[<<n + 1, t>>]>> /\ H[<<n + 1, t>>] \in T
      BY <1>3, <1>7, <3>1
    <3>3. PICK u \in T : u = H[<<n + 1, t>>]
      BY <3>2
    <3>4. e[n + 1] = <<n + 1, u>>
      BY <3>2, <3>3
    <3> QED
      BY <3>4
  <2>3. \A n \in Nat : n \in N
    <3> HIDE DEF N
    <3> QED
      BY <2>1, <2>2, AllNumbers
  <2> QED
    BY <2>3
<1>10. PICK f : f = [n \in Nat |-> e[n][2]]
  OBVIOUS
<1>11. \A n \in Nat : f[n] \in T /\ e[n] = <<n, f[n]>>
  <2>1. SUFFICES ASSUME NEW n \in Nat
                 PROVE  f[n] \in T /\ e[n] = <<n, f[n]>>
    OBVIOUS
  <2>2. PICK t \in T : e[n] = <<n, t>>
    BY <1>9
  <2>3. f[n] = t
    BY <1>10, <2>2
  <2> QED
    BY <2>2, <2>3
<1>12. f[0] = x
  BY <1>5, <1>7, <1>10
<1>13. ASSUME NEW n \in Nat
       PROVE  f[n + 1] = H[<<n + 1, f[n]>>]
  <2>1. PICK t \in T : t = f[n] /\ e[n] = <<n, t>>
    BY <1>11
  <2>2. e[n + 1] = <<n + 1, H[<<n + 1, t>>]>>
    BY <1>3, <1>7, <2>1
  <2>3. PICK m \in Nat, u \in T : m = n + 1 /\ u = H[<<n + 1, t>>]
    BY <1>3
  <2>4. e[m] = <<m, u>>
    BY <2>2, <2>3
  <2>5. f[m] = u
    BY <1>10, <2>4
  <2> QED
    BY <2>1, <2>3, <2>5
<1>14. f \in [Nat -> T]
  BY <1>10, <1>11
<1>15. Stepwise(f, T, x, H)
  BY <1>12, <1>13, <1>14 DEF Stepwise
<1> QED
  BY <1>15

-----------------------------------------------------------------------------
(* The lists of the definition, resolved.                                  *)

\* The elements of a finite set have the ranks from 0 on.
LEMMA RanksAreTaken ==
  ASSUME NEW s \in SUBSET Nat, IsFiniteSet(s), NEW k \in 1 .. Cardinality(s)
  PROVE  \E x \in s : Cardinality(Smaller(s, x)) = k - 1
<1>1. PICK n \in Nat : n = Cardinality(s)
  BY FS_CardinalityType
<1>2. \A x \in s : Smaller(s, x) \in SUBSET s /\ x \notin Smaller(s, x)
  BY DEF Smaller
<1>3. ASSUME NEW b \in SUBSET s, NEW a \in SUBSET b, NEW x \in b, x \notin a
      PROVE  Cardinality(a) \in Nat /\ Cardinality(b) \in Nat /\ Cardinality(a) < Cardinality(b)
  <2>1. IsFiniteSet(b)
    BY FS_Subset
  <2>2. IsFiniteSet(a) /\ Cardinality(a) <= Cardinality(b) /\ (Cardinality(b) = Cardinality(a) => b = a)
    BY <2>1, FS_Subset
  <2>3. Cardinality(a) \in Nat /\ Cardinality(b) \in Nat
    BY <2>1, <2>2, FS_CardinalityType
  <2> QED
    BY <1>3, <2>2, <2>3
<1>4. PICK r : r = [x \in s |-> Cardinality(Smaller(s, x))]
  OBVIOUS
<1>5. \A x \in s : r[x] \in 0 .. n - 1
  <2>1. SUFFICES ASSUME NEW x \in s
                 PROVE  r[x] \in 0 .. n - 1
    OBVIOUS
  <2>2. Cardinality(Smaller(s, x)) \in Nat /\ Cardinality(Smaller(s, x)) < n
    BY <1>1, <1>2, <1>3
  <2> QED
    BY <1>4, <2>2
<1>6. ASSUME NEW x \in s, NEW z \in s, x < z
      PROVE  r[x] # r[z]
  <2>1. \A y \in Nat : y < x => y < z
    BY <1>6
  <2>2. Smaller(s, x) \in SUBSET Smaller(s, z) /\ x \in Smaller(s, z) /\ x \notin Smaller(s, x)
    <3>1. \A y \in s : y \in Nat
      OBVIOUS
    <3>2. \A y \in s : y < x => y < z
      BY <2>1, <3>1
    <3> QED
      BY <1>2, <1>6, <3>2 DEF Smaller
  <2>3. PICK a, b : a = Smaller(s, x) /\ b = Smaller(s, z)
    OBVIOUS
  <2>4. Cardinality(a) \in Nat /\ Cardinality(b) \in Nat /\ Cardinality(a) < Cardinality(b)
    BY <1>2, <1>3, <2>2, <2>3
  <2>5. r[x] = Cardinality(a) /\ r[z] = Cardinality(b)
    BY <1>4, <2>3
  <2> QED
    BY <2>4, <2>5
<1>7. r \in Injection(s, 0 .. n - 1)
  <2>1. r \in [s -> 0 .. n - 1]
    BY <1>4, <1>5
  <2>2. \A x, z \in s : x # z => x < z \/ z < x
    OBVIOUS
  <2>3. \A x, z \in s : r[x] = r[z] => x = z
    BY <1>6, <2>2
  <2>4. IsInjective(r)
    BY <2>1, <2>3 DEF IsInjective
  <2> QED
    BY <2>1, <2>4 DEF Injection
<1>8. PICK T : T = 0 .. n - 1
  OBVIOUS
<1>9. IsFiniteSet(T) /\ Cardinality(T) = Cardinality(s)
  <2>1. PICK m \in Int : m = n - 1
    OBVIOUS
  <2>2. IsFiniteSet(0 .. m) /\ Cardinality(0 .. m) = IF 0 <= m THEN m - 0 + 1 ELSE 0
    BY FS_Interval
  <2>3. (IF 0 <= m THEN m - 0 + 1 ELSE 0) = n
    BY <2>1
  <2> QED
    BY <1>1, <1>8, <2>1, <2>2, <2>3
<1>10. r \in Surjection(s, T)
  BY <1>7, <1>8, <1>9, FS_Injection
<1>11. \E x \in s : r[x] = k - 1
  <2>1. k - 1 \in T
    BY <1>1, <1>8
  <2> QED
    BY <1>10, <2>1 DEF Surjection
<1> QED
  BY <1>4, <1>11

LEMMA AscendingLists ==
  ASSUME NEW s \in SUBSET Nat, IsFiniteSet(s)
  PROVE  Ascending(s) \in Seq(s) /\ IsInjective(Ascending(s))
<1>1. PICK n \in Nat : n = Cardinality(s)
  BY FS_CardinalityType
<1>2. \A k \in 1 .. n : \E x \in s : Cardinality(Smaller(s, x)) = k - 1
  BY <1>1, RanksAreTaken
<1>3. PICK list : list = Ascending(s)
  OBVIOUS
<1>4. list = [k \in 1 .. n |-> CHOOSE x \in s : Cardinality(Smaller(s, x)) = k - 1]
  BY <1>1, <1>3 DEF Ascending
<1>5. \A k \in 1 .. n : list[k] \in s /\ Cardinality(Smaller(s, list[k])) = k - 1
  BY <1>2, <1>4
<1>6. list \in [1 .. n -> s]
  BY <1>4, <1>5
<1>7. list \in Seq(s)
  BY <1>6
<1>8. ASSUME NEW i \in 1 .. n, NEW j \in 1 .. n, list[i] = list[j]
      PROVE  i = j
  <2>1. i - 1 = j - 1
    BY <1>5, <1>8
  <2> QED
    BY <2>1
<1> QED
  BY <1>3, <1>6, <1>7, <1>8 DEF IsInjective

LEMMA DefinitionIsTable ==
  ASSUME defs \in Definitions
  PROVE  /\ Len(defs) \in Nat /\ DOMAIN defs = 1 .. Len(defs)
         /\ DOMAIN defs \in SUBSET Nat /\ IsFiniteSet(DOMAIN defs)
         /\ \A a \in DOMAIN defs :
              /\ DOMAIN defs[a] = {"name", "section", "short", "implicit"} \cup Dependencies
              /\ defs[a].implicit \in BOOLEAN
              /\ \A d \in Dependencies : IsList(defs[a][d])
<1>1. IsList(defs)
  BY DefinitionsAreTables
<1>2. PICK n \in Nat : n = Len(defs) /\ DOMAIN defs = 1 .. n
  BY <1>1 DEF IsList
<1>3. IsFiniteSet(1 .. n)
  BY FS_Interval
<1> QED
  BY <1>2, <1>3, DefinitionsAreTables

LEMMA NamedAreActions ==
  ASSUME defs \in Definitions, NEW name
  PROVE  /\ Named(name) \in SUBSET DOMAIN defs
         /\ Ascending(Named(name)) \in Seq(DOMAIN defs)
         /\ Ascending(Named(name)) \in Seq(Named(name))
         /\ IsInjective(Ascending(Named(name)))
<1>1. PICK s, D : s = Named(name) /\ D = DOMAIN defs
  OBVIOUS
<1>2. s \in SUBSET D /\ s \in SUBSET Nat /\ IsFiniteSet(s)
  <2>1. s \in SUBSET D
    BY <1>1 DEF Named
  <2> QED
    BY <1>1, <2>1, DefinitionIsTable, FS_Subset
<1>3. Ascending(s) \in Seq(s) /\ IsInjective(Ascending(s))
  BY <1>2, AscendingLists
<1>4. Ascending(s) \in Seq(D)
  <2>1. PICK q \in Seq(s) : q = Ascending(s)
    BY <1>3
  <2>2. \A k \in 1 .. Len(q) : q[k] \in D
    <3>1. \A k \in 1 .. Len(q) : q[k] \in s
      OBVIOUS
    <3>2. \A x \in s : x \in D
      BY <1>2, Zenon
    <3> QED
      BY <3>1, <3>2, Zenon
  <2>3. q \in Seq(D)
    BY <2>2
  <2> QED
    BY <2>1, <2>3
<1> QED
  BY <1>1, <1>2, <1>3, <1>4

\* The function inside Resolved, unfolded.
Unfolded(upTo, names) ==
  /\ upTo \in [0 .. Len(names) -> Seq(DOMAIN defs)]
  /\ upTo[0] = <<>>
  /\ \A k \in 1 .. Len(names) : upTo[k] = upTo[k - 1] \o Ascending(Named(names[k]))
  /\ Resolved(names) = upTo[Len(names)]

LEMMA ResolvedBySteps ==
  ASSUME defs \in Definitions, NEW names, IsList(names)
  PROVE  \E upTo : Unfolded(upTo, names)
<1>1. PICK n \in Nat, D \in {DOMAIN defs} : n = Len(names) /\ D = DOMAIN defs
  BY DEF IsList
<1>2. PICK p \in [1 .. n -> Seq(D)] : \A k \in 1 .. n : p[k] = Ascending(Named(names[k]))
  <2> DEFINE p == [k \in 1 .. n |-> Ascending(Named(names[k]))]
  <2>1. p \in [1 .. n -> Seq(D)]
    BY <1>1, NamedAreActions
  <2> QED
    BY <2>1
<1>3. PICK H \in [Nat \X Seq(D) -> Seq(D)] :
        \A k \in Nat : \A q \in Seq(D) : H[<<k, q>>] = IF k \in 1 .. n THEN q \o p[k] ELSE q
  <2> DEFINE H == [x \in Nat \X Seq(D) |-> IF x[1] \in 1 .. n THEN x[2] \o p[x[1]] ELSE x[2]]
  <2>1. ASSUME NEW x \in Nat \X Seq(D)
        PROVE  H[x] \in Seq(D)
    <3>1. x[2] \in Seq(D)
      OBVIOUS
    <3>2. CASE x[1] \in 1 .. n
      <4>1. p[x[1]] \in Seq(D)
        BY <3>2
      <4>2. x[2] \o p[x[1]] \in Seq(D)
        BY <3>1, <4>1
      <4> QED
        BY <3>2, <4>2
    <3> QED
      BY <3>1, <3>2
  <2>2. H \in [Nat \X Seq(D) -> Seq(D)]
    BY <2>1
  <2>3. ASSUME NEW k \in Nat, NEW q \in Seq(D)
        PROVE  H[<<k, q>>] = IF k \in 1 .. n THEN q \o p[k] ELSE q
    <3>0. <<k, q>> \in Nat \X Seq(D)
      OBVIOUS
    <3>1. PICK x \in Nat \X Seq(D) : x = <<k, q>> /\ x[1] = k /\ x[2] = q
      BY <3>0
    <3>2. H[x] = IF x[1] \in 1 .. n THEN x[2] \o p[x[1]] ELSE x[2]
      OBVIOUS
    <3> QED
      BY <3>1, <3>2, Zenon
  <2> HIDE DEF H
  <2> QED
    BY <2>2, <2>3
<1>4. PICK f : Stepwise(f, Seq(D), <<>>, H)
  <2>1. PICK T, x : T = Seq(D) /\ x = <<>>
    OBVIOUS
  <2>2. x \in T /\ H \in [Nat \X T -> T]
    BY <2>1
  <2>3. \E f : Stepwise(f, T, x, H)
    BY <2>2, StepwiseExist, Zenon
  <2> QED
    BY <2>1, <2>3, Zenon
<1>5. f \in [Nat -> Seq(D)] /\ f[0] = <<>> /\ \A m \in Nat : f[m + 1] = H[<<m + 1, f[m]>>]
  BY <1>4 DEF Stepwise
<1>6. ASSUME NEW k \in 1 .. n
      PROVE  f[k] = f[k - 1] \o Ascending(Named(names[k]))
  <2>1. PICK m \in Nat : m = k - 1 /\ m + 1 = k
    OBVIOUS
  <2>2. f[k] = H[<<k, f[m]>>] /\ f[m] \in Seq(D)
    BY <1>5, <2>1
  <2>3. f[k] = f[m] \o p[k]
    <3>1. PICK q \in Seq(D) : q = f[m]
      BY <2>2
    <3>2. k \in Nat
      OBVIOUS
    <3>3. H[<<k, q>>] = q \o p[k]
      BY <1>3, <3>2
    <3> QED
      BY <2>2, <3>1, <3>3, Zenon
  <2> QED
    BY <1>2, <2>1, <2>3, Zenon
<1> DEFINE upTo[k \in 0 .. Len(names)] ==
             IF k = 0 THEN <<>> ELSE upTo[k - 1] \o Ascending(Named(names[k]))
<1>7. PICK e : e = [k \in 0 .. Len(names) |-> f[k]]
  OBVIOUS
<1>8. ASSUME NEW k \in 0 .. n
      PROVE  e[k] = IF k = 0 THEN <<>> ELSE e[k - 1] \o Ascending(Named(names[k]))
  <2>1. CASE k = 0
    BY <1>1, <1>5, <1>7, <2>1
  <2>2. CASE k # 0
    <3>1. k \in 1 .. n /\ k - 1 \in 0 .. n
      BY <2>2
    <3>2. e[k] = f[k] /\ e[k - 1] = f[k - 1]
      BY <1>1, <1>7, <3>1
    <3> QED
      BY <1>6, <2>2, <3>1, <3>2, Zenon
  <2> QED
    BY <2>1, <2>2
<1>9. e = [k \in 0 .. Len(names) |-> IF k = 0 THEN <<>> ELSE e[k - 1] \o Ascending(Named(names[k]))]
  <2>1. \A k \in 0 .. Len(names) : e[k] = IF k = 0 THEN <<>> ELSE e[k - 1] \o Ascending(Named(names[k]))
    BY <1>1, <1>8, Zenon
  <2> QED
    BY <1>7, <2>1
<1>10. upTo = [k \in 0 .. Len(names) |-> IF k = 0 THEN <<>> ELSE upTo[k - 1] \o Ascending(Named(names[k]))]
  BY <1>9, Zenon
<1>11. Resolved(names) = upTo[Len(names)]
  BY DEF Resolved
<1> HIDE DEF upTo
<1>12. upTo[0] = <<>>
  BY <1>1, <1>10
<1>13. ASSUME NEW k \in 1 .. n
       PROVE  upTo[k] = upTo[k - 1] \o Ascending(Named(names[k]))
  <2>1. k \in 0 .. Len(names) /\ k # 0
    BY <1>1
  <2> QED
    BY <1>10, <2>1
<1>14. \A k \in Nat : k <= n => upTo[k] = f[k]
  <2> DEFINE T == {k \in Nat : k <= n => upTo[k] = f[k]}
  <2>1. 0 \in T
    BY <1>5, <1>12
  <2>2. ASSUME NEW m \in Nat, m \in T
        PROVE  m + 1 \in T
    <3>1. SUFFICES ASSUME m + 1 <= n
                   PROVE  upTo[m + 1] = f[m + 1]
      OBVIOUS
    <3>2. PICK k \in 1 .. n : k = m + 1 /\ k - 1 = m
      BY <3>1
    <3>3. upTo[m] = f[m]
      BY <2>2, <3>1
    <3>4. upTo[k] = f[k]
      BY <1>6, <1>13, <3>2, <3>3, Zenon
    <3> QED
      BY <3>2, <3>4
  <2>3. \A k \in Nat : k \in T
    <3> HIDE DEF T
    <3> QED
      BY <2>1, <2>2, AllNumbers
  <2> QED
    BY <2>3
<1>15. upTo \in [0 .. n -> Seq(D)]
  <2>1. \A k \in 0 .. n : upTo[k] \in Seq(D)
    BY <1>5, <1>14
  <2>2. upTo = [k \in 0 .. n |-> upTo[k]]
    BY <1>1, <1>10
  <2> QED
    BY <2>1, <2>2
<1>16. Unfolded(upTo, names)
  BY <1>1, <1>11, <1>12, <1>13, <1>15 DEF Unfolded
<1> QED
  BY <1>16

LEMMA JoinedIsInjective ==
  ASSUME NEW S, NEW s \in Seq(S), NEW t \in Seq(S), IsInjective(s), IsInjective(t),
         \A i \in 1 .. Len(s) : \A j \in 1 .. Len(t) : s[i] # t[j]
  PROVE  IsInjective(s \o t)
<1>1. PICK l \in Nat, m \in Nat : l = Len(s) /\ m = Len(t)
  OBVIOUS
<1>2. PICK r \in Seq(S) : r = s \o t
  <2>1. s \o t \in Seq(S)
    OBVIOUS
  <2> QED
    BY <2>1, Zenon
<1>3. Len(r) = l + m /\ DOMAIN r = 1 .. l + m
  BY <1>1, <1>2
<1>4. \A i \in 1 .. l + m : r[i] = IF i <= l THEN s[i] ELSE t[i - l]
  BY <1>1, <1>2
<1>5. /\ \A i, j \in 1 .. l : s[i] = s[j] => i = j
      /\ \A i, j \in 1 .. m : t[i] = t[j] => i = j
      /\ \A i \in 1 .. l : \A j \in 1 .. m : s[i] # t[j]
  <2>1. DOMAIN s = 1 .. l /\ DOMAIN t = 1 .. m
    BY <1>1
  <2> QED
    BY <1>1, <2>1, Zenon DEF IsInjective
<1>6. ASSUME NEW i \in 1 .. l + m, NEW j \in 1 .. l + m, r[i] = r[j]
      PROVE  i = j
  <2>1. CASE i <= l /\ j <= l
    BY <1>4, <1>5, <1>6, <2>1
  <2>2. CASE i <= l /\ ~(j <= l)
    BY <1>4, <1>5, <1>6, <2>2
  <2>3. CASE ~(i <= l) /\ j <= l
    BY <1>4, <1>5, <1>6, <2>3
  <2>4. CASE ~(i <= l) /\ ~(j <= l)
    <3>1. i - l \in 1 .. m /\ j - l \in 1 .. m /\ t[i - l] = t[j - l]
      BY <1>4, <1>6, <2>4
    <3>2. i - l = j - l
      BY <1>5, <3>1
    <3> QED
      BY <3>2
  <2> QED
    BY <2>1, <2>2, <2>3, <2>4
<1> QED
  BY <1>2, <1>3, <1>6 DEF IsInjective

LEMMA ResolvedAreActions ==
  ASSUME defs \in Definitions, NEW names, IsList(names)
  PROVE  Resolved(names) \in Seq(DOMAIN defs)
<1>1. PICK upTo : Unfolded(upTo, names)
  BY ResolvedBySteps, Zenon
<1> QED
  BY <1>1 DEF Unfolded, IsList

\* Names that stand for different actions are resolved without a repetition.
LEMMA ResolvedIsInjective ==
  ASSUME defs \in Definitions, NEW names, IsList(names),
         \A j, k \in DOMAIN names : j # k => Named(names[j]) \cap Named(names[k]) = {}
  PROVE  IsInjective(Resolved(names))
<1>1. PICK n \in Nat : n = Len(names) /\ DOMAIN names = 1 .. n
  BY DEF IsList
<1>2. PICK u : Unfolded(u, names)
  BY ResolvedBySteps, Zenon
<1>3. /\ u \in [0 .. n -> Seq(DOMAIN defs)]
      /\ u[0] = <<>>
      /\ \A k \in 1 .. n : u[k] = u[k - 1] \o Ascending(Named(names[k]))
      /\ Resolved(names) = u[n]
  BY <1>1, <1>2 DEF Unfolded
<1> DEFINE From(k) == \A i \in 1 .. Len(u[k]) : \E j \in 1 .. k : u[k][i] \in Named(names[j])
           T == {k \in Nat : k <= n => IsInjective(u[k]) /\ From(k)}
<1>4. 0 \in T
  BY <1>3 DEF IsInjective
<1>5. ASSUME NEW m \in Nat, m \in T
      PROVE  m + 1 \in T
  <2>1. SUFFICES ASSUME m + 1 <= n
                 PROVE  IsInjective(u[m + 1]) /\ From(m + 1)
    OBVIOUS
  <2>2. PICK k \in 1 .. n : k = m + 1 /\ k - 1 = m
    BY <2>1
  <2>3. PICK s \in Seq(DOMAIN defs), t \in Seq(DOMAIN defs) : s = u[m] /\ t = Ascending(Named(names[k]))
    BY <1>3, <2>1, NamedAreActions
  <2>4. u[k] = s \o t
    BY <1>3, <2>2, <2>3, Zenon
  <2>5. /\ IsInjective(s)
        /\ \A i \in 1 .. Len(s) : \E j \in 1 .. m : s[i] \in Named(names[j])
    <3>1. m <= n
      BY <2>1
    <3>2. IsInjective(u[m]) /\ From(m)
      BY <1>5, <3>1
    <3> QED
      BY <2>3, <3>2
  <2>6. /\ IsInjective(t)
        /\ \A i \in 1 .. Len(t) : t[i] \in Named(names[k])
    <3>1. t \in Seq(Named(names[k])) /\ IsInjective(t)
      BY <2>3, NamedAreActions
    <3> QED
      BY <3>1
  <2>7. ASSUME NEW i \in 1 .. Len(s), NEW j \in 1 .. Len(t)
        PROVE  s[i] # t[j]
    <3>1. PICK h \in 1 .. m : s[i] \in Named(names[h])
      BY <2>5
    <3>2. h \in DOMAIN names /\ k \in DOMAIN names /\ h # k
      BY <1>1, <2>2, <3>1
    <3>3. Named(names[h]) \cap Named(names[k]) = {}
      BY <3>2
    <3> QED
      BY <2>6, <3>1, <3>3
  <2>8. IsInjective(s \o t)
    BY <2>3, <2>5, <2>6, <2>7, JoinedIsInjective
  <2>9. ASSUME NEW i \in 1 .. Len(s \o t)
        PROVE  \E j \in 1 .. k : (s \o t)[i] \in Named(names[j])
    <3>1. PICK a \in Nat, b \in Nat : a = Len(s) /\ b = Len(t)
      BY <2>3
    <3>2. i \in 1 .. a + b /\ (s \o t)[i] = IF i <= a THEN s[i] ELSE t[i - a]
      <4>1. i \in 1 .. a + b
        BY <3>1
      <4> QED
        BY <3>1, <4>1
    <3>3. CASE i <= a
      <4>1. i \in 1 .. Len(s) /\ (s \o t)[i] = s[i]
        BY <3>1, <3>2, <3>3
      <4>2. PICK j \in 1 .. m : s[i] \in Named(names[j])
        BY <2>5, <4>1
      <4>3. j \in 1 .. k
        BY <2>2, <4>2
      <4> QED
        BY <4>1, <4>2, <4>3
    <3>4. CASE ~(i <= a)
      <4>1. i - a \in 1 .. Len(t) /\ (s \o t)[i] = t[i - a]
        BY <3>1, <3>2, <3>4
      <4>2. k \in 1 .. k
        OBVIOUS
      <4> QED
        BY <2>6, <4>1, <4>2
    <3> QED
      BY <3>3, <3>4
  <2> QED
    BY <2>2, <2>4, <2>8, <2>9
<1>6. \A k \in Nat : k \in T
  <2> HIDE DEF T
  <2> QED
    BY <1>4, <1>5, AllNumbers
<1>7. IsInjective(u[n])
  BY <1>6
<1> QED
  BY <1>3, <1>7

LEMMA UniqueIsInjective ==
  ASSUME NEW D, NEW g \in [D -> Seq(D)], NEW a \in D
  PROVE  Cardinality(Children(g, a)) = Len(g[a]) <=> IsInjective(g[a])
<1>1. PICK s \in Seq(D) : s = g[a]
  OBVIOUS
<1>2. PICK n \in Nat : n = Len(s) /\ DOMAIN s = 1 .. n
  OBVIOUS
<1>3. PICK S, T : S = 1 .. n /\ T = Children(g, a)
  OBVIOUS
<1>4. IsFiniteSet(S) /\ Cardinality(S) = n
  BY <1>3, FS_Interval
<1>5. s \in Surjection(S, T)
  <2>1. T = {s[k] : k \in S}
    BY <1>1, <1>2, <1>3 DEF Children
  <2>2. s \in [S -> T]
    BY <1>2, <1>3, <2>1
  <2> QED
    BY <2>1, <2>2 DEF Surjection
<1>6. Cardinality(T) = Cardinality(S) <=> s \in Injection(S, T)
  BY <1>4, <1>5, FS_Surjection
<1>7. s \in Injection(S, T) <=> IsInjective(s)
  BY <1>5 DEF Injection, Surjection
<1> QED
  BY <1>1, <1>2, <1>3, <1>4, <1>6, <1>7

-----------------------------------------------------------------------------
(* The inductive invariant.                                                *)

Passes ==
  {"names", "resolve", "unique", "cycles", "priorities", "implicit", "reduce",
   "accepted", "rejected", "overflow"}
After(p) ==
  CASE p = "unique" -> {"cycles", "priorities", "implicit", "reduce", "accepted", "overflow"}
    [] p = "cycles" -> {"priorities", "implicit", "reduce", "accepted", "overflow"}
    [] p = "priorities" -> {"implicit", "reduce", "accepted", "overflow"}
    [] p = "implicit" -> {"reduce", "accepted", "overflow"}

\* The lists of h are those of g without some that are implied by others.
Shortened(g, h) ==
  \A a \in DOMAIN g :
    /\ Reached(h)[a] = Reached(g)[a]
    /\ Children(h, a) \subseteq Children(g, a)
    /\ IsInjective(h[a])
    /\ InOrder(h[a], g[a])

\* The dependencies that have been looked at.
Seen(d, a, i) ==
  \/ pass = "accepted"
  \/ d = "runafter" /\ kind = "requires"
  \/ d = kind /\ (a < at \/ (a = at /\ i < child))

TableTyped ==
  /\ defs \in Definitions
  /\ pass \in Passes
  /\ kind \in {"runafter", "requires"}
  /\ at \in Nat \ {0} /\ child \in Nat \ {0}
  /\ pass \in After("implicit") => deps \in [Dependencies -> [DOMAIN defs -> Seq(DOMAIN defs)]]
NotBegun ==
  pass \notin After("implicit") => kind = "runafter" /\ at = 1 /\ child = 1
ListsAreResolved ==
  pass \in {"unique", "cycles", "priorities", "implicit"} => deps = Resolution
ListsAreUnique ==
  pass \in After("unique") =>
    \A d \in Dependencies : \A a \in DOMAIN defs : IsInjective(Declared(d)[a])
NoCycleSeen ==
  pass \in After("cycles") => ~RootedCycle(Declared("runafter")) /\ ~RootedCycle(Declared("requires"))
PrioritiesAreSet ==
  pass \in After("priorities") => priority = Priorities(Declared("runafter"))
NoneImplicit ==
  pass \in After("implicit") => \A a \in Required(Declared("requires")) : ~defs[a].implicit
Reducing ==
  pass \in {"reduce", "accepted"} =>
    \A d \in {"runafter", "requires"} : Acyclic(Declared(d)) =>
      /\ Shortened(Declared(d), deps[d])
      /\ \A a \in DOMAIN defs : \A i \in DOMAIN deps[d][a] :
           Seen(d, a, i) => Essential(deps[d], a, deps[d][a][i])
Making ==
  /\ TableTyped /\ NotBegun /\ ListsAreResolved /\ ListsAreUnique /\ NoCycleSeen
  /\ PrioritiesAreSet /\ NoneImplicit /\ Reducing /\ RejectedForCause

-----------------------------------------------------------------------------
(* One dependency less.                                                    *)

LEMMA RemovedAt ==
  ASSUME NEW S, NEW s \in Seq(S), NEW k \in 1 .. Len(s), NEW r, r = RemoveAt(s, k)
  PROVE  /\ r \in Seq(S)
         /\ Len(s) \in Nat \ {0} /\ Len(r) = Len(s) - 1
         /\ \A i \in 1 .. Len(s) - 1 : r[i] = IF i < k THEN s[i] ELSE s[i + 1]
<1>1. PICK n \in Nat : n = Len(s) /\ k \in 1 .. n
  OBVIOUS
<1>2. PICK p, q : p = SubSeq(s, 1, k - 1) /\ q = SubSeq(s, k + 1, n)
  OBVIOUS
<1>3. p \in Seq(S) /\ Len(p) = k - 1 /\ \A i \in 1 .. k - 1 : p[i] = s[i]
  <2>1. PICK m \in Nat : m = k - 1 /\ m <= n
    BY <1>1
  <2>2. p = SubSeq(s, 1, m)
    BY <1>2, <2>1
  <2>3. p = [i \in 1 .. m |-> s[i]]
    BY <1>1, <2>1, <2>2
  <2>4. \A i \in 1 .. m : s[i] \in S
    BY <1>1, <2>1
  <2>5. p \in Seq(S) /\ Len(p) = m
    BY <2>3, <2>4
  <2> QED
    BY <2>1, <2>3, <2>5
<1>4. q \in Seq(S) /\ Len(q) = n - k /\ \A i \in 1 .. n - k : q[i] = s[i + k]
  <2>1. PICK m \in Nat : m = n - k
    <3>1. n - k \in Nat
      BY <1>1
    <3> QED
      BY <3>1
  <2>2. q = [i \in 1 .. m |-> s[i + k]]
    <3>1. q = [i \in 1 .. m |-> s[(k + 1) + i - 1]]
      BY <1>1, <1>2, <2>1
    <3>2. \A i \in 1 .. m : (k + 1) + i - 1 = i + k
      BY <1>1, <2>1
    <3> QED
      BY <3>1, <3>2
  <2>3. \A i \in 1 .. m : s[i + k] \in S
    BY <1>1, <2>1
  <2>4. q \in Seq(S) /\ Len(q) = m
    BY <2>2, <2>3
  <2> QED
    BY <2>1, <2>2, <2>4
<1>5. r = p \o q
  BY <1>1, <1>2 DEF RemoveAt
<1>6. PICK l \in Nat, m \in Nat : l = Len(p) /\ m = Len(q) /\ l = k - 1 /\ m = n - k
  BY <1>1, <1>3, <1>4
<1>7. r \in Seq(S) /\ Len(r) = l + m
  <2>1. p \in Seq(S) /\ q \in Seq(S)
    BY <1>3, <1>4
  <2>2. p \o q \in Seq(S) /\ Len(p \o q) = Len(p) + Len(q)
    BY <2>1
  <2> QED
    BY <1>5, <1>6, <2>2
<1>8. \A i \in 1 .. l + m : r[i] = IF i <= l THEN p[i] ELSE q[i - l]
  BY <1>3, <1>4, <1>5, <1>6
<1>9. \A i \in 1 .. n - 1 : r[i] = IF i < k THEN s[i] ELSE s[i + 1]
  <2>1. SUFFICES ASSUME NEW i \in 1 .. n - 1
                 PROVE  r[i] = IF i < k THEN s[i] ELSE s[i + 1]
    OBVIOUS
  <2>2. r[i] = IF i <= l THEN p[i] ELSE q[i - l]
    BY <1>1, <1>6, <1>8
  <2>3. CASE i < k
    BY <1>3, <1>6, <2>2, <2>3
  <2>4. CASE ~(i < k)
    <3>1. r[i] = q[i - l] /\ i - l \in 1 .. n - k /\ (i - l) + k = i + 1
      BY <1>1, <1>6, <2>2, <2>4
    <3>2. q[i - l] = s[(i - l) + k]
      BY <1>4, <3>1
    <3> QED
      BY <2>4, <3>1, <3>2
  <2> QED
    BY <2>3, <2>4
<1> QED
  BY <1>1, <1>6, <1>7, <1>9

\* What is left of a list without repetitions.
Remaining(s, x, r) == \A y : (\E i \in DOMAIN r : y = r[i]) <=> (y # x /\ \E i \in DOMAIN s : y = s[i])

LEMMA RemovedFromList ==
  ASSUME NEW S, NEW s \in Seq(S), NEW k \in 1 .. Len(s), NEW r, r = RemoveAt(s, k),
         IsInjective(s)
  PROVE  /\ r \in Seq(S) /\ IsInjective(r)
         /\ Remaining(s, s[k], r)
         /\ \A i \in DOMAIN r : i < k => i \in DOMAIN s /\ r[i] = s[i]
         /\ \A t : InOrder(s, t) => InOrder(r, t)
<1>1. PICK n \in Nat : n = Len(s) /\ k \in 1 .. n
  OBVIOUS
<1>2. /\ r \in Seq(S) /\ Len(r) = n - 1
      /\ \A i \in 1 .. n - 1 : r[i] = IF i < k THEN s[i] ELSE s[i + 1]
  BY <1>1, RemovedAt
<1>3. DOMAIN s = 1 .. n /\ DOMAIN r = 1 .. n - 1
  BY <1>1, <1>2
<1>4. PICK up \in [1 .. n - 1 -> 1 .. n] : \A i \in 1 .. n - 1 : up[i] = IF i < k THEN i ELSE i + 1
  <2> DEFINE up == [i \in 1 .. n - 1 |-> IF i < k THEN i ELSE i + 1]
  <2>1. up \in [1 .. n - 1 -> 1 .. n]
    BY <1>1
  <2> QED
    BY <2>1
<1>5. \A i \in 1 .. n - 1 : r[i] = s[up[i]] /\ up[i] # k
  BY <1>1, <1>2, <1>4
<1>6. \A i, j \in 1 .. n - 1 : (i < j => up[i] < up[j]) /\ (up[i] = up[j] => i = j)
  BY <1>1, <1>4
<1>7. \A i, j \in 1 .. n : s[i] = s[j] => i = j
  BY <1>3 DEF IsInjective
<1>8. IsInjective(r)
  BY <1>3, <1>4, <1>5, <1>6, <1>7 DEF IsInjective
<1>9. ASSUME NEW j \in 1 .. n, j # k
      PROVE  \E i \in 1 .. n - 1 : up[i] = j
  <2>1. CASE j < k
    <3>1. j \in 1 .. n - 1
      BY <1>1, <2>1
    <3> QED
      BY <1>4, <2>1, <3>1
  <2>2. CASE ~(j < k)
    <3>1. j - 1 \in 1 .. n - 1 /\ ~(j - 1 < k) /\ (j - 1) + 1 = j
      BY <1>1, <1>9, <2>2
    <3> QED
      BY <1>4, <3>1
  <2> QED
    BY <2>1, <2>2
<1>10. \A x : (\E i \in DOMAIN r : x = r[i]) <=> (x # s[k] /\ \E i \in DOMAIN s : x = s[i])
  <2>1. ASSUME NEW i \in 1 .. n - 1
        PROVE  r[i] # s[k] /\ \E j \in 1 .. n : r[i] = s[j]
    <3>1. PICK j \in 1 .. n : j = up[i] /\ r[i] = s[j] /\ j # k
      BY <1>4, <1>5
    <3> QED
      BY <1>1, <1>7, <3>1
  <2>2. ASSUME NEW j \in 1 .. n, s[j] # s[k]
        PROVE  \E i \in 1 .. n - 1 : s[j] = r[i]
    <3>1. PICK i \in 1 .. n - 1 : up[i] = j
      BY <1>9, <2>2
    <3> QED
      BY <1>5, <3>1
  <2>3. \A x : (\E i \in 1 .. n - 1 : x = r[i]) => (x # s[k] /\ \E i \in 1 .. n : x = s[i])
    BY <2>1, Zenon
  <2>4. \A x : (x # s[k] /\ \E i \in 1 .. n : x = s[i]) => (\E i \in 1 .. n - 1 : x = r[i])
    BY <2>2, Zenon
  <2> QED
    BY <1>3, <2>3, <2>4, Zenon
<1>11. \A i \in DOMAIN r : i < k => i \in DOMAIN s /\ r[i] = s[i]
  BY <1>1, <1>2, <1>3
<1>12. ASSUME NEW t, InOrder(s, t)
       PROVE  InOrder(r, t)
  <2>1. \A i, j \in 1 .. n : i < j => \E a, b \in DOMAIN t : a < b /\ s[i] = t[a] /\ s[j] = t[b]
    BY <1>3, <1>12 DEF InOrder
  <2>2. ASSUME NEW i \in 1 .. n - 1, NEW j \in 1 .. n - 1, i < j
        PROVE  \E a, b \in DOMAIN t : a < b /\ r[i] = t[a] /\ r[j] = t[b]
    <3>1. up[i] \in 1 .. n /\ up[j] \in 1 .. n /\ up[i] < up[j]
      BY <1>4, <1>6, <2>2
    <3>2. \E a, b \in DOMAIN t : a < b /\ r[i] = t[a] /\ r[j] = t[b]
      <4>1. PICK x \in 1 .. n, y \in 1 .. n : x = up[i] /\ y = up[j] /\ x < y
        BY <3>1
      <4>2. PICK a \in DOMAIN t, b \in DOMAIN t : a < b /\ s[x] = t[a] /\ s[y] = t[b]
        BY <2>1, <4>1
      <4>3. r[i] = s[x] /\ r[j] = s[y]
        BY <1>5, <4>1
      <4> QED
        BY <4>2, <4>3
    <3> QED
      BY <3>2
  <2> QED
    BY <1>3, <2>2 DEF InOrder
<1> QED
  BY <1>2, <1>8, <1>10, <1>11, <1>12 DEF Remaining

LEMMA ListIsGraph ==
  ASSUME defs \in Definitions, NEW h \in [DOMAIN defs -> Seq(DOMAIN defs)]
  PROVE  IsGraph(h) /\ DOMAIN h = DOMAIN defs
BY DefinitionIsTable DEF IsGraph

\* The lists with one dependency of a less.
Shorter(h, a, k) == [h EXCEPT ![a] = RemoveAt(@, k)]
OneShorter(D, h, a, k, r) ==
  /\ r \in [D -> Seq(D)]
  /\ \A b \in D : b # a => r[b] = h[b]
  /\ r[a] = RemoveAt(h[a], k)

LEMMA RemovedFromGraph ==
  ASSUME NEW D, NEW h \in [D -> Seq(D)], NEW a \in D, NEW k \in DOMAIN h[a],
         NEW r, r = Shorter(h, a, k)
  PROVE  /\ OneShorter(D, h, a, k, r)
         /\ IsInjective(h[a]) => Without(h, a, h[a][k], r)
<1>1. PICK s \in Seq(D) : s = h[a]
  OBVIOUS
<1>2. k \in 1 .. Len(s)
  BY <1>1
<1>3. PICK q : q = RemoveAt(s, k)
  OBVIOUS
<1>4. q \in Seq(D)
  BY <1>2, <1>3, RemovedAt
<1>5. r = [h EXCEPT ![a] = q]
  BY <1>1, <1>3 DEF Shorter
<1>6. r \in [D -> Seq(D)] /\ r[a] = q /\ \A b \in D : b # a => r[b] = h[b]
  BY <1>4, <1>5
<1>7. ASSUME IsInjective(s)
      PROVE  Without(h, a, s[k], r)
  <2>1. \A x : (\E i \in DOMAIN q : x = q[i]) <=> (x # s[k] /\ \E i \in DOMAIN s : x = s[i])
    <3>1. Remaining(s, s[k], q)
      BY <1>2, <1>3, <1>7, RemovedFromList
    <3> QED
      BY <3>1 DEF Remaining
  <2>2. \A x : x \in Children(r, a) <=> \E i \in DOMAIN q : x = q[i]
    BY <1>6 DEF Children
  <2>3. \A x : x \in Children(h, a) <=> \E i \in DOMAIN s : x = s[i]
    BY <1>1 DEF Children
  <2>4. Children(r, a) = Children(h, a) \ {s[k]}
    BY <2>1, <2>2, <2>3
  <2>5. \A b \in D : b # a => Children(r, b) = Children(h, b)
    BY <1>6 DEF Children
  <2> QED
    BY <1>6, <2>4, <2>5 DEF Without
<1> QED
  BY <1>1, <1>3, <1>6, <1>7 DEF OneShorter

\* Dropping an implied dependency leaves the lists Shortened, those before it
\* where they are, and what was essential essential.
StillEssential(D, h, r, a, k) ==
  /\ \A b \in D : \A x : Essential(h, b, x) => Essential(r, b, x)
  /\ \A b \in D : b # a => r[b] = h[b]
  /\ \A i \in DOMAIN r[a] : i < k => i \in DOMAIN h[a] /\ r[a][i] = h[a][i]

LEMMA ShortenedFurther ==
  ASSUME NEW D, IsFiniteSet(D), NEW g \in [D -> Seq(D)], Acyclic(g),
         NEW h \in [D -> Seq(D)], Shortened(g, h),
         NEW a \in D, NEW k \in DOMAIN h[a],
         NEW c \in Children(h, a), c # h[a][k], h[a][k] \in Reached(h)[c],
         NEW r, r = Shorter(h, a, k)
  PROVE  Shortened(g, r) /\ StillEssential(D, h, r, a, k)
<1>1. IsGraph(g) /\ IsGraph(h) /\ DOMAIN g = D /\ DOMAIN h = D
  BY DEF IsGraph
<1>2. \A b \in D : /\ Reached(h)[b] = Reached(g)[b]
                   /\ Children(h, b) \subseteq Children(g, b)
                   /\ IsInjective(h[b])
                   /\ InOrder(h[b], g[b])
  BY <1>1 DEF Shortened
<1>3. Acyclic(h)
  BY <1>1, <1>2 DEF Acyclic
<1>4. PICK t : t = h[a][k]
  OBVIOUS
<1>5. /\ r \in [D -> Seq(D)]
      /\ \A b \in D : b # a => r[b] = h[b]
      /\ r[a] = RemoveAt(h[a], k)
      /\ Without(h, a, t, r)
  <2>1. IsInjective(h[a])
    BY <1>2
  <2>2. Without(h, a, h[a][k], r)
    BY <2>1, RemovedFromGraph
  <2>3. r \in [D -> Seq(D)] /\ (\A b \in D : b # a => r[b] = h[b]) /\ r[a] = RemoveAt(h[a], k)
    <3>1. OneShorter(D, h, a, k, r)
      BY RemovedFromGraph, Zenon
    <3> QED
      BY <3>1, Zenon DEF OneShorter
  <2> QED
    BY <1>4, <2>2, <2>3, Zenon
<1>6. IsGraph(r) /\ DOMAIN r = D
  BY <1>5 DEF IsGraph
<1>7. \A b \in D : Reached(r)[b] = Reached(h)[b]
  BY <1>1, <1>3, <1>4, <1>5, <1>6, ImpliedIsNotMissed
<1>8. \A b \in D : Children(r, b) \subseteq Children(h, b)
  BY <1>1, <1>5 DEF Without
<1>9. /\ IsInjective(r[a])
      /\ \A i \in DOMAIN r[a] : i < k => i \in DOMAIN h[a] /\ r[a][i] = h[a][i]
      /\ InOrder(r[a], g[a])
  <2>1. PICK s \in Seq(D), q \in Seq(D) : s = h[a] /\ q = r[a]
    BY <1>5
  <2>2. k \in 1 .. Len(s) /\ q = RemoveAt(s, k) /\ IsInjective(s) /\ InOrder(s, g[a])
    BY <1>2, <1>5, <2>1
  <2>3. /\ q \in Seq(D) /\ IsInjective(q)
        /\ \A i \in DOMAIN q : i < k => i \in DOMAIN s /\ q[i] = s[i]
        /\ \A u : InOrder(s, u) => InOrder(q, u)
    BY <2>1, <2>2, RemovedFromList
  <2> QED
    BY <2>1, <2>2, <2>3
<1>10. Shortened(g, r)
  <2>1. ASSUME NEW b \in D
        PROVE  /\ Reached(r)[b] = Reached(g)[b]
               /\ Children(r, b) \subseteq Children(g, b)
               /\ IsInjective(r[b])
               /\ InOrder(r[b], g[b])
    <3>1. Reached(r)[b] = Reached(g)[b] /\ Children(r, b) \subseteq Children(g, b)
      BY <1>2, <1>7, <1>8
    <3>2. IsInjective(r[b]) /\ InOrder(r[b], g[b])
      BY <1>2, <1>5, <1>9
    <3> QED
      BY <3>1, <3>2
  <2> QED
    BY <1>1, <2>1 DEF Shortened
<1>11. ASSUME NEW b \in D, NEW x, Essential(h, b, x)
       PROVE  Essential(r, b, x)
  <2>1. \A y \in Children(r, b) : y \in D
    BY <1>6, ChildrenAreActions
  <2> QED
    BY <1>7, <1>8, <1>11, <2>1 DEF Essential
<1>12. StillEssential(D, h, r, a, k)
  BY <1>5, <1>9, <1>11 DEF StillEssential
<1> QED
  BY <1>10, <1>12

LEMMA ReachedHasParent ==
  ASSUME NEW g, IsGraph(g), NEW a \in DOMAIN g, NEW b \in Reached(g)[a]
  PROVE  \E c \in DOMAIN g : b \in Children(g, c)
<1> DEFINE X == UNION {Children(g, c) : c \in DOMAIN g}
<1>1. \A x : x \in X <=> \E c \in DOMAIN g : x \in Children(g, c)
  OBVIOUS
<1>2. Children(g, a) \subseteq X /\ \A x \in X : x \in DOMAIN g => Children(g, x) \subseteq X
  BY <1>1
<1> HIDE DEF X
<1>3. Reached(g)[a] \subseteq X
  BY <1>2, ReachedIsLeast
<1> QED
  BY <1>1, <1>3

\* The answer remove_indirect_dependencies gets.
LEMMA AnswerIsRight ==
  ASSUME defs \in Definitions, NEW h \in [DOMAIN defs -> Seq(DOMAIN defs)], h = Lists,
         at \in DOMAIN defs, child \in DOMAIN h[at]
  PROVE  /\ Answer \in Answers
         /\ Answer = "yes" =>
              \E c \in Children(h, at) : c # h[at][child] /\ h[at][child] \in Reached(h)[c]
         /\ Answer = "no" => Essential(h, at, h[at][child])
<1>1. PICK q \in Seq(DOMAIN defs), t \in DOMAIN defs : q = h[at] /\ t = h[at][child]
  <2>1. h[at] \in Seq(DOMAIN defs)
    OBVIOUS
  <2>2. h[at][child] \in DOMAIN defs
    BY <2>1
  <2> QED
    BY <2>1, <2>2
<1>2. PICK K : K = Others
  OBVIOUS
<1>3. \A k : k \in K <=> k \in DOMAIN q /\ q[k] # t
  BY <1>1, <1>2 DEF Others, Target
<1>4. K \in SUBSET Nat
  <2>1. DOMAIN q = 1 .. Len(q) /\ Len(q) \in Nat
    OBVIOUS
  <2> QED
    BY <1>3, <2>1
<1>5. PICK f : f = [k \in K |-> Search(h, q[k], t)]
  OBVIOUS
<1>6. Answer = FirstAnswer(f)
  <2>1. Lists = h /\ Target = t /\ Lists[at] = q
    BY <1>1 DEF Target
  <2> QED
    BY <1>2, <1>5, <2>1, Zenon DEF Answer
<1>7. IsGraph(h) /\ DOMAIN h = DOMAIN defs
  BY ListIsGraph
<1>8. ASSUME NEW k \in K
      PROVE  /\ q[k] \in DOMAIN h
             /\ f[k] \in Answers
             /\ f[k] = "yes" => t \in Reached(h)[q[k]]
             /\ f[k] = "no" => t \notin Reached(h)[q[k]]
  <2>1. PICK c \in DOMAIN h : c = q[k] /\ c # t
    BY <1>3, <1>7
  <2>2. f[k] = Search(h, c, t)
    BY <1>5, <2>1
  <2>3. /\ Search(h, c, t) \in Answers
        /\ Search(h, c, t) = "yes" => c = t \/ t \in Reached(h)[c]
        /\ Search(h, c, t) = "no" => c # t /\ t \notin Reached(h)[c]
    BY <1>7, SearchIsRight
  <2> QED
    BY <2>1, <2>2, <2>3
<1>9. f \in [K -> Answers]
  BY <1>5, <1>8
<1>10. /\ FirstAnswer(f) \in Answers
       /\ FirstAnswer(f) = "yes" => \E k \in K : f[k] = "yes"
       /\ FirstAnswer(f) = "no" => \A k \in K : f[k] = "no"
  BY ONLY <1>4, <1>9, FirstAnswerTells, Zenon
<1>11. \A c : c \in Children(h, at) <=> \E k \in DOMAIN q : c = q[k]
  BY <1>1 DEF Children
<1>12. ASSUME Answer = "yes"
       PROVE  \E c \in Children(h, at) : c # t /\ t \in Reached(h)[c]
  <2>1. PICK k \in K : f[k] = "yes"
    BY <1>6, <1>10, <1>12
  <2> QED
    BY <1>3, <1>8, <1>11, <2>1
<1>13. ASSUME Answer = "no", NEW c \in Children(h, at), c # t
       PROVE  t \notin Reached(h)[c]
  <2>1. PICK k \in K : c = q[k]
    BY <1>3, <1>11, <1>13
  <2> QED
    BY <1>6, <1>8, <1>10, <1>13, <2>1
<1> QED
  BY <1>1, <1>6, <1>10, <1>12, <1>13 DEF Essential

-----------------------------------------------------------------------------
(* What depends on the definition alone stays.                             *)

LEMMA SameResolution ==
  ASSUME defs' = defs
  PROVE  Resolution' = Resolution /\ \A d : Declared(d)' = Declared(d)
<1>1. \A name : Named(name)' = Named(name)
  BY DEF Named
<1>2. \A names : Resolved(names)' = Resolved(names)
  BY DEF Resolved, Named
<1>3. Resolution' = Resolution
  BY <1>2 DEF Resolution
<1> QED
  BY <1>3 DEF Declared

LEMMA SameDefect ==
  ASSUME defs' = defs
  PROVE  Defect' <=> Defect
<1>1. \A d : Declared(d)' = Declared(d)
  BY SameResolution, Zenon
<1>2. \A d : Acyclic(Declared(d))' <=> Acyclic(Declared(d))
  BY <1>1, Zenon DEF Acyclic
<1> QED
  <2>1. (\E d \in {"runafter", "requires"} : ~Acyclic(Declared(d)))' <=> (\E d \in {"runafter", "requires"} : ~Acyclic(Declared(d)))
    BY <1>2
  <2> QED
    BY <1>1, <2>1 DEF Defect, Named

LEMMA ResolutionIsTyped ==
  ASSUME defs \in Definitions
  PROVE  /\ Resolution \in [Dependencies -> [DOMAIN defs -> Seq(DOMAIN defs)]]
         /\ \A d \in Dependencies :
              /\ Declared(d) \in [DOMAIN defs -> Seq(DOMAIN defs)]
              /\ IsGraph(Declared(d)) /\ DOMAIN Declared(d) = DOMAIN defs
              /\ \A a \in DOMAIN defs : Declared(d)[a] = Resolved(defs[a][d])
<1>1. \A d \in Dependencies : \A a \in DOMAIN defs : Resolved(defs[a][d]) \in Seq(DOMAIN defs)
  BY DefinitionIsTable, ResolvedAreActions
<1>2. Resolution \in [Dependencies -> [DOMAIN defs -> Seq(DOMAIN defs)]]
  BY <1>1 DEF Resolution
<1>3. ASSUME NEW d \in Dependencies
      PROVE  /\ Declared(d) \in [DOMAIN defs -> Seq(DOMAIN defs)]
             /\ IsGraph(Declared(d)) /\ DOMAIN Declared(d) = DOMAIN defs
             /\ \A a \in DOMAIN defs : Declared(d)[a] = Resolved(defs[a][d])
  <2>1. PICK g \in [DOMAIN defs -> Seq(DOMAIN defs)] : g = Declared(d)
    BY <1>2 DEF Declared
  <2>2. IsGraph(g) /\ DOMAIN g = DOMAIN defs
    BY ListIsGraph
  <2>3. \A a \in DOMAIN defs : Declared(d)[a] = Resolved(defs[a][d])
    BY DEF Declared, Resolution
  <2> QED
    BY <2>1, <2>2, <2>3
<1> QED
  BY <1>2, <1>3

LEMMA DefinitionStays ==
  ASSUME [TableNext]_tableVars
  PROVE  defs' = defs
BY DEF TableNext, tableVars, cursor, VerifyNames, Resolve, VerifyUnique, VerifyAcyclic, CalculatePriorities,
       VerifyRequires, Reduce, ReduceNext, ReduceRequires, Accept

\* A step of a pass before the reduction.
LEMMA EarlyStep ==
  ASSUME Making, defs' = defs, pass \notin After("implicit"), cursor' = cursor,
         pass' \in Passes, pass' \notin After("implicit")
  PROVE  TableTyped' /\ NotBegun' /\ NoneImplicit' /\ Reducing'
<1>1. kind' = kind /\ at' = at /\ child' = child
  BY DEF cursor
<1>2. pass' \notin {"reduce", "accepted", "overflow"}
  BY DEF After
<1>3. TableTyped'
  BY <1>1 DEF Making, TableTyped, After
<1>4. NotBegun'
  BY <1>1 DEF Making, NotBegun, After
<1>5. NoneImplicit' /\ Reducing'
  BY <1>2 DEF NoneImplicit, Reducing, After
<1> QED
  BY <1>3, <1>4, <1>5

\* A step of the reduction, or to its end.
LEMMA LaterStep ==
  ASSUME Making, defs' = defs, priority' = priority, pass = "reduce",
         pass' \in {"reduce", "accepted", "overflow"}
  PROVE  /\ NotBegun' /\ ListsAreResolved' /\ ListsAreUnique' /\ NoCycleSeen'
         /\ PrioritiesAreSet' /\ NoneImplicit' /\ RejectedForCause'
<1>1. \A d : Declared(d)' = Declared(d)
  BY SameResolution
<1>2. NotBegun' /\ ListsAreResolved' /\ RejectedForCause'
  BY DEF NotBegun, ListsAreResolved, RejectedForCause, After
<1>3. ListsAreUnique'
  BY <1>1 DEF Making, ListsAreUnique, After
<1>4. NoCycleSeen'
  <2>1. ~RootedCycle(Declared("runafter")) /\ ~RootedCycle(Declared("requires"))
    BY DEF Making, NoCycleSeen, After
  <2> QED
    BY <1>1, <2>1 DEF NoCycleSeen
<1>5. PrioritiesAreSet'
  <2>1. priority = Priorities(Declared("runafter"))
    BY DEF Making, PrioritiesAreSet, After
  <2> QED
    BY <1>1, <2>1 DEF PrioritiesAreSet
<1>6. NoneImplicit'
  <2>1. \A a \in Required(Declared("requires")) : ~defs[a].implicit
    BY DEF Making, NoneImplicit, After
  <2> QED
    BY <1>1, <2>1 DEF NoneImplicit
<1> QED
  BY <1>2, <1>3, <1>4, <1>5, <1>6

LEMMA NamesStep ==
  ASSUME Making, VerifyNames
  PROVE  Making'
<1>1. defs' = defs /\ pass = "names" /\ pass' \in {"resolve", "rejected"} /\ cursor' = cursor
  BY DEF VerifyNames
<1>2. TableTyped' /\ NotBegun' /\ NoneImplicit' /\ Reducing'
  BY <1>1, EarlyStep DEF Passes, After
<1>3. ListsAreResolved' /\ ListsAreUnique' /\ NoCycleSeen' /\ PrioritiesAreSet'
  BY <1>1 DEF ListsAreResolved, ListsAreUnique, NoCycleSeen, PrioritiesAreSet, After
<1>4. ASSUME pass' = "rejected"
      PROVE  Defect
  <2>1. ~Unambiguous
    BY <1>4 DEF VerifyNames
  <2>2. CASE \E a, b \in DOMAIN defs :
               a < b /\ (defs[a].name = defs[b].name \/ (defs[a].short = defs[b].short /\ defs[a].short # 0))
    <3>1. PICK a \in DOMAIN defs, b \in DOMAIN defs :
            a < b /\ (defs[a].name = defs[b].name \/ (defs[a].short = defs[b].short /\ defs[a].short # 0))
      BY <2>2
    <3>2. a # b
      BY <3>1, DefinitionIsTable DEF Making, TableTyped
    <3> QED
      BY <3>1, <3>2 DEF Defect
  <2>3. CASE \E a, b \in DOMAIN defs : a <= b /\ defs[a].section = defs[b].name
    BY <2>3 DEF Defect
  <2> QED
    BY <2>1, <2>2, <2>3 DEF Unambiguous
<1>5. RejectedForCause'
  BY <1>1, <1>4, SameDefect DEF RejectedForCause
<1> QED
  BY <1>2, <1>3, <1>5 DEF Making

LEMMA ResolveStep ==
  ASSUME Making, Resolve
  PROVE  Making'
<1>1. defs' = defs /\ pass = "resolve" /\ pass' \in {"unique", "rejected"} /\ cursor' = cursor
  BY DEF Resolve
<1>2. TableTyped' /\ NotBegun' /\ NoneImplicit' /\ Reducing'
  BY <1>1, EarlyStep DEF Passes, After
<1>3. ListsAreUnique' /\ NoCycleSeen' /\ PrioritiesAreSet'
  BY <1>1 DEF ListsAreUnique, NoCycleSeen, PrioritiesAreSet, After
<1>4. ListsAreResolved'
  <2>1. pass' = "unique" => deps' = Resolution
    BY DEF Resolve
  <2> QED
    BY <1>1, <2>1, SameResolution DEF ListsAreResolved
<1>5. ASSUME pass' = "rejected"
      PROVE  Defect
  <2>1. PICK a \in DOMAIN defs, d \in Dependencies : \E k \in DOMAIN defs[a][d] : Named(defs[a][d][k]) = {}
    BY <1>5 DEF Resolve
  <2> QED
    BY <2>1 DEF Defect
<1>6. RejectedForCause'
  BY <1>1, <1>5, SameDefect DEF RejectedForCause
<1> QED
  BY <1>2, <1>3, <1>4, <1>6 DEF Making

LEMMA UniqueStep ==
  ASSUME Making, VerifyUnique
  PROVE  Making'
<1>1. defs' = defs /\ pass = "unique" /\ pass' \in {"cycles", "rejected"} /\ cursor' = cursor /\ deps' = deps
  BY DEF VerifyUnique
<1>2. TableTyped' /\ NotBegun' /\ NoneImplicit' /\ Reducing'
  BY <1>1, EarlyStep DEF Passes, After
<1>3. NoCycleSeen' /\ PrioritiesAreSet'
  BY <1>1 DEF NoCycleSeen, PrioritiesAreSet, After
<1>4. deps = Resolution /\ \A d : deps[d] = Declared(d)
  BY <1>1 DEF Making, ListsAreResolved, Declared
<1>5. ListsAreResolved'
  BY <1>1, <1>4, SameResolution DEF ListsAreResolved
<1>6. defs \in Definitions
  BY DEF Making, TableTyped
<1>7. \A d \in Dependencies : \A a \in DOMAIN defs :
        Cardinality(Children(deps[d], a)) = Len(deps[d][a]) <=> IsInjective(Declared(d)[a])
  <2>1. SUFFICES ASSUME NEW d \in Dependencies, NEW a \in DOMAIN defs
                 PROVE  Cardinality(Children(deps[d], a)) = Len(deps[d][a]) <=> IsInjective(Declared(d)[a])
    OBVIOUS
  <2>2. PICK D, g : D = DOMAIN defs /\ g = Declared(d)
    OBVIOUS
  <2>3. g \in [D -> Seq(D)] /\ a \in D
    BY <1>6, <2>2, ResolutionIsTyped
  <2>4. Cardinality(Children(g, a)) = Len(g[a]) <=> IsInjective(g[a])
    BY <2>3, UniqueIsInjective
  <2> QED
    BY <1>4, <2>2, <2>4
<1>8. ListsAreUnique'
  <2>1. pass' = "cycles" => \A d \in Dependencies : \A a \in DOMAIN defs : IsInjective(Declared(d)[a])
    BY <1>7 DEF VerifyUnique
  <2> QED
    BY <1>1, <2>1, SameResolution DEF ListsAreUnique, After
<1>9. ASSUME pass' = "rejected"
      PROVE  Defect
  <2>1. PICK d \in Dependencies, a \in DOMAIN defs : ~IsInjective(Declared(d)[a])
    BY <1>7, <1>9 DEF VerifyUnique
  <2>2. PICK names : names = defs[a][d]
    OBVIOUS
  <2>3. IsList(names) /\ ~IsInjective(Resolved(names))
    BY <1>6, <2>1, <2>2, DefinitionIsTable, ResolutionIsTyped
  <2>4. PICK j \in DOMAIN names, k \in DOMAIN names : j # k /\ Named(names[j]) \cap Named(names[k]) # {}
    BY <1>6, <2>3, ResolvedIsInjective
  <2> QED
    BY <2>2, <2>4 DEF Defect
<1>10. RejectedForCause'
  BY <1>1, <1>9, SameDefect DEF RejectedForCause
<1> QED
  BY <1>2, <1>3, <1>5, <1>8, <1>10 DEF Making

LEMMA AcyclicStep ==
  ASSUME Making, VerifyAcyclic
  PROVE  Making'
<1>1. defs' = defs /\ pass = "cycles" /\ pass' \in {"priorities", "rejected"} /\ cursor' = cursor /\ deps' = deps
  BY DEF VerifyAcyclic
<1>2. TableTyped' /\ NotBegun' /\ NoneImplicit' /\ Reducing'
  BY <1>1, EarlyStep DEF Passes, After
<1>3. PrioritiesAreSet'
  BY <1>1 DEF PrioritiesAreSet, After
<1>4. deps = Resolution /\ \A d : deps[d] = Declared(d)
  BY <1>1 DEF Making, ListsAreResolved, Declared
<1>5. ListsAreResolved'
  BY <1>1, <1>4, SameResolution DEF ListsAreResolved
<1>6. ListsAreUnique'
  <2>1. \A d \in Dependencies : \A a \in DOMAIN defs : IsInjective(Declared(d)[a])
    BY <1>1 DEF Making, ListsAreUnique, After
  <2> QED
    BY <1>1, <2>1, SameResolution DEF ListsAreUnique
<1>7. pass' = IF RootedCycle(Declared("runafter")) \/ RootedCycle(Declared("requires"))
              THEN "rejected" ELSE "priorities"
  BY <1>4 DEF VerifyAcyclic
<1>8. NoCycleSeen'
  <2>1. pass' # "rejected" => ~RootedCycle(Declared("runafter")) /\ ~RootedCycle(Declared("requires"))
    BY <1>7
  <2> QED
    BY <1>1, <2>1, SameResolution DEF NoCycleSeen, After
<1>9. ASSUME pass' = "rejected"
      PROVE  Defect
  <2>1. PICK d \in {"runafter", "requires"} : RootedCycle(Declared(d))
    BY <1>7, <1>9
  <2>2. PICK g : g = Declared(d)
    OBVIOUS
  <2>3. IsGraph(g) /\ RootedCycle(g)
    BY <2>1, <2>2, ResolutionIsTyped DEF Making, TableTyped, Dependencies
  <2>4. PICK a \in Visited(g) : a \in Reached(g)[a]
    BY <2>3 DEF RootedCycle
  <2>5. a \in DOMAIN g
    BY <2>3, <2>4, ReachedIsClosed DEF Visited, Roots
  <2>6. ~Acyclic(g)
    BY <2>4, <2>5 DEF Acyclic
  <2> QED
    BY <2>2, <2>6 DEF Defect
<1>10. RejectedForCause'
  BY <1>1, <1>9, SameDefect DEF RejectedForCause
<1> QED
  BY <1>2, <1>3, <1>5, <1>6, <1>8, <1>10 DEF Making

LEMMA PrioritiesStep ==
  ASSUME Making, CalculatePriorities
  PROVE  Making'
<1>1. /\ defs' = defs /\ pass = "priorities" /\ pass' = "implicit" /\ cursor' = cursor /\ deps' = deps
      /\ priority' = Priorities(deps["runafter"])
  BY DEF CalculatePriorities
<1>2. TableTyped' /\ NotBegun' /\ NoneImplicit' /\ Reducing'
  BY <1>1, EarlyStep DEF Passes, After
<1>3. deps = Resolution /\ \A d : deps[d] = Declared(d)
  BY <1>1 DEF Making, ListsAreResolved, Declared
<1>4. ListsAreResolved'
  BY <1>1, <1>3, SameResolution DEF ListsAreResolved
<1>5. ListsAreUnique'
  <2>1. \A d \in Dependencies : \A a \in DOMAIN defs : IsInjective(Declared(d)[a])
    BY <1>1 DEF Making, ListsAreUnique, After
  <2> QED
    BY <1>1, <2>1, SameResolution DEF ListsAreUnique
<1>6. NoCycleSeen'
  <2>1. ~RootedCycle(Declared("runafter")) /\ ~RootedCycle(Declared("requires"))
    BY <1>1 DEF Making, NoCycleSeen, After
  <2> QED
    BY <1>1, <2>1, SameResolution DEF NoCycleSeen
<1>7. PrioritiesAreSet'
  BY <1>1, <1>3, SameResolution DEF PrioritiesAreSet
<1>8. RejectedForCause'
  BY <1>1 DEF RejectedForCause
<1> QED
  BY <1>2, <1>4, <1>5, <1>6, <1>7, <1>8 DEF Making

\* Nothing is dropped yet.
LEMMA AllDeclared ==
  ASSUME defs \in Definitions, NEW d \in Dependencies,
         \A a \in DOMAIN defs : IsInjective(Declared(d)[a])
  PROVE  Shortened(Declared(d), Declared(d))
<1>1. PICK g : g = Declared(d)
  OBVIOUS
<1>2. DOMAIN g = DOMAIN defs /\ \A a \in DOMAIN defs : IsInjective(g[a])
  BY <1>1, ResolutionIsTyped
<1>3. \A a \in DOMAIN g : InOrder(g[a], g[a])
  BY DEF InOrder
<1>4. Shortened(g, g)
  BY <1>2, <1>3 DEF Shortened
<1> QED
  BY <1>1, <1>4

LEMMA VerifyRequiresStep ==
  ASSUME Making, VerifyRequires
  PROVE  Making'
<1>1. /\ defs' = defs /\ pass = "implicit" /\ pass' \in {"reduce", "rejected"} /\ deps' = deps
      /\ kind' = kind /\ at' = at /\ child' = child /\ priority' = priority
  BY DEF VerifyRequires, cursor
<1>2. defs \in Definitions
  BY DEF Making, TableTyped
<1>3. kind = "runafter" /\ at = 1 /\ child = 1
  BY <1>1 DEF Making, NotBegun, After
<1>4. deps = Resolution /\ \A d : deps[d] = Declared(d)
  BY <1>1 DEF Making, ListsAreResolved, Declared
<1>5. \A d : Declared(d)' = Declared(d)
  BY <1>1, SameResolution
<1>6. TableTyped'
  <2>1. deps' \in [Dependencies -> [DOMAIN defs -> Seq(DOMAIN defs)]]
    BY <1>1, <1>2, <1>4, ResolutionIsTyped
  <2> QED
    BY <1>1, <1>3, <2>1, <1>2 DEF TableTyped, Passes
<1>7. NotBegun' /\ ListsAreResolved'
  BY <1>1, <1>3 DEF NotBegun, ListsAreResolved
<1>8. \A d \in Dependencies : \A a \in DOMAIN defs : IsInjective(Declared(d)[a])
  BY <1>1 DEF Making, ListsAreUnique, After
<1>9. ListsAreUnique'
  BY <1>1, <1>5, <1>8 DEF ListsAreUnique
<1>10. NoCycleSeen'
  <2>1. ~RootedCycle(Declared("runafter")) /\ ~RootedCycle(Declared("requires"))
    BY <1>1 DEF Making, NoCycleSeen, After
  <2> QED
    BY <1>5, <2>1 DEF NoCycleSeen
<1>11. PrioritiesAreSet'
  <2>1. priority = Priorities(Declared("runafter"))
    BY <1>1 DEF Making, PrioritiesAreSet, After
  <2> QED
    BY <1>1, <1>5, <2>1 DEF PrioritiesAreSet
<1>12. pass' = IF \E a \in Required(Declared("requires")) : defs[a].implicit THEN "rejected" ELSE "reduce"
  BY <1>4 DEF VerifyRequires
<1>13. NoneImplicit'
  <2>1. pass' # "rejected" => \A a \in Required(Declared("requires")) : ~defs[a].implicit
    BY <1>12
  <2> QED
    BY <1>1, <1>5, <2>1 DEF NoneImplicit, After
<1>14. Reducing'
  <2>1. SUFFICES ASSUME pass' # "rejected", NEW d \in {"runafter", "requires"}
                 PROVE  /\ Shortened(Declared(d), deps[d])'
                        /\ \A a \in DOMAIN defs : \A i \in DOMAIN deps[d][a] : ~Seen(d, a, i)'
    BY <1>1 DEF Reducing
  <2>2. Shortened(Declared(d), deps[d])'
    <3>1. Shortened(Declared(d), Declared(d))
      BY <1>2, <1>8, AllDeclared DEF Dependencies
    <3> QED
      BY <1>1, <1>4, <1>5, <3>1
  <2>3. ASSUME NEW a \in DOMAIN defs, NEW i \in DOMAIN deps[d][a]
        PROVE  ~Seen(d, a, i)'
    <3>1. PICK q \in Seq(DOMAIN defs) : q = deps[d][a]
      BY <1>2, <1>4, ResolutionIsTyped DEF Dependencies
    <3>2. i \in Nat /\ ~(i < 1)
      BY <3>1
    <3>3. a \in Nat /\ ~(a < 1)
      BY <1>2, DefinitionIsTable
    <3> QED
      BY <1>1, <1>3, <2>1, <3>2, <3>3 DEF Seen
  <2> QED
    BY <1>1, <2>2, <2>3
<1>15. ASSUME pass' = "rejected"
       PROVE  Defect
  <2>1. PICK b \in Required(Declared("requires")) : defs[b].implicit
    BY <1>12, <1>15
  <2>2. PICK g : g = Declared("requires")
    OBVIOUS
  <2>3. IsGraph(g) /\ DOMAIN g = DOMAIN defs
    BY <1>2, <2>2, ResolutionIsTyped DEF Dependencies
  <2>4. PICK r \in DOMAIN g : b \in Reached(g)[r]
    BY <2>1, <2>2 DEF Required, Roots
  <2>5. PICK a \in DOMAIN g : b \in Children(g, a)
    BY <2>3, <2>4, ReachedHasParent
  <2> QED
    BY <2>1, <2>2, <2>3, <2>5 DEF Defect
<1>16. RejectedForCause'
  BY <1>1, <1>15, SameDefect DEF RejectedForCause
<1> QED
  BY <1>6, <1>7, <1>9, <1>10, <1>11, <1>13, <1>14, <1>16 DEF Making

\* What the cursor says of what is left.
LEMMA CursorFacts ==
  ASSUME Making, pass = "reduce"
  PROVE  /\ defs \in Definitions
         /\ deps \in [Dependencies -> [DOMAIN defs -> Seq(DOMAIN defs)]]
         /\ Len(defs) \in Nat /\ DOMAIN defs = 1 .. Len(defs)
         /\ kind \in {"runafter", "requires"} /\ kind \in Dependencies
         /\ at \in Nat \ {0} /\ child \in Nat \ {0}
         /\ \A d \in {"runafter", "requires"} : Acyclic(Declared(d)) =>
              /\ Shortened(Declared(d), deps[d])
              /\ \A a \in DOMAIN defs : \A i \in DOMAIN deps[d][a] :
                   Seen(d, a, i) => Essential(deps[d], a, deps[d][a][i])
<1>1. defs \in Definitions
  BY DEF Making, TableTyped
<1> QED
  BY <1>1, DefinitionIsTable DEF Making, TableTyped, Reducing, After, Dependencies

LEMMA ReduceStep ==
  ASSUME Making, Reduce
  PROVE  Making'
<1>1. /\ pass = "reduce" /\ at <= Len(defs) /\ child <= Len(Lists[at])
      /\ defs' = defs /\ priority' = priority /\ kind' = kind /\ at' = at
  BY DEF Reduce
<1>2. /\ defs \in Definitions
      /\ deps \in [Dependencies -> [DOMAIN defs -> Seq(DOMAIN defs)]]
      /\ Len(defs) \in Nat /\ DOMAIN defs = 1 .. Len(defs)
      /\ kind \in {"runafter", "requires"} /\ kind \in Dependencies
      /\ at \in Nat \ {0} /\ child \in Nat \ {0}
  BY <1>1, CursorFacts
<1>3. \A d \in {"runafter", "requires"} : Acyclic(Declared(d)) =>
        /\ Shortened(Declared(d), deps[d])
        /\ \A a \in DOMAIN defs : \A i \in DOMAIN deps[d][a] :
             Seen(d, a, i) => Essential(deps[d], a, deps[d][a][i])
  BY <1>1, CursorFacts
<1>4. PICK D, h : D = DOMAIN defs /\ h = deps[kind]
  OBVIOUS
<1>5. h \in [D -> Seq(D)] /\ h = Lists /\ at \in D
  BY <1>1, <1>2, <1>4 DEF Lists
<1>6. child \in DOMAIN h[at]
  <2>1. PICK q \in Seq(D) : q = h[at]
    BY <1>5
  <2>2. child <= Len(q)
    BY <1>1, <1>5, <2>1
  <2> QED
    BY <1>2, <2>1, <2>2
<1>7. \A d : Declared(d)' = Declared(d)
  BY <1>1, SameResolution
<1>8. /\ Answer = "yes" =>
           \E c \in Children(h, at) : c # h[at][child] /\ h[at][child] \in Reached(h)[c]
      /\ Answer = "no" => Essential(h, at, h[at][child])
  BY <1>2, <1>4, <1>5, <1>6, AnswerIsRight
<1>9. CASE /\ Answer = "yes"
           /\ deps' = [deps EXCEPT ![kind][at] = RemoveAt(@, child)]
           /\ child' = NextAfterRemoval
           /\ UNCHANGED pass
  <2>1. child' = child /\ pass' = "reduce"
    BY <1>1, <1>9 DEF NextAfterRemoval
  <2>2. PICK r : r = Shorter(h, at, child)
    OBVIOUS
  <2>3. deps' = [deps EXCEPT ![kind] = r]
    BY <1>4, <1>9, <2>2 DEF Shorter
  <2>4. r \in [D -> Seq(D)]
    <3>1. OneShorter(D, h, at, child, r)
      BY <1>5, <1>6, <2>2, RemovedFromGraph
    <3> QED
      BY <3>1 DEF OneShorter
  <2>5. deps' \in [Dependencies -> [D -> Seq(D)]] /\ deps'[kind] = r
        /\ \A d \in Dependencies : d # kind => deps'[d] = deps[d]
    BY <1>2, <1>4, <2>3, <2>4
  <2>6. TableTyped'
    BY <1>1, <1>2, <1>4, <2>1, <2>5 DEF TableTyped, Passes
  <2>7. Reducing'
    <3>1. SUFFICES ASSUME NEW d \in {"runafter", "requires"}, Acyclic(Declared(d))
                   PROVE  /\ Shortened(Declared(d), deps'[d])
                          /\ \A a \in D : \A i \in DOMAIN deps'[d][a] :
                               Seen(d, a, i) => Essential(deps'[d], a, deps'[d][a][i])
      <4>1. \A d, a, i : Seen(d, a, i)' <=> Seen(d, a, i)
        BY <1>1, <2>1 DEF Seen
      <4> QED
        BY <1>1, <1>4, <1>7, <2>1, <4>1 DEF Reducing
    <3>2. CASE d # kind
      <4>1. deps'[d] = deps[d]
        BY <2>5, <3>2 DEF Dependencies
      <4> QED
        BY <1>3, <1>4, <3>1, <4>1
    <3>3. CASE d = kind
      <4>1. PICK g : g = Declared(d)
        OBVIOUS
      <4>2. /\ g \in [D -> Seq(D)] /\ IsFiniteSet(D) /\ Acyclic(g) /\ Shortened(g, h)
            /\ \A a \in D : \A i \in DOMAIN h[a] : Seen(d, a, i) => Essential(h, a, h[a][i])
        BY <1>2, <1>3, <1>4, <3>1, <3>3, <4>1, ResolutionIsTyped, DefinitionIsTable
      <4>3. PICK c \in Children(h, at) : c # h[at][child] /\ h[at][child] \in Reached(h)[c]
        BY <1>8, <1>9
      <4>4. Shortened(g, r) /\ StillEssential(D, h, r, at, child)
        BY <1>5, <1>6, <2>2, <4>2, <4>3, ShortenedFurther
      <4>5. ASSUME NEW a \in D, NEW i \in DOMAIN r[a], Seen(d, a, i)
            PROVE  Essential(r, a, r[a][i])
        <5>1. i \in DOMAIN h[a] /\ r[a][i] = h[a][i]
          <6>1. CASE a # at
            BY <4>4, <6>1 DEF StillEssential
          <6>2. CASE a = at
            <7>1. i < child
              BY <1>1, <1>2, <3>3, <4>5, <6>2 DEF Seen
            <7> QED
              BY <4>4, <6>2, <7>1 DEF StillEssential
          <6> QED
            BY <6>1, <6>2
        <5> QED
          BY <4>2, <4>4, <4>5, <5>1 DEF StillEssential
      <4> QED
        BY <2>5, <3>3, <4>1, <4>4, <4>5
    <3> QED
      BY <3>2, <3>3
  <2> QED
    BY <1>1, <2>1, <2>6, <2>7, LaterStep DEF Making
<1>10. CASE /\ Answer = "no"
            /\ child' = child + 1
            /\ UNCHANGED <<pass, deps>>
  <2>1. pass' = "reduce" /\ deps' = deps
    BY <1>1, <1>10
  <2>2. TableTyped'
    BY <1>1, <1>2, <1>10, <2>1 DEF TableTyped, Passes
  <2>3. Reducing'
    <3>1. SUFFICES ASSUME NEW d \in {"runafter", "requires"}, Acyclic(Declared(d)),
                          NEW a \in D, NEW i \in DOMAIN deps[d][a], Seen(d, a, i)'
                   PROVE  Essential(deps[d], a, deps[d][a][i])
      BY <1>1, <1>3, <1>4, <1>7, <2>1 DEF Reducing
    <3>2. Seen(d, a, i) \/ (d = kind /\ a = at /\ i = child)
      <4>1. PICK q \in Seq(D) : q = deps[d][a]
        BY <1>2, <1>4 DEF Dependencies
      <4>2. i \in Nat
        BY <4>1
      <4>3. i < child + 1 => i < child \/ i = child
        BY <1>2, <4>2
      <4> QED
        BY <1>1, <1>10, <2>1, <3>1, <4>3 DEF Seen
    <3> QED
      BY <1>3, <1>4, <1>8, <1>10, <3>1, <3>2
  <2> QED
    BY <1>1, <2>1, <2>2, <2>3, LaterStep DEF Making
<1>11. CASE /\ Answer = "overflow"
            /\ pass' = "overflow"
            /\ UNCHANGED <<deps, child>>
  <2>1. TableTyped'
    BY <1>1, <1>2, <1>11 DEF TableTyped, Passes
  <2>2. Reducing'
    BY <1>11 DEF Reducing
  <2> QED
    BY <1>1, <1>11, <2>1, <2>2, LaterStep DEF Making
<1> QED
  BY <1>9, <1>10, <1>11 DEF Reduce

\* The cursor moves on from what it has been at.
LEMMA MovingStep ==
  ASSUME Making, pass = "reduce", pass' \in {"reduce", "accepted"},
         defs' = defs, deps' = deps, priority' = priority,
         kind' \in {"runafter", "requires"}, at' \in Nat \ {0}, child' \in Nat \ {0},
         \A d \in {"runafter", "requires"} : \A a \in DOMAIN defs : \A i \in DOMAIN deps[d][a] :
           Seen(d, a, i)' => Seen(d, a, i)
  PROVE  Making'
<1>1. /\ defs \in Definitions
      /\ deps \in [Dependencies -> [DOMAIN defs -> Seq(DOMAIN defs)]]
      /\ \A d \in {"runafter", "requires"} : Acyclic(Declared(d)) =>
           /\ Shortened(Declared(d), deps[d])
           /\ \A a \in DOMAIN defs : \A i \in DOMAIN deps[d][a] :
                Seen(d, a, i) => Essential(deps[d], a, deps[d][a][i])
  BY CursorFacts
<1>2. \A d : Declared(d)' = Declared(d)
  BY SameResolution
<1>3. TableTyped'
  BY <1>1 DEF TableTyped, Passes
<1>4. Reducing'
  <2>1. SUFFICES ASSUME NEW d \in {"runafter", "requires"}, Acyclic(Declared(d))
                 PROVE  /\ Shortened(Declared(d), deps[d])
                        /\ \A a \in DOMAIN defs : \A i \in DOMAIN deps[d][a] :
                             Seen(d, a, i)' => Essential(deps[d], a, deps[d][a][i])
    BY <1>2 DEF Reducing
  <2> QED
    BY <1>1, <2>1
<1> QED
  BY <1>3, <1>4, LaterStep DEF Making

LEMMA DependencyFacts ==
  ASSUME Making, pass = "reduce", NEW d \in {"runafter", "requires"}, NEW a \in DOMAIN defs
  PROVE  /\ a \in Nat /\ a <= Len(defs) /\ Len(defs) \in Nat
         /\ Len(deps[d][a]) \in Nat /\ DOMAIN deps[d][a] = 1 .. Len(deps[d][a])
<1>1. deps[d][a] \in Seq(DOMAIN defs)
  BY CursorFacts DEF Dependencies
<1> QED
  BY <1>1, CursorFacts

LEMMA NextActionStep ==
  ASSUME Making, ReduceNext
  PROVE  Making'
<1>1. /\ pass = "reduce" /\ at <= Len(defs) /\ child > Len(Lists[at]) /\ pass' = pass
      /\ defs' = defs /\ deps' = deps /\ priority' = priority /\ kind' = kind
      /\ at' = at + 1 /\ child' = 1
  BY DEF ReduceNext
<1>2. kind \in {"runafter", "requires"} /\ at \in Nat \ {0} /\ child \in Nat \ {0}
  BY <1>1, CursorFacts
<1>3. ASSUME NEW d \in {"runafter", "requires"}, NEW a \in DOMAIN defs,
             NEW i \in DOMAIN deps[d][a], Seen(d, a, i)'
      PROVE  Seen(d, a, i)
  <2>1. /\ a \in Nat /\ i \in Nat /\ i >= 1 /\ Len(deps[d][a]) \in Nat /\ i <= Len(deps[d][a])
    BY <1>1, DependencyFacts
  <2>2. d = kind /\ a = at => i < child
    BY <1>1, <1>2, <2>1 DEF Lists
  <2> QED
    BY <1>1, <1>2, <1>3, <2>1, <2>2 DEF Seen
<1>4. at + 1 \in Nat \ {0} /\ 1 \in Nat \ {0}
  BY <1>2
<1> QED
  BY <1>1, <1>2, <1>3, <1>4, MovingStep

LEMMA NextKindStep ==
  ASSUME Making, ReduceRequires
  PROVE  Making'
<1>1. /\ pass = "reduce" /\ at > Len(defs) /\ kind = "runafter" /\ pass' = pass
      /\ defs' = defs /\ deps' = deps /\ priority' = priority
      /\ kind' = "requires" /\ at' = 1 /\ child' = 1
  BY DEF ReduceRequires
<1>2. at \in Nat \ {0}
  BY <1>1, CursorFacts
<1>3. ASSUME NEW d \in {"runafter", "requires"}, NEW a \in DOMAIN defs,
             NEW i \in DOMAIN deps[d][a], Seen(d, a, i)'
      PROVE  Seen(d, a, i)
  <2>1. /\ a \in Nat /\ a >= 1 /\ a <= Len(defs) /\ Len(defs) \in Nat
        /\ i \in Nat /\ i >= 1
    BY <1>1, CursorFacts, DependencyFacts
  <2> QED
    BY <1>1, <1>2, <1>3, <2>1 DEF Seen
<1> QED
  BY <1>1, <1>3, MovingStep

LEMMA AcceptStep ==
  ASSUME Making, Accept
  PROVE  Making'
<1>1. /\ pass = "reduce" /\ at > Len(defs) /\ kind = "requires" /\ pass' = "accepted"
      /\ defs' = defs /\ deps' = deps /\ priority' = priority
      /\ kind' = kind /\ at' = at /\ child' = child
  BY DEF Accept, cursor
<1>2. at \in Nat \ {0} /\ child \in Nat \ {0}
  BY <1>1, CursorFacts
<1>3. ASSUME NEW d \in {"runafter", "requires"}, NEW a \in DOMAIN defs
      PROVE  \A i : Seen(d, a, i)
  <2>1. a \in Nat /\ a <= Len(defs) /\ Len(defs) \in Nat
    BY <1>1, DependencyFacts
  <2> QED
    BY <1>1, <1>2, <2>1 DEF Seen
<1> QED
  BY <1>1, <1>2, <1>3, MovingStep

LEMMA UnchangedStep ==
  ASSUME Making, UNCHANGED tableVars
  PROVE  Making'
<1>1. /\ defs' = defs /\ pass' = pass /\ deps' = deps /\ priority' = priority
      /\ kind' = kind /\ at' = at /\ child' = child
  BY DEF tableVars, cursor
<1>2. \A d : Declared(d)' = Declared(d)
  BY <1>1, SameResolution
<1>3. Resolution' = Resolution
  BY <1>1, SameResolution
<1>4. \A d, a, i : Seen(d, a, i)' <=> Seen(d, a, i)
  BY <1>1 DEF Seen
<1>5. TableTyped' /\ NotBegun'
  BY <1>1 DEF Making, TableTyped, NotBegun
<1>6. ListsAreResolved' /\ RejectedForCause'
  BY <1>1, <1>3, SameDefect DEF Making, ListsAreResolved, RejectedForCause
<1>7. ListsAreUnique'
  BY <1>1, <1>2 DEF Making, ListsAreUnique
<1>8. NoCycleSeen'
  BY <1>1, <1>2 DEF Making, NoCycleSeen
<1>9. PrioritiesAreSet'
  BY <1>1, <1>2 DEF Making, PrioritiesAreSet
<1>10. NoneImplicit'
  BY <1>1, <1>2 DEF Making, NoneImplicit
<1>11. Reducing'
  BY <1>1, <1>2, <1>4 DEF Making, Reducing
<1> QED
  BY <1>5, <1>6, <1>7, <1>8, <1>9, <1>10, <1>11 DEF Making

LEMMA MakingInit ==
  ASSUME TableInit
  PROVE  Making
<1>1. pass = "names" /\ kind = "runafter" /\ at = 1 /\ child = 1 /\ defs \in Definitions
  BY DEF TableInit
<1>2. TableTyped /\ NotBegun
  BY <1>1 DEF TableTyped, NotBegun, Passes, After
<1> QED
  BY <1>1, <1>2 DEF Making, ListsAreResolved, ListsAreUnique, NoCycleSeen, PrioritiesAreSet,
       NoneImplicit, Reducing, RejectedForCause, After

-----------------------------------------------------------------------------
\* The inductive invariant: what each pass of adg_action_table_from_nodes has
\* established of the table when the next one starts.
THEOREM MakingHolds == TableSpec => []Making
<1>1. TableInit => Making
  BY MakingInit
<1>2. Making /\ [TableNext]_tableVars => Making'
  <2>1. SUFFICES ASSUME Making, [TableNext]_tableVars
                 PROVE  Making'
    OBVIOUS
  <2>2. CASE VerifyNames
    BY <2>1, <2>2, NamesStep
  <2>3. CASE Resolve
    BY <2>1, <2>3, ResolveStep
  <2>4. CASE VerifyUnique
    BY <2>1, <2>4, UniqueStep
  <2>5. CASE VerifyAcyclic
    BY <2>1, <2>5, AcyclicStep
  <2>6. CASE CalculatePriorities
    BY <2>1, <2>6, PrioritiesStep
  <2>7. CASE VerifyRequires
    BY <2>1, <2>7, VerifyRequiresStep
  <2>8. CASE Reduce
    BY <2>1, <2>8, ReduceStep
  <2>9. CASE ReduceNext
    BY <2>1, <2>9, NextActionStep
  <2>10. CASE ReduceRequires
    BY <2>1, <2>10, NextKindStep
  <2>11. CASE Accept
    BY <2>1, <2>11, AcceptStep
  <2>12. CASE UNCHANGED tableVars
    BY <2>1, <2>12, UnchangedStep
  <2> QED
    BY <2>1, <2>2, <2>3, <2>4, <2>5, <2>6, <2>7, <2>8, <2>9, <2>10, <2>11, <2>12 DEF TableNext
<1> QED
  BY <1>1, <1>2, PTL DEF TableSpec

\* The parser calls the handlers by priority: in every table argdefgen accepts,
\* an action has a greater one than all that the file has it run after
\* (assign_priorities).
THEOREM PrioritiesOrder == TableSpec => []PrioritiesOrderRunafter
<1>1. Making => PrioritiesOrderRunafter
  <2>1. SUFFICES ASSUME Making, pass = "accepted", Acyclic(Declared("runafter")),
                        NEW a \in DOMAIN defs, NEW b \in Children(Declared("runafter"), a)
                 PROVE  priority[b] < priority[a]
    BY DEF PrioritiesOrderRunafter, Sound
  <2>2. PICK g : g = Declared("runafter")
    OBVIOUS
  <2>3. IsGraph(g) /\ DOMAIN g = DOMAIN defs /\ Acyclic(g)
    BY <2>1, <2>2, ResolutionIsTyped DEF Making, TableTyped, Dependencies
  <2>4. priority = Priorities(g)
    BY <2>1, <2>2 DEF Making, PrioritiesAreSet, After
  <2>5. b \in Reached(g)[a]
    BY <2>1, <2>2, <2>3, ReachedIsClosed
  <2>6. Priorities(g)[b] < Priorities(g)[a]
    BY <2>1, <2>3, <2>5, PrioritiesAscend
  <2> QED
    BY <2>4, <2>6
<1> QED
  BY <1>1, MakingHolds, PTL

\* remove_indirect_dependencies drops all that is implied by the rest and nothing
\* else, and keeps the order, although it searches the lists it is shortening.
THEOREM ReducedToMinimum == TableSpec => []ReducedToTheMinimum
<1>1. Making => ReducedToTheMinimum
  <2>1. SUFFICES ASSUME Making, NEW d \in {"runafter", "requires"},
                        pass = "accepted", Acyclic(Declared(d)), NEW a \in DOMAIN defs
                 PROVE  /\ Children(deps[d], a) = Direct(Declared(d))[a]
                        /\ InOrder(deps[d][a], Declared(d)[a])
    BY DEF ReducedToTheMinimum, Sound
  <2>2. PICK g, h : g = Declared(d) /\ h = deps[d]
    OBVIOUS
  <2>3. defs \in Definitions /\ d \in Dependencies
    BY <2>1 DEF Making, TableTyped, Dependencies
  <2>4. IsGraph(g) /\ DOMAIN g = DOMAIN defs /\ Acyclic(g)
    BY <2>1, <2>2, <2>3, ResolutionIsTyped
  <2>5. h \in [DOMAIN defs -> Seq(DOMAIN defs)]
    BY <2>1, <2>2, <2>3 DEF Making, TableTyped, After
  <2>6. IsGraph(h) /\ DOMAIN h = DOMAIN defs
    BY <2>3, <2>5, ListIsGraph
  <2>7. Shortened(g, h) /\ \A i \in DOMAIN h[a] : Essential(h, a, h[a][i])
    BY <2>1, <2>2 DEF Making, Reducing, Seen
  <2>8. \A b \in Children(h, a) : Essential(h, a, b)
    BY <2>7 DEF Children
  <2>9. Children(h, a) = Direct(g)[a]
    BY <2>1, <2>4, <2>6, <2>7, <2>8, EssentialIsDirect DEF Shortened
  <2>10. InOrder(h[a], g[a])
    BY <2>1, <2>4, <2>7 DEF Shortened
  <2> QED
    BY <2>2, <2>9, <2>10
<1> QED
  BY <1>1, MakingHolds, PTL

\* verify_requires_dont_depend_on_implicit_actions starts at the roots and still
\* misses no required action, when nothing requires itself.
THEOREM RequiredAreGivable == TableSpec => []RequiredCanBeGiven
<1>1. Making => RequiredCanBeGiven
  <2>1. SUFFICES ASSUME Making, pass = "accepted", Acyclic(Declared("requires")),
                        NEW a \in DOMAIN defs, NEW b \in Children(Declared("requires"), a)
                 PROVE  ~defs[b].implicit
    BY DEF RequiredCanBeGiven, Sound
  <2>2. PICK g : g = Declared("requires")
    OBVIOUS
  <2>3. IsGraph(g) /\ DOMAIN g = DOMAIN defs /\ Acyclic(g)
    BY <2>1, <2>2, ResolutionIsTyped DEF Making, TableTyped, Dependencies
  <2>4. a \in Visited(g)
    BY <2>3, RootsReachAll
  <2>5. PICK r \in Roots(g) : a = r \/ a \in Reached(g)[r]
    BY <2>4 DEF Visited
  <2>6. r \in DOMAIN g
    BY <2>5 DEF Roots
  <2>7. b \in Reached(g)[r]
    BY <2>1, <2>2, <2>3, <2>5, <2>6, ReachedIsClosed
  <2>8. b \in Required(g)
    BY <2>5, <2>7 DEF Required
  <2>9. \A c \in Required(g) : ~defs[c].implicit
    BY <2>1, <2>2 DEF Making, NoneImplicit, After
  <2> QED
    BY <2>8, <2>9
<1> QED
  BY <1>1, MakingHolds, PTL

\* Every pass that turns a definition down has a reason that is in the file.
THEOREM RejectedWithCause == TableSpec => []RejectedForCause
<1>1. Making => RejectedForCause
  BY DEF Making
<1> QED
  BY <1>1, MakingHolds, PTL

\* The cycles verify_action_table_dependencies_are_acyclic lets through are
\* entered from cycles only, so that no pass from the roots gets into them.
THEOREM CyclesAreClosed == TableSpec => []CyclesHaveNoEntry
<1>1. Making => CyclesHaveNoEntry
  <2>1. SUFFICES ASSUME Making, pass \in {"accepted", "overflow"}, NEW d \in {"runafter", "requires"},
                        NEW a \in DOMAIN defs, NEW x \in DOMAIN defs,
                        x \in Reached(Declared(d))[a], x \in Reached(Declared(d))[x]
                 PROVE  \E c \in DOMAIN defs :
                          c \in Reached(Declared(d))[c] /\ a \in Reached(Declared(d))[c]
    BY DEF CyclesHaveNoEntry
  <2>2. PICK g : g = Declared(d)
    OBVIOUS
  <2>3. IsGraph(g) /\ DOMAIN g = DOMAIN defs
    BY <2>1, <2>2, ResolutionIsTyped DEF Making, TableTyped, Dependencies
  <2>4. ~RootedCycle(g)
    BY <2>1, <2>2 DEF Making, NoCycleSeen, After
  <2>5. \E c \in DOMAIN g : c \in Reached(g)[c] /\ a \in Reached(g)[c]
    BY <2>1, <2>2, <2>3, <2>4, CyclesAreEnteredByCycles
  <2> QED
    BY <2>2, <2>3, <2>5
<1> QED
  BY <1>1, MakingHolds, PTL

\* What the generated parser takes for granted of its table (TablesAreGenerated in
\* ArgDispatch) is so in every table that is accepted without a hidden cycle:
\* calculate_priorities ran before the lists were reduced, and the reduced lists
\* still have those priorities.
THEOREM PrioritiesOutliveReduction ==
  TableSpec => [](Sound("runafter") =>
               /\ deps["runafter"] \in [DOMAIN defs -> Seq(DOMAIN defs)]
               /\ Acyclic(deps["runafter"])
               /\ priority = Priorities(deps["runafter"]))
<1>1. Making => (Sound("runafter") =>
                   /\ deps["runafter"] \in [DOMAIN defs -> Seq(DOMAIN defs)]
                   /\ Acyclic(deps["runafter"])
                   /\ priority = Priorities(deps["runafter"]))
  <2>1. SUFFICES ASSUME Making, pass = "accepted", Acyclic(Declared("runafter"))
                 PROVE  /\ deps["runafter"] \in [DOMAIN defs -> Seq(DOMAIN defs)]
                        /\ Acyclic(deps["runafter"])
                        /\ priority = Priorities(deps["runafter"])
    BY DEF Sound
  <2>2. PICK g, h : g = Declared("runafter") /\ h = deps["runafter"]
    OBVIOUS
  <2>3. defs \in Definitions /\ h \in [DOMAIN defs -> Seq(DOMAIN defs)]
    BY <2>1, <2>2 DEF Making, TableTyped, Dependencies, After
  <2>4. IsGraph(g) /\ DOMAIN g = DOMAIN defs /\ IsGraph(h) /\ DOMAIN h = DOMAIN defs
    BY <2>2, <2>3, ResolutionIsTyped, ListIsGraph DEF Dependencies
  <2>5. \A a \in DOMAIN g : Reached(h)[a] = Reached(g)[a]
    BY <2>1, <2>2 DEF Making, Reducing, Shortened
  <2>6. Acyclic(g) /\ Acyclic(h)
    BY <2>1, <2>2, <2>4, <2>5 DEF Acyclic
  <2>7. priority = Priorities(g)
    BY <2>1, <2>2 DEF Making, PrioritiesAreSet, After
  <2>8. Priorities(h) = Priorities(g)
    BY <2>4, <2>5, <2>6, SameReachSamePriorities
  <2> QED
    BY <2>2, <2>3, <2>6, <2>7, <2>8
<1> QED
  BY <1>1, MakingHolds, PTL
=============================================================================
