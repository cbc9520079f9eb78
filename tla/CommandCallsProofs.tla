------------------------- MODULE CommandCallsProofs -------------------------
(***************************************************************************)
(* Theorems about CommandCalls, for all libraries, directories, programs   *)
(* and orders of the files.  LoadInv is the inductive invariant of the     *)
(* loaders: a command is in the index as often as its library was opened,  *)
(* but for the part of the open library that is still to be read.  CallInv *)
(* is that of the call.  Before them come the search by halving, for every *)
(* list of names, and counting in lists.                                   *)
(***************************************************************************)
EXTENDS CommandCalls, FiniteSetTheorems, WellFoundedInduction, TLAPS

-----------------------------------------------------------------------------
(* Numbers and characters.                                                 *)

\* Every set of natural numbers that is not empty has a least element.
LEMMA LeastOf ==
  ASSUME NEW S \in SUBSET Nat, S # {}
  PROVE  \E x \in S : \A y \in S : x <= y
<1>1. IsWellFoundedOn(OpToRel(<, Nat), Nat)
  BY NatLessThanWellFounded, Zenon
<1>2. PICK x \in S : \A y \in S : ~(<<y, x>> \in OpToRel(<, Nat))
  BY <1>1, WFMin, Zenon
<1>3. \A y \in S : ~(y < x)
  BY <1>2, Zenon DEF OpToRel
<1> QED
  BY <1>3

\* A set of numbers that holds 0 and with every number the next holds them all.
LEMMA AllNumbers ==
  ASSUME NEW T, 0 \in T, \A n \in Nat : n \in T => n + 1 \in T
  PROVE  \A n \in Nat : n \in T
<1>1. SUFFICES ASSUME NEW m \in Nat, m \notin T
               PROVE  FALSE
  OBVIOUS
<1> DEFINE S == {n \in Nat : n \notin T}
<1>2. S \in SUBSET Nat /\ S # {}
  BY <1>1
<1>3. PICK x \in S : \A y \in S : x <= y
  BY <1>2, LeastOf, Zenon
<1>4. x \in Nat /\ x \notin T /\ x # 0
  BY <1>3
<1>5. x - 1 \in Nat /\ x = (x - 1) + 1 /\ ~(x <= x - 1)
  BY <1>4
<1>6. x - 1 \in T
  BY <1>3, <1>5
<1> QED
  BY <1>4, <1>5, <1>6

\* A set of natural numbers with a bound has a greatest element.
LEMMA GreatestOf ==
  ASSUME NEW S \in SUBSET Nat, S # {}, NEW B \in Nat, \A x \in S : x <= B
  PROVE  \E x \in S : \A y \in S : y <= x
<1> DEFINE T == {B - x : x \in S}
<1>1. T \in SUBSET Nat /\ T # {}
  <2>1. \A x \in S : B - x \in Nat
    OBVIOUS
  <2> QED
    BY <2>1
<1>2. PICK t \in T : \A y \in T : t <= y
  BY <1>1, LeastOf, Zenon
<1>3. PICK x \in S : t = B - x
  BY <1>2
<1>4. \A y \in S : B - x <= B - y
  BY <1>2, <1>3
<1> QED
  BY <1>4

\* Min and Max of the community module FiniteSetsExt.
LEMMA MinIs ==
  ASSUME NEW S \in SUBSET Nat, S # {}
  PROVE  Min(S) \in S /\ \A y \in S : Min(S) <= y
BY LeastOf DEF Min
LEMMA MaxIs ==
  ASSUME NEW S \in SUBSET Nat, NEW B \in S, \A x \in S : x <= B
  PROVE  Max(S) = B
<1>1. B \in S /\ \A y \in S : B >= y
  OBVIOUS
<1>2. Max(S) \in S /\ \A y \in S : Max(S) >= y
  BY <1>1 DEF Max
<1>3. Max(S) \in Nat /\ B \in Nat /\ Max(S) >= B /\ Max(S) <= B
  BY <1>1, <1>2
<1> QED
  BY ONLY <1>3

-----------------------------------------------------------------------------
(* Characters and the order of texts.                                      *)
Letters == Chars \ {Nul}

LEMMA AsciiIs ==
  /\ DOMAIN Ascii = 1 .. 7
  /\ Chars = {"nul", " ", "$", "3", "A", "a", "b"}
  /\ \A j, k \in 1 .. 7 : Ascii[j] = Ascii[k] => j = k
  /\ Ascii[1] = Nul
<1>1. DOMAIN Ascii = 1 .. 7
  BY DEF Ascii
<1>2. /\ Ascii[1] = "nul" /\ Ascii[2] = " " /\ Ascii[3] = "$" /\ Ascii[4] = "3"
      /\ Ascii[5] = "A" /\ Ascii[6] = "a" /\ Ascii[7] = "b"
  BY DEF Ascii, Nul
<1>3. \A k \in 1 .. 7 : k \in {1, 2, 3, 4, 5, 6, 7}
  OBVIOUS
<1>4. Chars = {"nul", " ", "$", "3", "A", "a", "b"}
  <2>1. \A k \in 1 .. 7 : Ascii[k] \in {"nul", " ", "$", "3", "A", "a", "b"}
    BY <1>2, <1>3
  <2>2. \A c \in {"nul", " ", "$", "3", "A", "a", "b"} : \E k \in 1 .. 7 : Ascii[k] = c
    <3>1. \A k \in {1, 2, 3, 4, 5, 6, 7} : k \in 1 .. 7
      OBVIOUS
    <3> QED
      BY ONLY <1>2, <3>1, Zenon
  <2>3. Chars = {Ascii[k] : k \in 1 .. 7}
    BY <1>1 DEF Chars
  <2>4. \A c \in Chars : c \in {"nul", " ", "$", "3", "A", "a", "b"}
    BY <2>1, <2>3, Zenon
  <2>5. \A c \in {"nul", " ", "$", "3", "A", "a", "b"} : c \in Chars
    BY <2>2, <2>3, Zenon
  <2> QED
    BY ONLY <2>4, <2>5, Zenon
<1>5. \A j, k \in 1 .. 7 : Ascii[j] = Ascii[k] => j = k
  BY <1>2, <1>3
<1> QED
  BY <1>1, <1>2, <1>4, <1>5 DEF Nul

LEMMA CodesAreApart ==
  /\ \A c \in Chars : Code[c] \in 1 .. 7
  /\ \A c, d \in Chars : Code[c] = Code[d] => c = d
  /\ \A c \in Letters : Code[Nul] < Code[c]
  /\ Nul \in Chars
<1>1. ASSUME NEW c \in Chars
      PROVE  Code[c] \in 1 .. 7 /\ Ascii[Code[c]] = c
  <2>1. PICK i \in 1 .. 7 : Ascii[i] = c
    BY AsciiIs DEF Chars
  <2>2. Code[c] = CHOOSE k \in DOMAIN Ascii : Ascii[k] = c
    BY DEF Code
  <2> QED
    BY <2>1, <2>2, AsciiIs
<1>2. Nul \in Chars /\ Ascii[1] = Nul
  BY AsciiIs DEF Nul
<1>3. Code[Nul] = 1
  <2>1. Code[Nul] \in 1 .. 7 /\ Ascii[Code[Nul]] = Ascii[1]
    BY <1>1, <1>2
  <2>2. 1 \in 1 .. 7
    OBVIOUS
  <2> QED
    BY ONLY <2>1, <2>2, AsciiIs, Zenon
<1>4. ASSUME NEW c \in Letters
      PROVE  Code[Nul] < Code[c]
  <2>1. c \in Chars /\ c # Nul
    BY DEF Letters
  <2>2. Code[c] \in 1 .. 7 /\ Ascii[Code[c]] = c
    BY <1>1, <2>1
  <2>3. Code[c] # 1
    BY <2>1, <2>2, <1>2
  <2> QED
    BY <2>2, <2>3, <1>3
<1> QED
  BY <1>1, <1>2, <1>4

LEMMA LowerIs ==
  /\ \A c \in Chars : LowerChar[c] \in Chars /\ LowerChar[LowerChar[c]] = LowerChar[c]
  /\ \A c \in Letters : LowerChar[c] \in Letters
  /\ LowerChar[Nul] = Nul
BY AsciiIs DEF LowerChar, Letters, Nul

LEMMA LowerOfText ==
  ASSUME NEW s \in Text
  PROVE  /\ toLower(s) \in Text /\ Len(toLower(s)) = Len(s)
         /\ \A k \in 1 .. Len(s) : toLower(s)[k] = LowerChar[s[k]]
         /\ toLower(toLower(s)) = toLower(s)
<1>1. Len(s) \in Nat /\ DOMAIN s = 1 .. Len(s) /\ \A k \in 1 .. Len(s) : s[k] \in Letters
  BY DEF Text, Letters
<1>2. toLower(s) = [k \in 1 .. Len(s) |-> LowerChar[s[k]]]
  BY <1>1 DEF toLower
<1>3. \A k \in 1 .. Len(s) : LowerChar[s[k]] \in Letters /\ LowerChar[LowerChar[s[k]]] = LowerChar[s[k]]
  BY <1>1, LowerIs DEF Letters
<1>4. toLower(s) \in Seq(Letters) /\ Len(toLower(s)) = Len(s) /\ DOMAIN toLower(s) = 1 .. Len(s)
  BY <1>1, <1>2, <1>3
<1>5. toLower(toLower(s)) = [k \in 1 .. Len(s) |-> LowerChar[toLower(s)[k]]]
  BY <1>4 DEF toLower
<1>6. toLower(toLower(s)) = toLower(s)
  BY <1>2, <1>3, <1>5
<1> QED
  BY <1>2, <1>4, <1>6 DEF Text, Letters

\* The nth character of a text, or its terminator.
LEMMA AtIs ==
  ASSUME NEW s \in Text, NEW n \in Nat \ {0}
  PROVE  /\ At(s, n) \in Chars /\ Code[At(s, n)] \in 1 .. 7
         /\ n <= Len(s) => At(s, n) = s[n] /\ At(s, n) \in Letters
         /\ n > Len(s) => At(s, n) = Nul
         /\ At(s, n) # Nul => n <= Len(s)
<1>1. Len(s) \in Nat /\ \A k \in 1 .. Len(s) : s[k] \in Letters
  BY DEF Text, Letters
<1>2. n <= Len(s) => At(s, n) = s[n] /\ At(s, n) \in Letters
  BY <1>1 DEF At
<1>3. n > Len(s) => At(s, n) = Nul
  BY <1>1 DEF At
<1>4. At(s, n) \in Chars
  BY <1>1, <1>2, <1>3, CodesAreApart DEF Letters
<1> QED
  BY <1>1, <1>2, <1>3, <1>4, CodesAreApart

\* Two texts agree up to n - 1 characters and the nth of s is the smaller one.
Parts(s, t, n) ==
  /\ Code[At(s, n)] < Code[At(t, n)]
  /\ \A k \in 1 .. n - 1 : At(s, k) = At(t, k)

LEMMA LessIsParting ==
  ASSUME NEW s \in Text, NEW t \in Text
  PROVE  Less(s, t) <=> \E n \in Nat \ {0} : Parts(s, t, n)
<1>1. Less(s, t) => \E n \in Nat \ {0} : Parts(s, t, n)
  BY DEF Less, Parts, Text
<1>2. ASSUME NEW n \in Nat \ {0}, Parts(s, t, n)
      PROVE  Less(s, t)
  <2>1. Code[At(s, n)] \in 1 .. 7 /\ Code[At(s, n)] < Code[At(t, n)] /\ Code[At(t, n)] \in 1 .. 7
    BY <1>2, AtIs DEF Parts
  <2>2. At(t, n) # Nul
    <3>1. Code[Nul] <= Code[At(s, n)]
      <4>1. At(s, n) \in Chars
        BY AtIs
      <4>2. At(s, n) = Nul \/ At(s, n) \in Letters
        BY <4>1 DEF Letters
      <4>3. Code[Nul] \in 1 .. 7
        BY CodesAreApart
      <4> QED
        BY <4>2, <4>3, CodesAreApart, <2>1
    <3>2. Code[Nul] \in 1 .. 7
      BY CodesAreApart
    <3> QED
      BY <2>1, <3>1, <3>2
  <2>3. n \in 1 .. Len(t)
    BY <2>2, AtIs DEF Text
  <2> QED
    BY <1>2, <2>3 DEF Less, Parts
<1> QED
  BY <1>1, <1>2

LEMMA LessIsStrict ==
  ASSUME NEW s \in Text, NEW t \in Text, Less(s, t)
  PROVE  ~Less(t, s) /\ s # t
<1>1. PICK n \in Nat \ {0} : Parts(s, t, n)
  BY LessIsParting
<1>2. \A k \in Nat \ {0} : Code[At(s, k)] \in 1 .. 7 /\ Code[At(t, k)] \in 1 .. 7
  BY AtIs
<1>3. s # t
  BY <1>1, <1>2 DEF Parts
<1>4. ASSUME NEW m \in Nat \ {0}, Parts(t, s, m)
      PROVE  FALSE
  <2>1. CASE m < n
    <3>1. m \in 1 .. n - 1
      BY <2>1
    <3> QED
      BY <3>1, <1>1, <1>2, <1>4 DEF Parts
  <2>2. CASE n < m
    <3>1. n \in 1 .. m - 1
      BY <2>2
    <3> QED
      BY <3>1, <1>1, <1>2, <1>4 DEF Parts
  <2>3. CASE n = m
    BY <2>3, <1>1, <1>2, <1>4 DEF Parts
  <2> QED
    BY <2>1, <2>2, <2>3
<1> QED
  BY <1>3, <1>4, LessIsParting

LEMMA LessIsTransitive ==
  ASSUME NEW r \in Text, NEW s \in Text, NEW t \in Text, Less(r, s), Less(s, t)
  PROVE  Less(r, t)
<1>1. PICK m \in Nat \ {0} : Parts(r, s, m)
  BY LessIsParting
<1>2. PICK n \in Nat \ {0} : Parts(s, t, n)
  BY LessIsParting
<1>3. \A k \in Nat \ {0} : Code[At(r, k)] \in 1 .. 7 /\ Code[At(s, k)] \in 1 .. 7 /\ Code[At(t, k)] \in 1 .. 7
  BY AtIs
<1>4. CASE m < n
  <2>1. m \in 1 .. n - 1 /\ \A k \in 1 .. m - 1 : k \in 1 .. n - 1
    BY <1>4
  <2>2. Parts(r, t, m)
    BY <2>1, <1>1, <1>2, <1>3 DEF Parts
  <2> QED
    BY <2>2, LessIsParting
<1>5. CASE n < m
  <2>1. n \in 1 .. m - 1 /\ \A k \in 1 .. n - 1 : k \in 1 .. m - 1
    BY <1>5
  <2>2. Parts(r, t, n)
    BY <2>1, <1>1, <1>2, <1>3 DEF Parts
  <2> QED
    BY <2>2, LessIsParting
<1>6. CASE m = n
  <2>2. Parts(r, t, n)
    BY <1>6, <1>1, <1>2, <1>3 DEF Parts
  <2> QED
    BY <2>2, LessIsParting
<1> QED
  BY <1>4, <1>5, <1>6

LEMMA LessIsTotal ==
  ASSUME NEW s \in Text, NEW t \in Text
  PROVE  s = t \/ Less(s, t) \/ Less(t, s)
<1> DEFINE D == {n \in Nat \ {0} : At(s, n) # At(t, n)}
<1>1. CASE D = {}
  <2>1. \A n \in Nat \ {0} : At(s, n) = At(t, n)
    BY <1>1
  <2>2. Len(s) \in Nat /\ Len(t) \in Nat /\ s \in Seq(Letters) /\ t \in Seq(Letters)
    BY DEF Text, Letters
  <2>3. ~(Len(s) < Len(t))
    <3>1. SUFFICES ASSUME Len(s) < Len(t)
                   PROVE  FALSE
      OBVIOUS
    <3>2. Len(t) \in Nat \ {0}
      BY <2>2, <3>1
    <3>3. At(s, Len(t)) = Nul /\ At(t, Len(t)) \in Letters
      BY <3>1, <3>2, <2>2, AtIs
    <3> QED
      BY <3>2, <3>3, <2>1 DEF Letters
  <2>4. ~(Len(t) < Len(s))
    <3>1. SUFFICES ASSUME Len(t) < Len(s)
                   PROVE  FALSE
      OBVIOUS
    <3>2. Len(s) \in Nat \ {0}
      BY <2>2, <3>1
    <3>3. At(t, Len(s)) = Nul /\ At(s, Len(s)) \in Letters
      BY <3>1, <3>2, <2>2, AtIs
    <3> QED
      BY <3>2, <3>3, <2>1 DEF Letters
  <2>5. Len(s) = Len(t)
    BY <2>2, <2>3, <2>4
  <2>6. \A k \in 1 .. Len(s) : s[k] = t[k]
    <3> SUFFICES ASSUME NEW k \in 1 .. Len(s)
                 PROVE  s[k] = t[k]
      OBVIOUS
    <3>1. k \in Nat \ {0} /\ k <= Len(s) /\ k <= Len(t)
      BY <2>2, <2>5
    <3> QED
      BY <3>1, <2>1, AtIs
  <2> QED
    BY <2>2, <2>5, <2>6
<1>2. CASE D # {}
  <2>1. PICK n \in D : \A k \in D : n <= k
    <3>1. D \in SUBSET Nat
      OBVIOUS
    <3> QED
      BY <3>1, <1>2, LeastOf
  <2>2. n \in Nat \ {0} /\ At(s, n) # At(t, n)
    BY <2>1
  <2>3. \A k \in 1 .. n - 1 : At(s, k) = At(t, k)
    BY <2>1
  <2>4. /\ Code[At(s, n)] \in 1 .. 7 /\ Code[At(t, n)] \in 1 .. 7
        /\ At(s, n) \in Chars /\ At(t, n) \in Chars
    BY <2>2, AtIs
  <2>5. Code[At(s, n)] # Code[At(t, n)]
    BY <2>2, <2>4, CodesAreApart
  <2>6. Parts(s, t, n) \/ Parts(t, s, n)
    BY <2>3, <2>4, <2>5 DEF Parts
  <2> QED
    BY <2>2, <2>6, LessIsParting
<1> QED
  BY <1>1, <1>2

-----------------------------------------------------------------------------
(* Sorting.                                                                *)

\* The order of the places of a list: by the text, then by the place.
Before(names, j, k) == Less(names[j], names[k]) \/ (names[j] = names[k] /\ j <= k)

LEMMA PlacesAreOrdered ==
  ASSUME NEW names \in Seq(Text)
  PROVE  /\ \A k \in DOMAIN names : Before(names, k, k)
         /\ \A j, k \in DOMAIN names : Before(names, j, k) \/ Before(names, k, j)
         /\ \A j, k \in DOMAIN names : Before(names, j, k) /\ Before(names, k, j) => j = k
         /\ \A i, j, k \in DOMAIN names : Before(names, i, j) /\ Before(names, j, k) => Before(names, i, k)
<1>1. \A k \in DOMAIN names : names[k] \in Text /\ k \in Nat
  OBVIOUS
<1>2. ASSUME NEW j \in DOMAIN names, NEW k \in DOMAIN names
      PROVE  Before(names, j, k) \/ Before(names, k, j)
  <2>1. names[j] = names[k] \/ Less(names[j], names[k]) \/ Less(names[k], names[j])
    BY <1>1, LessIsTotal
  <2>2. j <= k \/ k <= j
    BY <1>1
  <2> QED
    BY <2>1, <2>2 DEF Before
<1>3. ASSUME NEW j \in DOMAIN names, NEW k \in DOMAIN names, Before(names, j, k), Before(names, k, j)
      PROVE  j = k
  <2>1. Less(names[j], names[k]) => ~Less(names[k], names[j]) /\ names[j] # names[k]
    BY <1>1, LessIsStrict
  <2>2. Less(names[k], names[j]) => ~Less(names[j], names[k]) /\ names[j] # names[k]
    BY <1>1, LessIsStrict
  <2>3. j <= k /\ k <= j
    BY <2>1, <2>2, <1>3 DEF Before
  <2> QED
    BY <2>3, <1>1
<1>4. ASSUME NEW i \in DOMAIN names, NEW j \in DOMAIN names, NEW k \in DOMAIN names,
             Before(names, i, j), Before(names, j, k)
      PROVE  Before(names, i, k)
  <2>1. Less(names[i], names[j]) /\ Less(names[j], names[k]) => Less(names[i], names[k])
    BY <1>1, LessIsTransitive
  <2>2. i <= j /\ j <= k => i <= k
    BY <1>1
  <2> QED
    BY <2>1, <2>2, <1>4 DEF Before
<1>5. \A k \in DOMAIN names : Before(names, k, k)
  BY <1>1 DEF Before
<1> QED
  BY <1>2, <1>3, <1>4, <1>5

LEMMA RanksAreApart ==
  ASSUME NEW names \in Seq(Text)
  PROVE  /\ \A k \in 1 .. Len(names) : Rank(names, k) \in 1 .. Len(names)
         /\ \A j, k \in 1 .. Len(names) : Before(names, j, k) => Rank(names, j) <= Rank(names, k)
         /\ \A j, k \in 1 .. Len(names) : Rank(names, j) = Rank(names, k) => j = k
<1> DEFINE Upto(k) == {j \in DOMAIN names : Before(names, j, k)}
<1>1. DOMAIN names = 1 .. Len(names) /\ Len(names) \in Nat
  OBVIOUS
<1>2. IsFiniteSet(1 .. Len(names)) /\ Cardinality(1 .. Len(names)) = Len(names)
  BY <1>1, FS_Interval
<1>3. \A k : Rank(names, k) = Cardinality(Upto(k))
  BY DEF Rank, Before
<1>4. \A k : Upto(k) \in SUBSET (1 .. Len(names))
  BY <1>1
<1>5. ASSUME NEW k \in 1 .. Len(names)
      PROVE  IsFiniteSet(Upto(k)) /\ Cardinality(Upto(k)) \in 1 .. Len(names)
  <2> HIDE DEF Upto
  <2>1. IsFiniteSet(Upto(k)) /\ Cardinality(Upto(k)) <= Len(names)
    BY <1>2, <1>4, FS_Subset
  <2>2. Cardinality(Upto(k)) \in Nat
    BY <2>1, FS_CardinalityType
  <2>3. k \in Upto(k)
    BY <1>1, PlacesAreOrdered DEF Upto
  <2>4. Cardinality(Upto(k)) # 0
    BY <2>1, <2>3, FS_EmptySet
  <2> QED
    BY <2>1, <2>2, <2>4, <1>1
<1>6. ASSUME NEW j \in 1 .. Len(names), NEW k \in 1 .. Len(names), Before(names, j, k)
      PROVE  Cardinality(Upto(j)) <= Cardinality(Upto(k)) /\ (Cardinality(Upto(j)) = Cardinality(Upto(k)) => j = k)
  <2>1. Upto(j) \in SUBSET Upto(k)
    BY <1>1, <1>6, PlacesAreOrdered
  <2>2. k \in Upto(k)
    BY <1>1, PlacesAreOrdered
  <2>3. k \in Upto(j) => j = k
    BY <1>1, <1>6, PlacesAreOrdered
  <2> HIDE DEF Upto
  <2>4. Cardinality(Upto(j)) <= Cardinality(Upto(k)) /\ (Cardinality(Upto(k)) = Cardinality(Upto(j)) => Upto(k) = Upto(j))
    BY <2>1, <1>5, FS_Subset
  <2> QED
    BY <2>2, <2>3, <2>4
<1>7. ASSUME NEW j \in 1 .. Len(names), NEW k \in 1 .. Len(names), Cardinality(Upto(j)) = Cardinality(Upto(k))
      PROVE  j = k
  <2>1. Before(names, j, k) \/ Before(names, k, j)
    BY <1>1, PlacesAreOrdered
  <2> HIDE DEF Upto
  <2> QED
    BY <2>1, <1>6, <1>7
<1> HIDE DEF Upto
<1> QED
  BY <1>3, <1>5, <1>6, <1>7

\* In the order of operator<, equal texts side by side.
Ascending(list) == \A m, n \in DOMAIN list : m < n => list[m] = list[n] \/ Less(list[m], list[n])

\* What std::sort leaves: the same texts, in ascending order.
LEMMA SortIs ==
  ASSUME NEW names \in Seq(Text)
  PROVE  /\ Sort(names) \in Seq(Text) /\ Len(Sort(names)) = Len(names)
         /\ Ascending(Sort(names))
         /\ \A k \in DOMAIN names : \E n \in DOMAIN Sort(names) : Sort(names)[n] = names[k]
         /\ \A n \in DOMAIN Sort(names) : \E k \in DOMAIN names : Sort(names)[n] = names[k]
<1> DEFINE N == 1 .. Len(names)
           rank == [k \in N |-> Rank(names, k)]
           place(n) == CHOOSE k \in DOMAIN names : Rank(names, k) = n
<1>1. DOMAIN names = N /\ Len(names) \in Nat
  OBVIOUS
<1>2. IsFiniteSet(N)
  BY <1>1, FS_Interval
<1>3. rank \in Injection(N, N)
  <2>1. rank \in [N -> N]
    BY RanksAreApart
  <2>2. \A a, b \in N : rank[a] = rank[b] => a = b
    BY RanksAreApart
  <2> HIDE DEF rank, N
  <2> QED
    BY <2>1, <2>2 DEF Injection, IsInjective
<1>4. rank \in Surjection(N, N)
  <2> HIDE DEF rank, N
  <2> QED
    BY <1>2, <1>3, FS_Injection
<1>5. \A n \in N : \E k \in N : Rank(names, k) = n
  <2>1. \A n \in N : \E k \in N : rank[k] = n
    <3> HIDE DEF rank, N
    <3> QED
      BY <1>4 DEF Surjection
  <2> QED
    BY <2>1
<1>6. \A n \in N : place(n) \in N /\ Rank(names, place(n)) = n
  BY <1>1, <1>5
<1>7. Sort(names) = [n \in N |-> names[place(n)]]
  BY <1>1 DEF Sort
<1> HIDE DEF place
<1>8. Sort(names) \in Seq(Text) /\ Len(Sort(names)) = Len(names) /\ DOMAIN Sort(names) = N
  <2>1. \A n \in N : names[place(n)] \in Text
    BY <1>1, <1>6
  <2> QED
    BY <1>1, <1>7, <2>1
<1>9. \A n \in N : Sort(names)[n] = names[place(n)]
  BY <1>7
<1>10. ASSUME NEW k \in N
       PROVE  \E n \in N : Sort(names)[n] = names[k]
  <2>1. Rank(names, k) \in N
    BY RanksAreApart
  <2>2. place(Rank(names, k)) = k
    BY <2>1, <1>6, RanksAreApart
  <2> QED
    BY <2>1, <2>2, <1>9
<1>11. ASSUME NEW m \in N, NEW n \in N, m < n
       PROVE  names[place(m)] = names[place(n)] \/ Less(names[place(m)], names[place(n)])
  <2>1. place(m) \in N /\ place(n) \in N /\ Rank(names, place(m)) = m /\ Rank(names, place(n)) = n
    BY <1>6
  <2>2. ~Before(names, place(n), place(m))
    <3>1. Before(names, place(n), place(m)) => Rank(names, place(n)) <= Rank(names, place(m))
      BY <2>1, RanksAreApart
    <3> QED
      BY <3>1, <2>1, <1>11
  <2>3. Before(names, place(m), place(n))
    BY <2>1, <2>2, <1>1, PlacesAreOrdered
  <2> QED
    BY <2>3 DEF Before
<1>12. Ascending(Sort(names))
  BY <1>8, <1>9, <1>11 DEF Ascending
<1> QED
  BY <1>1, <1>6, <1>8, <1>9, <1>10, <1>12

-----------------------------------------------------------------------------
(* The search by halving.                                                  *)

Agrees(s, u, n) == \A i \in 1 .. n : At(s, i) = At(u, i)

\* The part holds the names that agree with u in their first n characters.
IsPart(list, u, part, n) ==
  /\ part.first \in 1 .. Len(list) + 1 /\ part.last \in 1 .. Len(list) + 1 /\ part.first <= part.last
  /\ \A j \in DOMAIN list : (part.first <= j /\ j < part.last) <=> Agrees(list[j], u, n)

\* Within a part the next characters ascend.
LEMMA PartAscends ==
  ASSUME NEW list \in Seq(Text), Ascending(list), NEW u, NEW n \in Nat \ {0},
         NEW i \in DOMAIN list, NEW j \in DOMAIN list, i <= j,
         Agrees(list[i], u, n - 1), Agrees(list[j], u, n - 1)
  PROVE  Code[At(list[i], n)] <= Code[At(list[j], n)]
<1>1. list[i] \in Text /\ list[j] \in Text /\ i \in Nat /\ j \in Nat
  OBVIOUS
<1>2. Code[At(list[i], n)] \in 1 .. 7 /\ Code[At(list[j], n)] \in 1 .. 7
  BY <1>1, AtIs
<1>3. CASE list[i] = list[j]
  BY <1>2, <1>3
<1>4. CASE Less(list[i], list[j])
  <2>1. PICK m \in Nat \ {0} : Parts(list[i], list[j], m)
    BY <1>1, <1>4, LessIsParting
  <2>2. Code[At(list[i], m)] \in 1 .. 7 /\ Code[At(list[j], m)] \in 1 .. 7 /\ Code[At(list[i], m)] < Code[At(list[j], m)]
    BY <1>1, <2>1, AtIs DEF Parts
  <2>3. ~(m < n)
    <3>1. SUFFICES ASSUME m < n
                   PROVE  FALSE
      OBVIOUS
    <3>2. m \in 1 .. n - 1
      BY <3>1
    <3>3. At(list[i], m) = At(list[j], m)
      BY <3>2 DEF Agrees
    <3> QED
      BY <2>2, <3>3
  <2>4. CASE m = n
    BY <2>2, <2>4
  <2>5. CASE n < m
    <3>1. n \in 1 .. m - 1
      BY <2>5
    <3>2. At(list[i], n) = At(list[j], n)
      BY <2>1, <3>1 DEF Parts
    <3> QED
      BY <3>2, <1>2
  <2> QED
    BY <2>3, <2>4, <2>5
<1> QED
  BY <1>1, <1>3, <1>4 DEF Ascending

LEMMA HalvingIsRight ==
  ASSUME NEW list \in Seq(Text), Ascending(list), NEW str \in Text, NEW n \in 1 .. Len(str),
         NEW part, IsPart(list, toLower(str), part, n - 1)
  PROVE  IsPart(list, toLower(str), Halved(list, str, part, n), n)
<1> DEFINE u == toLower(str)
           x == Code[LowerChar[At(str, n)]]
           c(j) == Code[At(list[j], n)]
           S == {j \in part.first .. part.last - 1 : c(j) >= x} \cup {part.last}
           lower == Min(S)
           T == {j \in lower .. part.last - 1 : c(j) > x} \cup {part.last}
           upper == Min(T)
<1>1. /\ n \in Nat \ {0} /\ Len(str) \in Nat /\ Len(list) \in Nat /\ DOMAIN list = 1 .. Len(list)
      /\ u \in Text /\ Len(u) = Len(str)
  BY LowerOfText DEF Text
<1>2. /\ At(u, n) = LowerChar[At(str, n)] /\ At(u, n) \in Chars /\ x = Code[At(u, n)] /\ x \in 1 .. 7
  <2>1. At(u, n) = u[n] /\ At(str, n) = str[n] /\ At(u, n) \in Chars /\ Code[At(u, n)] \in 1 .. 7
    BY <1>1, AtIs
  <2>2. u[n] = LowerChar[str[n]]
    BY LowerOfText
  <2> QED
    BY <2>1, <2>2
<1>3. \A j \in 1 .. Len(list) : c(j) \in 1 .. 7 /\ (c(j) = x <=> At(list[j], n) = At(u, n))
  <2> SUFFICES ASSUME NEW j \in 1 .. Len(list)
               PROVE  c(j) \in 1 .. 7 /\ (c(j) = x <=> At(list[j], n) = At(u, n))
    OBVIOUS
  <2>1. list[j] \in Text
    OBVIOUS
  <2>2. c(j) \in 1 .. 7 /\ At(list[j], n) \in Chars
    BY <2>1, <1>1, AtIs
  <2> QED
    BY <2>2, <1>2, CodesAreApart
<1>4. /\ part.first \in 1 .. Len(list) + 1 /\ part.last \in 1 .. Len(list) + 1 /\ part.first <= part.last
      /\ \A j \in 1 .. Len(list) : (part.first <= j /\ j < part.last) <=> Agrees(list[j], u, n - 1)
  BY <1>1 DEF IsPart
<1>5. ASSUME NEW i \in 1 .. Len(list), NEW j \in 1 .. Len(list), i <= j, part.first <= i, j < part.last
      PROVE  c(i) <= c(j)
  <2>1. part.first <= j /\ i < part.last
    BY <1>4, <1>5
  <2>2. Agrees(list[i], u, n - 1) /\ Agrees(list[j], u, n - 1)
    BY <2>1, <1>4, <1>5
  <2> QED
    BY <2>2, <1>1, <1>5, PartAscends
<1>6. \A j \in 1 .. Len(list) : Agrees(list[j], u, n) <=> Agrees(list[j], u, n - 1) /\ At(list[j], n) = At(u, n)
  <2>1. \A i : i \in 1 .. n <=> i \in 1 .. n - 1 \/ i = n
    BY <1>1
  <2> QED
    BY <2>1 DEF Agrees
<1>7. Halved(list, str, part, n) = [first |-> lower, last |-> upper]
  BY DEF Halved, LowerBound, UpperBound
<1>8. lower \in S /\ \A y \in S : lower <= y
  <2>1. S \in SUBSET Nat /\ S # {}
    BY <1>4
  <2> HIDE DEF S
  <2> QED
    BY <2>1, MinIs
<1>9. lower \in Nat /\ part.first <= lower /\ lower <= part.last /\ (lower < part.last => c(lower) >= x)
  BY <1>8, <1>4
<1>10. \A j \in 1 .. Len(list) : part.first <= j /\ j < lower => ~(c(j) >= x)
  <2> SUFFICES ASSUME NEW j \in 1 .. Len(list), part.first <= j, j < lower, c(j) >= x
               PROVE  FALSE
    OBVIOUS
  <2>1. j \in S
    BY <1>4, <1>9
  <2> HIDE DEF lower, S
  <2> QED
    BY <2>1, <1>8, <1>9
<1> HIDE DEF lower
<1>11. upper \in T /\ \A y \in T : upper <= y
  <2>1. T \in SUBSET Nat /\ T # {}
    BY <1>4, <1>9
  <2> HIDE DEF T
  <2> QED
    BY <2>1, MinIs
<1>12. upper \in Nat /\ lower <= upper /\ upper <= part.last /\ (upper < part.last => c(upper) > x)
  BY <1>11, <1>4, <1>9
<1>13. \A j \in 1 .. Len(list) : lower <= j /\ j < upper => ~(c(j) > x)
  <2> SUFFICES ASSUME NEW j \in 1 .. Len(list), lower <= j, j < upper, c(j) > x
               PROVE  FALSE
    OBVIOUS
  <2>1. j \in T
    BY <1>4, <1>9, <1>12
  <2> HIDE DEF upper, T
  <2> QED
    BY <2>1, <1>11, <1>12
<1> HIDE DEF upper, S, T
<1>14. ASSUME NEW j \in 1 .. Len(list)
       PROVE  (lower <= j /\ j < upper) <=> Agrees(list[j], u, n)
  <2>1. ASSUME lower <= j, j < upper
        PROVE  Agrees(list[j], u, n)
    <3>1. part.first <= j /\ j < part.last /\ lower < part.last
      BY <2>1, <1>4, <1>9, <1>12
    <3>2. lower \in 1 .. Len(list) /\ c(lower) >= x
      BY <3>1, <1>4, <1>9
    <3>3. c(lower) <= c(j)
      BY <3>1, <3>2, <2>1, <1>5, <1>9
    <3>4. c(j) = x
      BY <3>2, <3>3, <2>1, <1>13, <1>3, <1>2
    <3> QED
      BY <3>1, <3>4, <1>3, <1>4, <1>6
  <2>2. ASSUME Agrees(list[j], u, n)
        PROVE  lower <= j /\ j < upper
    <3>1. part.first <= j /\ j < part.last /\ c(j) = x
      BY <2>2, <1>3, <1>4, <1>6
    <3>2. lower <= j
      BY <3>1, <1>2, <1>9, <1>10
    <3>3. ~(upper <= j)
      <4>1. SUFFICES ASSUME upper <= j
                     PROVE  FALSE
        OBVIOUS
      <4>2. upper < part.last /\ upper \in 1 .. Len(list) /\ part.first <= upper
        BY <4>1, <3>1, <1>4, <1>9, <1>12
      <4>3. c(upper) > x /\ c(upper) <= c(j)
        BY <4>1, <4>2, <3>1, <1>5, <1>12
      <4> QED
        BY <4>2, <4>3, <3>1, <1>2, <1>3
    <3> QED
      BY <3>2, <3>3, <1>12
  <2> QED
    BY <2>1, <2>2
<1>15. lower \in 1 .. Len(list) + 1 /\ upper \in 1 .. Len(list) + 1 /\ lower <= upper
  BY <1>4, <1>9, <1>12
<1> HIDE DEF u
<1>16. IsPart(list, u, [first |-> lower, last |-> upper], n)
  BY <1>1, <1>14, <1>15 DEF IsPart
<1> QED
  BY <1>7, <1>16 DEF u

-----------------------------------------------------------------------------
\* The parts are defined by recursion: for each number of characters there is
\* a list of them.
Halvings(list, str, f, m) ==
  f = [n \in 0 .. m |->
         IF n = 0 THEN [first |-> 1, last |-> Len(list) + 1] ELSE Halved(list, str, f[n - 1], n)]

LEMMA HalvingsExist ==
  ASSUME NEW list, NEW str
  PROVE  \A m \in Nat : \E f : Halvings(list, str, f, m)
<1> DEFINE T == {m \in Nat : \E f : Halvings(list, str, f, m)}
           whole == [first |-> 1, last |-> Len(list) + 1]
<1>1. 0 \in T
  <2> DEFINE f == [n \in 0 .. 0 |-> whole]
  <2>1. Halvings(list, str, f, 0)
    BY DEF Halvings
  <2> QED
    BY <2>1
<1>2. ASSUME NEW m \in Nat, m \in T
      PROVE  m + 1 \in T
  <2>1. PICK f : Halvings(list, str, f, m)
    BY <1>2
  <2> DEFINE g == [n \in 0 .. m + 1 |-> IF n <= m THEN f[n] ELSE Halved(list, str, f[m], m + 1)]
  <2>2. \A n \in 0 .. m : f[n] = IF n = 0 THEN whole ELSE Halved(list, str, f[n - 1], n)
    BY <2>1 DEF Halvings
  <2>3. \A n \in 0 .. m + 1 : g[n] = IF n = 0 THEN whole ELSE Halved(list, str, g[n - 1], n)
    <3> SUFFICES ASSUME NEW n \in 0 .. m + 1
                 PROVE  g[n] = IF n = 0 THEN whole ELSE Halved(list, str, g[n - 1], n)
      OBVIOUS
    <3> HIDE DEF whole
    <3>1. CASE n = 0
      BY <3>1, <2>2
    <3>2. CASE n # 0 /\ n <= m
      <4>1. n - 1 \in 0 .. m /\ n - 1 \in 0 .. m + 1 /\ n \in 0 .. m /\ n - 1 <= m
        BY <3>2
      <4>2. g[n] = f[n] /\ g[n - 1] = f[n - 1]
        BY <4>1, <3>2
      <4> QED
        BY <4>1, <4>2, <3>2, <2>2
    <3>3. CASE n = m + 1
      <4>1. n # 0 /\ ~(n <= m) /\ n - 1 = m /\ m \in 0 .. m + 1 /\ m <= m
        BY <3>3
      <4>2. g[n] = Halved(list, str, f[m], m + 1) /\ g[m] = f[m]
        BY <4>1
      <4> QED
        BY <4>1, <4>2, <3>3
    <3> QED
      BY <3>1, <3>2, <3>3
  <2>4. Halvings(list, str, g, m + 1)
    <3>1. g = [n \in 0 .. m + 1 |-> g[n]]
      OBVIOUS
    <3> HIDE DEF g
    <3> QED
      BY <3>1, <2>3 DEF Halvings
  <2> QED
    BY <2>4
<1> HIDE DEF T
<1>3. \A m \in Nat : m \in T
  BY <1>1, <1>2, AllNumbers
<1> QED
  BY <1>3 DEF T

LEMMA NarrowedIs ==
  ASSUME NEW list, NEW str \in Text
  PROVE  Halvings(list, str, Narrowed(list, str), Len(str))
<1>1. Len(str) \in Nat
  BY DEF Text
<1>2. \E f : Halvings(list, str, f, Len(str))
  BY <1>1, HalvingsExist
<1> QED
  BY <1>2, Zenon DEF Narrowed, Halvings

\* Each part is right.
LEMMA NarrowedIsRight ==
  ASSUME NEW list \in Seq(Text), Ascending(list), NEW str \in Text
  PROVE  /\ DOMAIN Narrowed(list, str) = 0 .. Len(str)
         /\ \A n \in 0 .. Len(str) : IsPart(list, toLower(str), Narrowed(list, str)[n], n)
<1> DEFINE part == Narrowed(list, str)
           T == {n \in Nat : n <= Len(str) => IsPart(list, toLower(str), part[n], n)}
<1>1. Len(str) \in Nat /\ Len(list) \in Nat /\ DOMAIN list = 1 .. Len(list)
  BY DEF Text
<1>2. part = [n \in 0 .. Len(str) |->
                IF n = 0 THEN [first |-> 1, last |-> Len(list) + 1] ELSE Halved(list, str, part[n - 1], n)]
  BY NarrowedIs DEF Halvings
<1> HIDE DEF part
<1>3. DOMAIN part = 0 .. Len(str)
  BY <1>2
<1>4. part[0] = [first |-> 1, last |-> Len(list) + 1]
  BY <1>1, <1>2
<1>5. \A n \in 1 .. Len(str) : part[n] = Halved(list, str, part[n - 1], n)
  BY <1>1, <1>2
<1>6. 0 \in T
  <2>1. \A j \in DOMAIN list : Agrees(list[j], toLower(str), 0)
    BY DEF Agrees
  <2>2. IsPart(list, toLower(str), part[0], 0)
    BY <1>1, <1>4, <2>1 DEF IsPart
  <2> QED
    BY <2>2
<1>7. ASSUME NEW n \in Nat, n \in T
      PROVE  n + 1 \in T
  <2>1. SUFFICES ASSUME n + 1 <= Len(str)
                 PROVE  IsPart(list, toLower(str), part[n + 1], n + 1)
    OBVIOUS
  <2>2. n + 1 \in 1 .. Len(str) /\ (n + 1) - 1 = n /\ n <= Len(str)
    BY <2>1, <1>1
  <2>3. IsPart(list, toLower(str), part[n], (n + 1) - 1)
    BY <2>2, <1>7
  <2>4. PICK k : k = n + 1
    OBVIOUS
  <2>5. k \in 1 .. Len(str) /\ part[k] = Halved(list, str, part[n], k) /\ IsPart(list, toLower(str), part[n], k - 1)
    BY <2>2, <2>3, <2>4, <1>5
  <2>6. IsPart(list, toLower(str), Halved(list, str, part[n], k), k)
    BY <2>5, HalvingIsRight
  <2> QED
    BY <2>4, <2>5, <2>6
<1> HIDE DEF T
<1>8. \A n \in Nat : n \in T
  BY <1>6, <1>7, AllNumbers
<1>9. \A n \in 0 .. Len(str) : IsPart(list, toLower(str), part[n], n)
  BY <1>1, <1>8 DEF T
<1> QED
  BY <1>3, <1>9 DEF part

LEMMA SameText ==
  ASSUME NEW s \in Text, NEW t \in Text, Len(s) = Len(t), \A i \in 1 .. Len(t) : s[i] = t[i]
  PROVE  s = t
<1>1. s \in Seq(Letters) /\ t \in Seq(Letters)
  BY DEF Text, Letters
<1> QED
  BY <1>1

\* The lowered, sorted list finds a text to its end exactly if it holds it.
LEMMA MatchIsExact ==
  ASSUME NEW list \in Seq(Text), Ascending(list), \A n \in DOMAIN list : toLower(list[n]) = list[n],
         NEW str \in Text, str # <<>>
  PROVE  findLongestCommandMatching(list, str) = [matchedLength |-> Len(str), found |-> TRUE]
           <=> \E n \in DOMAIN list : list[n] = toLower(str)
<1> DEFINE u == toLower(str)
           part == Narrowed(list, str)
           Full == {n \in DOMAIN part : n = 0 \/ part[n].first < part[n].last}
           matchedLen == Max(Full)
           commandStack == {n \in 1 .. matchedLen : ~charIsSymbolToken(At(str, n + 1))}
           hits == {n \in commandStack : strncicmpEqual(str, list[part[n].first])}
           whole == [matchedLength |-> Len(str), found |-> TRUE]
<1>1. /\ Len(str) \in Nat /\ Len(str) # 0 /\ DOMAIN str = 1 .. Len(str) /\ DOMAIN list = 1 .. Len(list) /\ Len(list) \in Nat
      /\ u \in Text /\ Len(u) = Len(str) /\ \A k \in 1 .. Len(str) : u[k] = LowerChar[str[k]]
  BY LowerOfText DEF Text
<1>2. findLongestCommandMatching(list, str) =
        IF hits = {} THEN [matchedLength |-> matchedLen, found |-> FALSE]
        ELSE [matchedLength |-> Len(list[part[Max(hits)].first]), found |-> TRUE]
  BY DEF findLongestCommandMatching
<1>3. findLongestCommandMatching(list, str) = whole
        <=> hits # {} /\ Len(list[part[Max(hits)].first]) = Len(str)
  <2> HIDE DEF hits, matchedLen, part
  <2>1. CASE hits = {}
    BY <1>2, <2>1
  <2>2. CASE hits # {}
    <3>1. PICK a : a = Len(list[part[Max(hits)].first])
      OBVIOUS
    <3>2. findLongestCommandMatching(list, str) = [matchedLength |-> a, found |-> TRUE]
      BY <1>2, <2>2, <3>1
    <3>3. [matchedLength |-> a, found |-> TRUE] = [matchedLength |-> Len(str), found |-> TRUE] <=> a = Len(str)
      BY Zenon
    <3> QED
      BY <2>2, <3>1, <3>2, <3>3
  <2> QED
    BY <2>1, <2>2
<1>4. DOMAIN part = 0 .. Len(str) /\ \A n \in 0 .. Len(str) : IsPart(list, u, part[n], n)
  BY NarrowedIsRight
<1> HIDE DEF part
<1>5. Full \in SUBSET Nat /\ 0 \in Full /\ \A n \in Full : n <= Len(str) /\ n \in 0 .. Len(str)
  BY <1>1, <1>4
<1>6. matchedLen \in Full
  <2> HIDE DEF Full
  <2>1. PICK B \in Full : \A y \in Full : y <= B
    BY <1>1, <1>5, GreatestOf
  <2>2. Max(Full) = B
    BY <1>5, <2>1, MaxIs
  <2> QED
    BY <2>2
<1>7. matchedLen \in 0 .. Len(str) /\ (matchedLen # 0 => part[matchedLen].first < part[matchedLen].last)
  <2> HIDE DEF matchedLen
  <2> QED
    BY <1>5, <1>6
<1> HIDE DEF matchedLen
<1>8. ASSUME NEW n \in 1 .. matchedLen
      PROVE  n \in 1 .. Len(str) /\ part[n].first \in DOMAIN list
  <2>1. n \in 0 .. Len(str) /\ matchedLen # 0 /\ n \in 1 .. Len(str)
    BY <1>7, <1>1
  <2>2. IsPart(list, u, part[n], n) /\ IsPart(list, u, part[matchedLen], matchedLen)
    BY <2>1, <1>4, <1>7
  <2>3. PICK j : j = part[matchedLen].first
    OBVIOUS
  <2>4. j \in DOMAIN list /\ Agrees(list[j], u, matchedLen)
    BY <2>1, <2>2, <2>3, <1>1, <1>7 DEF IsPart
  <2>5. Agrees(list[j], u, n)
    BY <2>4, <1>7 DEF Agrees
  <2>6. part[n].first <= j /\ j < part[n].last
    BY <2>2, <2>4, <2>5 DEF IsPart
  <2>7. part[n].first \in 1 .. Len(list) + 1 /\ part[n].last \in 1 .. Len(list) + 1
    BY <2>2 DEF IsPart
  <2> QED
    BY <2>1, <2>6, <2>7, <2>4, <1>1
<1>9. ASSUME hits # {}, Len(list[part[Max(hits)].first]) = Len(str)
      PROVE  \E n \in DOMAIN list : list[n] = u
  <2>1. hits \in SUBSET Nat /\ \A n \in hits : n <= Len(str)
    BY <1>1, <1>8
  <2>2. Max(hits) \in hits
    <3> HIDE DEF hits
    <3>1. PICK B \in hits : \A y \in hits : y <= B
      BY <1>1, <1>9, <2>1, GreatestOf
    <3>2. Max(hits) = B
      BY <2>1, <3>1, MaxIs
    <3> QED
      BY <3>2
  <2>3. PICK k : k = part[Max(hits)].first
    OBVIOUS
  <2>4. k \in DOMAIN list /\ strncicmpEqual(str, list[k]) /\ Len(list[k]) = Len(str)
    BY <2>2, <2>3, <1>8, <1>9
  <2>5. list[k] \in Text /\ list[k] = toLower(list[k])
    BY <2>4
  <2>6. \A i \in 1 .. Len(str) : list[k][i] = u[i]
    <3> SUFFICES ASSUME NEW i \in 1 .. Len(str)
                 PROVE  list[k][i] = u[i]
      OBVIOUS
    <3>1. i \in DOMAIN list[k] /\ i \in Nat \ {0} /\ i <= Len(str)
      BY <2>4, <2>5, <1>1 DEF Text
    <3>2. LowerChar[At(str, i)] = LowerChar[list[k][i]]
      BY <2>4, <3>1 DEF strncicmpEqual
    <3>3. At(str, i) = str[i]
      BY <3>1, AtIs
    <3>4. list[k][i] = LowerChar[list[k][i]]
      <4>1. PICK t : t = list[k]
        OBVIOUS
      <4>2. t \in Text /\ toLower(t) = t /\ i \in 1 .. Len(t)
        BY <4>1, <2>4, <2>5
      <4>3. toLower(t)[i] = LowerChar[t[i]]
        BY <4>2, LowerOfText
      <4> QED
        BY <4>1, <4>2, <4>3
    <3> QED
      BY <3>2, <3>3, <3>4, <1>1
  <2>7. list[k] = u
    BY <2>4, <2>5, <2>6, <1>1, SameText
  <2> QED
    BY <2>4, <2>7
<1>10. ASSUME NEW j \in DOMAIN list, list[j] = u
       PROVE  hits # {} /\ Len(list[part[Max(hits)].first]) = Len(str)
  <2> DEFINE L == Len(str)
  <2>1. L \in 0 .. L /\ L \in Nat \ {0} /\ IsPart(list, u, part[L], L)
    BY <1>1, <1>4
  <2>2. Agrees(list[j], u, L)
    BY <1>10 DEF Agrees
  <2>3. part[L].first <= j /\ j < part[L].last
    BY <2>1, <2>2 DEF IsPart
  <2>4. PICK k : k = part[L].first
    OBVIOUS
  <2>5. k \in Nat /\ k <= j /\ k \in DOMAIN list /\ Agrees(list[k], u, L)
    BY <2>1, <2>3, <2>4, <1>1 DEF IsPart
  <2>6. L \in Full
    <3>1. part[L].first < part[L].last
      BY <2>1, <2>3, <1>1 DEF IsPart
    <3> QED
      BY <2>1, <3>1, <1>4
  <2>7. matchedLen = L
    <3> HIDE DEF Full
    <3>1. Max(Full) = L
      BY <2>6, <1>5, MaxIs
    <3> QED
      BY <3>1 DEF matchedLen
  <2>8. list[k] \in Text /\ list[j] \in Text
    BY <2>5
  <2>9. Len(list[k]) \in Nat /\ Len(list[k]) >= L /\ \A i \in 1 .. L : list[k][i] = u[i]
    <3>1. Len(list[k]) \in Nat
      BY <2>8 DEF Text
    <3>2. ASSUME NEW i \in 1 .. L
          PROVE  i <= Len(list[k]) /\ list[k][i] = u[i]
      <4>1. i \in Nat \ {0} /\ i <= Len(u)
        BY <1>1
      <4>2. At(list[k], i) = At(u, i) /\ At(u, i) = u[i] /\ At(u, i) # Nul
        BY <2>5, <4>1, <1>1, AtIs DEF Agrees, Letters
      <4> QED
        BY <4>1, <4>2, <2>8, AtIs
    <3>3. L <= Len(list[k])
      BY <3>2, <2>1
    <3> QED
      BY <3>1, <3>2, <3>3
  <2>10. Len(list[k]) = L
    <3>1. SUFFICES ASSUME Len(list[k]) > L
                   PROVE  FALSE
      BY <2>9, <2>1
    <3>2. L + 1 \in Nat \ {0} /\ L + 1 <= Len(list[k]) /\ L + 1 > Len(u)
      BY <3>1, <2>9, <2>1, <1>1
    <3>3. At(list[k], L + 1) \in Letters /\ At(u, L + 1) = Nul
      BY <3>2, <2>8, <1>1, AtIs
    <3>4. \A i \in 1 .. L : At(u, i) = At(list[k], i)
      BY <2>5 DEF Agrees
    <3>5. Parts(u, list[k], L + 1)
      <4>1. (L + 1) - 1 = L
        BY <2>1
      <4>2. Code[At(u, L + 1)] < Code[At(list[k], L + 1)]
        BY <3>3, CodesAreApart
      <4> QED
        BY <3>4, <4>1, <4>2 DEF Parts
    <3>6. Less(u, list[k])
      BY <3>2, <3>5, <2>8, <1>1, LessIsParting
    <3>7. ~Less(list[k], u) /\ list[k] # u
      BY <3>6, <2>8, <1>1, LessIsStrict
    <3>8. k # j /\ k < j
      BY <3>7, <2>5, <1>10, <1>1
    <3> QED
      BY <3>7, <3>8, <2>5, <1>10 DEF Ascending
  <2>11. strncicmpEqual(str, list[k])
    <3> SUFFICES ASSUME NEW i \in DOMAIN list[k]
                 PROVE  LowerChar[At(str, i)] = LowerChar[list[k][i]]
      BY DEF strncicmpEqual
    <3>1. i \in 1 .. L /\ i \in Nat \ {0} /\ i <= L
      BY <2>8, <2>10, <1>1 DEF Text
    <3>2. list[k][i] = LowerChar[str[i]] /\ At(str, i) = str[i] /\ At(str, i) \in Chars
      BY <3>1, <2>9, <1>1, AtIs
    <3> QED
      BY <3>2, LowerIs
  <2>12. ~charIsSymbolToken(At(str, L + 1))
    <3>1. At(str, L + 1) = Nul
      BY <2>1, AtIs
    <3> QED
      BY <3>1 DEF charIsSymbolToken, Nul
  <2>13. L \in hits /\ hits \in SUBSET Nat /\ \A n \in hits : n <= L
    BY <2>1, <2>4, <2>7, <2>11, <2>12, <1>1
  <2>14. Max(hits) = L
    <3> HIDE DEF hits
    <3> QED
      BY <2>13, MaxIs
  <2> QED
    BY <2>4, <2>10, <2>13, <2>14
<1> QED
  BY <1>3, <1>9, <1>10

\* What initCommandMatcher keeps of the commands' names.
LEMMA UpdatedIs ==
  ASSUME NEW names \in Seq(Text)
  PROVE  LET list == updateFromIndex(names)
         IN /\ list \in Seq(Text) /\ Ascending(list) /\ \A n \in DOMAIN list : toLower(list[n]) = list[n]
            /\ \A t : (\E n \in DOMAIN list : list[n] = t) <=> \E k \in DOMAIN names : toLower(names[k]) = t
<1> DEFINE lowered == [k \in DOMAIN names |-> toLower(names[k])]
           list == updateFromIndex(names)
<1>1. DOMAIN names = 1 .. Len(names) /\ Len(names) \in Nat /\ \A k \in DOMAIN names : names[k] \in Text
  OBVIOUS
<1>2. \A k \in DOMAIN names : toLower(names[k]) \in Text /\ toLower(toLower(names[k])) = toLower(names[k])
  BY <1>1, LowerOfText
<1>3. lowered \in Seq(Text) /\ DOMAIN lowered = DOMAIN names /\ \A k \in DOMAIN names : lowered[k] = toLower(names[k])
  <2>1. \A k \in 1 .. Len(names) : toLower(names[k]) \in Text
    BY <1>1, <1>2
  <2> QED
    BY <1>1, <2>1
<1> HIDE DEF lowered
<1>4. list = Sort(lowered)
  BY DEF updateFromIndex, lowered
<1>5. /\ list \in Seq(Text) /\ Ascending(list)
      /\ \A k \in DOMAIN lowered : \E n \in DOMAIN list : list[n] = lowered[k]
      /\ \A n \in DOMAIN list : \E k \in DOMAIN lowered : list[n] = lowered[k]
  BY <1>3, <1>4, SortIs
<1> HIDE DEF list
<1>6. \A n \in DOMAIN list : toLower(list[n]) = list[n]
  BY <1>2, <1>3, <1>5
<1>7. \A t : (\E n \in DOMAIN list : list[n] = t) <=> \E k \in DOMAIN names : toLower(names[k]) = t
  BY <1>3, <1>5
<1> QED
  BY <1>5, <1>6, <1>7 DEF list

-----------------------------------------------------------------------------
(* Counting in lists.                                                      *)

Places(s, T) == {k \in DOMAIN s : s[k] \in T}
Count(s, T) == Cardinality(Places(s, T))
Once(x, T) == IF x \in T THEN 1 ELSE 0

LEMMA PlacesAreFinite ==
  ASSUME NEW S, NEW s \in Seq(S), NEW T
  PROVE  /\ IsFiniteSet(Places(s, T)) /\ Count(s, T) \in Nat
         /\ Count(s, T) = 0 <=> \A k \in DOMAIN s : s[k] \notin T
         /\ Places(s, T) \in SUBSET Nat
<1>1. DOMAIN s = 1 .. Len(s) /\ Len(s) \in Nat
  OBVIOUS
<1>2. IsFiniteSet(DOMAIN s)
  BY <1>1, FS_Interval
<1>3. Places(s, T) \in SUBSET (DOMAIN s) /\ Places(s, T) \in SUBSET Nat
  BY <1>1 DEF Places
<1>4. IsFiniteSet(Places(s, T)) /\ Count(s, T) \in Nat
  BY <1>2, <1>3, FS_Subset, FS_CardinalityType DEF Count
<1>5. Count(s, T) = 0 <=> Places(s, T) = {}
  BY <1>4, FS_EmptySet DEF Count
<1>6. Places(s, T) = {} <=> \A k \in DOMAIN s : s[k] \notin T
  BY DEF Places
<1> QED
  BY <1>3, <1>4, <1>5, <1>6

LEMMA CountOfNone ==
  ASSUME NEW T
  PROVE  Count(<<>>, T) = 0
<1>1. Places(<<>>, T) = {}
  BY DEF Places
<1> QED
  BY <1>1, FS_EmptySet DEF Count

LEMMA CountAppend ==
  ASSUME NEW S, NEW s \in Seq(S), NEW x \in S, NEW T
  PROVE  Count(Append(s, x), T) = Count(s, T) + Once(x, T)
<1> DEFINE t == Append(s, x)
           n == Len(s) + 1
<1>1. /\ DOMAIN s = 1 .. Len(s) /\ Len(s) \in Nat /\ DOMAIN t = 1 .. n /\ t[n] = x
      /\ \A k \in 1 .. Len(s) : t[k] = s[k]
  OBVIOUS
<1>2. IsFiniteSet(Places(s, T)) /\ Count(s, T) \in Nat
  BY PlacesAreFinite
<1>3. \A k : k \in 1 .. n <=> k \in 1 .. Len(s) \/ k = n
  BY <1>1
<1>4. n \notin Places(s, T)
  BY <1>1 DEF Places
<1> HIDE DEF t, n
<1>5. CASE x \in T
  <2>1. Places(t, T) = Places(s, T) \cup {n}
    BY <1>1, <1>3, <1>5 DEF Places
  <2>2. Count(t, T) = Count(s, T) + 1
    BY <2>1, <1>2, <1>4, FS_AddElement DEF Count
  <2> QED
    BY <2>2, <1>5 DEF Once, t
<1>6. CASE x \notin T
  <2>1. Places(t, T) = Places(s, T)
    BY <1>1, <1>3, <1>6 DEF Places
  <2>2. Count(t, T) = Count(s, T)
    BY <2>1 DEF Count
  <2> QED
    BY <2>2, <1>2, <1>6 DEF Once, t
<1> QED
  BY <1>5, <1>6

LEMMA Shifted ==
  ASSUME NEW K \in SUBSET Int, IsFiniteSet(K), NEW d \in Int
  PROVE  LET M == {k + d : k \in K} IN IsFiniteSet(M) /\ Cardinality(M) = Cardinality(K)
<1> DEFINE M == {k + d : k \in K}
           f == [k \in K |-> k + d]
<1>1. f \in [K -> M]
  OBVIOUS
<1>2. \A a, b \in K : f[a] = f[b] => a = b
  OBVIOUS
<1>3. \A m \in M : \E k \in K : f[k] = m
  OBVIOUS
<1> HIDE DEF f, M
<1>4. f \in Bijection(K, M)
  BY <1>1, <1>2, <1>3 DEF Bijection, Injection, Surjection, IsInjective
<1>5. ExistsBijection(K, M)
  BY <1>4 DEF ExistsBijection
<1>6. IsFiniteSet(M) /\ Cardinality(M) = Cardinality(K)
  BY <1>5, FS_Bijection
<1> QED
  BY <1>6 DEF M

LEMMA CountConcat ==
  ASSUME NEW S, NEW s \in Seq(S), NEW t \in Seq(S), NEW T
  PROVE  Count(s \o t, T) = Count(s, T) + Count(t, T)
<1> DEFINE r == s \o t
           M == {k + Len(s) : k \in Places(t, T)}
<1>1. /\ DOMAIN s = 1 .. Len(s) /\ Len(s) \in Nat /\ DOMAIN t = 1 .. Len(t) /\ Len(t) \in Nat
      /\ r \in Seq(S) /\ DOMAIN r = 1 .. Len(s) + Len(t)
      /\ \A k \in 1 .. Len(s) : r[k] = s[k]
      /\ \A k \in 1 .. Len(t) : r[k + Len(s)] = t[k]
  OBVIOUS
<1>2. /\ IsFiniteSet(Places(s, T)) /\ IsFiniteSet(Places(t, T)) /\ Count(s, T) \in Nat /\ Count(t, T) \in Nat
      /\ Places(t, T) \in SUBSET Int
  <2>1. IsFiniteSet(Places(s, T)) /\ Count(s, T) \in Nat
    BY PlacesAreFinite
  <2>2. IsFiniteSet(Places(t, T)) /\ Count(t, T) \in Nat /\ Places(t, T) \in SUBSET Nat
    BY PlacesAreFinite
  <2>3. Places(t, T) \in SUBSET Int
    BY <2>2
  <2> QED
    BY <2>1, <2>2, <2>3
<1>3. IsFiniteSet(M) /\ Cardinality(M) = Count(t, T)
  <2>1. PICK d : d = Len(s)
    OBVIOUS
  <2>2. PICK K : K = Places(t, T)
    OBVIOUS
  <2>3. K \in SUBSET Int /\ IsFiniteSet(K) /\ d \in Int
    BY <2>1, <2>2, <1>1, <1>2
  <2>4. IsFiniteSet({k + d : k \in K}) /\ Cardinality({k + d : k \in K}) = Cardinality(K)
    BY ONLY <2>3, Shifted
  <2> QED
    BY <2>1, <2>2, <2>4 DEF Count
<1> HIDE DEF r
<1>4. Places(r, T) = Places(s, T) \cup M
  <2>1. ASSUME NEW k \in Places(r, T)
        PROVE  k \in Places(s, T) \cup M
    <3>1. k \in 1 .. Len(s) + Len(t) /\ r[k] \in T
      BY <2>1, <1>1 DEF Places
    <3>2. CASE k <= Len(s)
      <4>1. k \in 1 .. Len(s)
        BY <3>1, <3>2, <1>1
      <4> QED
        BY <4>1, <3>1, <1>1 DEF Places
    <3>3. CASE k > Len(s)
      <4>1. k - Len(s) \in 1 .. Len(t) /\ k = (k - Len(s)) + Len(s)
        BY <3>1, <3>3, <1>1
      <4>2. k - Len(s) \in Places(t, T)
        BY <4>1, <3>1, <1>1 DEF Places
      <4> QED
        BY <4>1, <4>2
    <3> QED
      BY <3>1, <3>2, <3>3, <1>1
  <2>2. ASSUME NEW k \in Places(s, T)
        PROVE  k \in Places(r, T)
    BY <2>2, <1>1 DEF Places
  <2>3. ASSUME NEW k \in M
        PROVE  k \in Places(r, T)
    <3>1. PICK j \in Places(t, T) : k = j + Len(s)
      BY <2>3
    <3>2. j \in 1 .. Len(t) /\ t[j] \in T
      BY <3>1, <1>1 DEF Places
    <3> QED
      BY <3>1, <3>2, <1>1 DEF Places
  <2> HIDE DEF M
  <2> QED
    BY <2>1, <2>2, <2>3
<1>5. Places(s, T) \cap M = {}
  <2>1. ASSUME NEW k \in M, k \in Places(s, T)
        PROVE  FALSE
    <3>1. PICK j \in Places(t, T) : k = j + Len(s)
      BY <2>1
    <3>2. j \in 1 .. Len(t) /\ k \in 1 .. Len(s)
      BY <3>1, <2>1, <1>1 DEF Places
    <3> QED
      BY <3>1, <3>2, <1>1
  <2> HIDE DEF M
  <2> QED
    BY <2>1
<1> HIDE DEF M
<1>6. Cardinality(Places(r, T)) = Cardinality(Places(s, T)) + Cardinality(M) - Cardinality(Places(s, T) \cap M)
  BY <1>2, <1>3, <1>4, FS_Union
<1>7. Cardinality(Places(r, T)) = Count(s, T) + Count(t, T)
  <2>1. Cardinality(Places(s, T) \cap M) = 0
    BY <1>5, FS_EmptySet
  <2>2. Cardinality(Places(s, T)) = Count(s, T)
    BY DEF Count
  <2> HIDE DEF M
  <2> QED
    BY ONLY <2>1, <2>2, <1>2, <1>3, <1>6
<1> QED
  BY <1>7 DEF r, Count

LEMMA CountOfOne ==
  ASSUME NEW x, NEW T
  PROVE  Count(<<x>>, T) = Once(x, T)
<1>1. <<x>> = Append(<<>>, x) /\ <<>> \in Seq({x}) /\ x \in {x}
  OBVIOUS
<1>2. Count(Append(<<>>, x), T) = Count(<<>>, T) + Once(x, T)
  BY ONLY <1>1, CountAppend
<1>3. Once(x, T) \in Nat
  BY DEF Once
<1> QED
  BY <1>1, <1>2, <1>3, CountOfNone

LEMMA CountTail ==
  ASSUME NEW S, NEW s \in Seq(S), s # <<>>, NEW T
  PROVE  Count(s, T) = Once(Head(s), T) + Count(Tail(s), T)
<1>1. Head(s) \in S /\ <<Head(s)>> \in Seq(S) /\ Tail(s) \in Seq(S) /\ s = <<Head(s)>> \o Tail(s)
  OBVIOUS
<1>2. Count(<<Head(s)>> \o Tail(s), T) = Count(<<Head(s)>>, T) + Count(Tail(s), T)
  BY ONLY <1>1, CountConcat
<1> QED
  BY <1>1, <1>2, CountOfOne

LEMMA CountHead ==
  ASSUME NEW S, NEW s \in Seq(S), s # <<>>, NEW x \in S, NEW T
  PROVE  Count([s EXCEPT ![1] = x], T) + Once(Head(s), T) = Count(s, T) + Once(x, T)
<1> DEFINE t == [s EXCEPT ![1] = x]
<1>1. t \in Seq(S) /\ t # <<>> /\ Head(t) = x /\ Tail(t) = Tail(s)
  <2>1. DOMAIN s = 1 .. Len(s) /\ Len(s) \in Nat /\ Len(s) # 0 /\ DOMAIN t = DOMAIN s
    OBVIOUS
  <2>2. t \in Seq(S) /\ Len(t) = Len(s)
    BY <2>1
  <2>3. t # <<>> /\ t[1] = x /\ \A k \in 2 .. Len(s) : t[k] = s[k]
    BY <2>1, <2>2
  <2>4. Tail(t) = Tail(s)
    <3>1. Tail(t) \in Seq(S) /\ Tail(s) \in Seq(S) /\ Len(Tail(t)) = Len(s) - 1 /\ Len(Tail(s)) = Len(s) - 1
      BY <2>2, <2>3
    <3>2. \A k \in 1 .. Len(s) - 1 : Tail(t)[k] = t[k + 1] /\ Tail(s)[k] = s[k + 1] /\ t[k + 1] = s[k + 1]
      BY <2>1, <2>2, <2>3
    <3> HIDE DEF t
    <3> QED
      BY <3>1, <3>2
  <2> QED
    BY <2>2, <2>3, <2>4
<1> HIDE DEF t
<1>2. Count(t, T) = Once(x, T) + Count(Tail(s), T)
  BY <1>1, CountTail
<1>3. Count(s, T) = Once(Head(s), T) + Count(Tail(s), T)
  BY CountTail
<1>4. Count(Tail(s), T) \in Nat
  <2>0. Tail(s) \in Seq(S)
    OBVIOUS
  <2>1. PICK r \in Seq(S) : r = Tail(s)
    BY ONLY <2>0, Zenon
  <2>2. Count(r, T) \in Nat
    BY PlacesAreFinite
  <2> QED
    BY <2>1, <2>2
<1>5. Once(x, T) \in Nat /\ Once(Head(s), T) \in Nat
  BY DEF Once
<1> QED
  BY <1>2, <1>3, <1>4, <1>5 DEF t

\* The least place of a list with some property, as a set of places.
LEMMA FirstPlace ==
  ASSUME NEW S, NEW s \in Seq(S), NEW K \in SUBSET DOMAIN s, NEW k \in K
  PROVE  \E j \in K : j <= k /\ \A i \in 1 .. j - 1 : i \notin K
<1>1. K \in SUBSET Nat /\ K # {}
  OBVIOUS
<1>2. PICK j \in K : \A i \in K : j <= i
  BY <1>1, LeastOf
<1> QED
  BY <1>1, <1>2

-----------------------------------------------------------------------------
(* What is loaded.                                                         *)

\* What the loader goes through in place of the directories that are named: for ODB
\* the SDK's alone, though more than once.  The books are kept about these.
Scanned == IF setup.sdk = "ODB" THEN SdkDirs ELSE Named
TimesScanned(l) == Cardinality({k \in DOMAIN Scanned : l \in Files(Scanned[k])})
WantedScanned == {l \in DOMAIN Libraries : TimesScanned(l) > 0 /\ Openable(l)}
LoadedAsScanned ==
  status \notin Final \cup {"start", "scan"} =>
    /\ \A l \in WantedScanned : \A k \in Entries(l) :
         LET c == CommandOf(l, k)
         IN Cardinality(Copies(c)) = Cardinality(Alike(l, c)) * TimesScanned(l)
    /\ \A j \in DOMAIN commands :
         \E l \in WantedScanned : \E k \in Entries(l) : commands[j] = CommandOf(l, k)

OffersOf(l) == {CommandOf(l, k) : k \in Entries(l)}
Given(l) == \E k \in DOMAIN Scanned : l \in Files(Scanned[k])
Offered == UNION {OffersOf(l) : l \in WantedScanned}

\* How often the loader will have opened l at the end, and how often it still will.
Holding(l) == {d \in SUBSET DOMAIN Libraries : l \in d}
Leading(l) == {d \in Directory : d # NONE /\ l \in Files(Searched(d))}
Shown(l) == {d \in Directory : l \in Files(d)}
Total(l) == Count(SdkDirs, Shown(l)) + Count(setup.pluginDirs, Leading(l))
Left(l) == Count(toLoad, Holding(l)) + Count(dirs, Leading(l))
Pending(l, c) == IF library = l THEN {k \in Alike(l, c) : k > next} ELSE {}

\* A command is there as often as its library was opened, but for the rest of
\* the library that is open.
Balanced(l, c) ==
  Count(commands, {c}) + Cardinality(Alike(l, c)) * Left(l) + Cardinality(Pending(l, c))
    = Cardinality(Alike(l, c)) * Total(l)

LoadTypes ==
  /\ setup \in Setups
  /\ toLoad \in Seq(SUBSET DOMAIN Libraries)
  /\ dirs \in Seq(Directory)
  /\ library \in DOMAIN Libraries \cup {NONE}
  /\ next \in Nat
  /\ commands \in Seq(Offered)
LoadSources ==
  /\ \A k \in DOMAIN toLoad : \A l \in toLoad[k] : Given(l)
  /\ setup.sdk = "DarkBASIC" => \A k \in DOMAIN dirs : \A l \in Files(dirs[k]) : Given(l)
  /\ library # NONE => library \in WantedScanned
LoadCounts ==
  /\ status = "start" => toLoad = <<>> /\ dirs = setup.pluginDirs /\ library = NONE /\ commands = <<>>
  /\ status = "scan" => (setup.sdk = "DarkBASIC" => setup.win32)
  /\ status = "scan" => \A l \in WantedScanned : \A c \in OffersOf(l) : Balanced(l, c)
LoadInv == LoadTypes /\ LoadSources /\ LoadCounts /\ LoadedAsScanned

LEMMA SetupIs ==
  ASSUME NEW s \in Setups
  PROVE  /\ s.sdk \in {"ODB", "DarkBASIC"} /\ s.win32 \in BOOLEAN /\ s.root \in BOOLEAN
         /\ s.sdkDirs \in Seq(Directory) /\ s.sdkDirs # <<>> /\ s.pluginDirs \in Seq(Directory)
BY SetupsAreSetups

SymbolEntries == [name : Text \cup {NONE}, typeinfo : Seq(STRING) \cup {NONE}]
StringEntries == [name : Text, returns : BOOLEAN, types : Seq(STRING), tokens : Nat, keyword : BOOLEAN]
LEMMA LibraryIs ==
  ASSUME NEW l \in DOMAIN Libraries
  PROVE  LET lib == Libraries[l]
         IN /\ l # NONE
            /\ lib.symbols \in Seq(SymbolEntries)
            /\ lib.strings \in Seq(StringEntries)
            /\ lib.symoffset \in Nat
            /\ "GNU_HASH" \in Found(lib) /\ ~lib.exports =>
                 \A k \in DOMAIN lib.symbols : NONE \in {lib.symbols[k].name, lib.symbols[k].typeinfo}
BY LibrariesAreLibraries DEF SymbolEntries, StringEntries

LEMMA CommandNames ==
  ASSUME NEW l, NEW symbol, NEW entry
  PROVE  /\ SymbolCommand(l, symbol).library = l /\ SymbolCommand(l, symbol).name = symbol.name
         /\ StringCommand(l, entry).library = l /\ StringCommand(l, entry).name = toLower(entry.name)
BY DEF SymbolCommand, StringCommand

LEMMA OffersAre ==
  ASSUME NEW l \in DOMAIN Libraries, NEW k \in Entries(l)
  PROVE  CommandOf(l, k).library = l /\ CommandOf(l, k).name \in Text
<1>1. CASE setup.sdk = "ODB"
  <2> DEFINE symbol == Libraries[l].symbols[k]
  <2>1. k \in DOMAIN Libraries[l].symbols /\ symbol.name # NONE
    BY <1>1 DEF Entries
  <2>2. symbol \in SymbolEntries
    <3>1. PICK s \in Seq(SymbolEntries) : s = Libraries[l].symbols
      BY LibraryIs
    <3> QED
      BY <2>1, <3>1
  <2>3. symbol.name \in Text
    BY <2>1, <2>2 DEF SymbolEntries
  <2>4. CommandOf(l, k) = SymbolCommand(l, symbol)
    BY <1>1 DEF CommandOf
  <2> HIDE DEF symbol
  <2> QED
    BY <2>3, <2>4, CommandNames
<1>2. CASE setup.sdk # "ODB"
  <2> DEFINE entry == Libraries[l].strings[k]
  <2>1. k \in DOMAIN Libraries[l].strings
    BY <1>2 DEF Entries
  <2>2. entry \in StringEntries
    <3>1. PICK s \in Seq(StringEntries) : s = Libraries[l].strings
      BY LibraryIs
    <3> QED
      BY <2>1, <3>1
  <2>3. toLower(entry.name) \in Text
    BY <2>2, LowerOfText DEF StringEntries
  <2>4. CommandOf(l, k) = StringCommand(l, entry)
    BY <1>2 DEF CommandOf
  <2> HIDE DEF entry
  <2> QED
    BY <2>3, <2>4, CommandNames
<1> QED
  BY <1>1, <1>2

LEMMA EntriesAreFinite ==
  ASSUME NEW l \in DOMAIN Libraries, NEW c
  PROVE  /\ Entries(l) \in SUBSET Nat /\ IsFiniteSet(Entries(l))
         /\ Alike(l, c) \in SUBSET Nat /\ IsFiniteSet(Alike(l, c)) /\ Cardinality(Alike(l, c)) \in Nat
         /\ c \in OffersOf(l) => Cardinality(Alike(l, c)) >= 1
<1> DEFINE m == Len(Libraries[l].symbols)
           n == Len(Libraries[l].strings)
<1>1. /\ m \in Nat /\ DOMAIN Libraries[l].symbols = 1 .. m
      /\ n \in Nat /\ DOMAIN Libraries[l].strings = 1 .. n
  BY LibraryIs
<1>2. IsFiniteSet(1 .. m) /\ IsFiniteSet(1 .. n)
  BY <1>1, FS_Interval
<1>3. Entries(l) \in SUBSET (1 .. m) \/ Entries(l) \in SUBSET (1 .. n)
  BY <1>1 DEF Entries
<1>4. Entries(l) \in SUBSET Nat /\ IsFiniteSet(Entries(l))
  BY <1>1, <1>2, <1>3, FS_Subset
<1>5. Alike(l, c) \in SUBSET Entries(l)
  BY DEF Alike
<1>6. IsFiniteSet(Alike(l, c)) /\ Cardinality(Alike(l, c)) \in Nat
  BY <1>4, <1>5, FS_Subset, FS_CardinalityType
<1>7. ASSUME c \in OffersOf(l)
      PROVE  Cardinality(Alike(l, c)) >= 1
  <2>1. Alike(l, c) # {}
    BY <1>7 DEF OffersOf, Alike
  <2>2. Cardinality(Alike(l, c)) # 0
    BY <1>6, <2>1, FS_EmptySet
  <2> QED
    BY <1>6, <2>2
<1> QED
  BY <1>4, <1>5, <1>6, <1>7

\* The setup says what is wanted.
SetupKept ==
  /\ WantedScanned' = WantedScanned /\ Offered' = Offered /\ SdkDirs' = SdkDirs /\ Scanned' = Scanned
  /\ \A l : /\ OffersOf(l)' = OffersOf(l) /\ Given(l)' = Given(l) /\ Entries(l)' = Entries(l)
            /\ Total(l)' = Total(l) /\ Leading(l)' = Leading(l) /\ TimesScanned(l)' = TimesScanned(l)
  /\ \A l, k : CommandOf(l, k)' = CommandOf(l, k)
  /\ \A l, c : Alike(l, c)' = Alike(l, c)
LEMMA WantedIsKept == setup' = setup => SetupKept
<1> SUFFICES ASSUME setup' = setup
             PROVE  SetupKept
  OBVIOUS
<1>1. SdkDirs' = SdkDirs
  BY DEF SdkDirs
<1>2. Scanned' = Scanned
  BY <1>1 DEF Scanned, Named
<1>3. \A l : Given(l)' = Given(l) /\ TimesScanned(l)' = TimesScanned(l) /\ Openable(l)' = Openable(l)
  BY <1>2 DEF Given, TimesScanned, Openable
<1>4. WantedScanned' = WantedScanned
  BY <1>3 DEF WantedScanned
<1>5. \A l : Entries(l)' = Entries(l)
  BY DEF Entries
<1>6. \A l, k : CommandOf(l, k)' = CommandOf(l, k)
  BY DEF CommandOf
<1>7. \A l : OffersOf(l)' = OffersOf(l)
  BY <1>5, <1>6 DEF OffersOf
<1>8. \A l, c : Alike(l, c)' = Alike(l, c)
  BY <1>5, <1>6 DEF Alike
<1>9. Offered' = Offered
  BY <1>4, <1>7 DEF Offered
<1>10. \A l : Leading(l)' = Leading(l)
  BY DEF Leading, Searched
<1>11. \A l : Total(l)' = Total(l)
  BY <1>1, <1>10 DEF Total
<1> QED
  BY <1>1, <1>2, <1>3, <1>4, <1>5, <1>6, <1>7, <1>8, <1>9, <1>10, <1>11 DEF SetupKept

LEMMA WantedIs ==
  ASSUME setup \in Setups
  PROVE  /\ WantedScanned \in SUBSET DOMAIN Libraries /\ NONE \notin WantedScanned
         /\ \A l \in DOMAIN Libraries : l \in WantedScanned <=> Given(l) /\ Openable(l)
         /\ Scanned \in Seq(Directory) /\ SdkDirs \in Seq(Directory)
         /\ \A l : TimesScanned(l) = Count(Scanned, Shown(l)) /\ TimesScanned(l) \in Nat
<1>1. SdkDirs \in Seq(Directory) /\ Scanned \in Seq(Directory)
  <2>1. setup.sdkDirs \in Seq(Directory) /\ setup.sdkDirs # <<>> /\ setup.pluginDirs \in Seq(Directory)
    BY SetupIs
  <2>2. setup.sdkDirs[1] \in Directory
    BY <2>1
  <2>3. SdkDirs \in Seq(Directory)
    BY <2>1, <2>2 DEF SdkDirs
  <2> QED
    BY <2>1, <2>3 DEF Scanned, Named
<1>2. \A l : TimesScanned(l) = Count(Scanned, Shown(l))
  <2> SUFFICES ASSUME NEW l
               PROVE  TimesScanned(l) = Count(Scanned, Shown(l))
    OBVIOUS
  <2>1. {k \in DOMAIN Scanned : l \in Files(Scanned[k])} = Places(Scanned, Shown(l))
    BY <1>1 DEF Places, Shown
  <2> QED
    BY <2>1 DEF TimesScanned, Count
<1>3. \A l : TimesScanned(l) \in Nat /\ (TimesScanned(l) = 0 <=> ~Given(l))
  <2> SUFFICES ASSUME NEW l
               PROVE  TimesScanned(l) \in Nat /\ (TimesScanned(l) = 0 <=> ~Given(l))
    OBVIOUS
  <2>1. Count(Scanned, Shown(l)) \in Nat /\ (Count(Scanned, Shown(l)) = 0 <=> \A k \in DOMAIN Scanned : Scanned[k] \notin Shown(l))
    BY <1>1, PlacesAreFinite
  <2>2. \A k \in DOMAIN Scanned : Scanned[k] \in Shown(l) <=> l \in Files(Scanned[k])
    BY <1>1 DEF Shown
  <2> QED
    BY <1>2, <2>1, <2>2 DEF Given
<1>4. \A l \in DOMAIN Libraries : l \in WantedScanned <=> Given(l) /\ Openable(l)
  BY <1>3 DEF WantedScanned
<1>5. WantedScanned \in SUBSET DOMAIN Libraries
  BY DEF WantedScanned
<1> QED
  BY <1>1, <1>2, <1>3, <1>4, <1>5, LibrariesAreLibraries

LEMMA ProductNext ==
  ASSUME NEW a \in Nat, NEW b \in Nat
  PROVE  a * b \in Nat /\ a * (b + 1) = a * b + a
OBVIOUS

\* All numbers of the balance are numbers.
LEMMA BalanceTypes ==
  ASSUME LoadTypes, NEW l \in DOMAIN Libraries, NEW c
  PROVE  /\ Count(commands, {c}) \in Nat /\ Count(toLoad, Holding(l)) \in Nat /\ Count(dirs, Leading(l)) \in Nat
         /\ Left(l) \in Nat /\ Total(l) \in Nat /\ Cardinality(Alike(l, c)) \in Nat
         /\ IsFiniteSet(Pending(l, c)) /\ Cardinality(Pending(l, c)) \in Nat
<1>1. setup \in Setups /\ commands \in Seq(Offered) /\ toLoad \in Seq(SUBSET DOMAIN Libraries) /\ dirs \in Seq(Directory)
  BY DEF LoadTypes
<1>2. Count(commands, {c}) \in Nat /\ Count(toLoad, Holding(l)) \in Nat /\ Count(dirs, Leading(l)) \in Nat
  BY <1>1, PlacesAreFinite
<1>3. SdkDirs \in Seq(Directory) /\ setup.pluginDirs \in Seq(Directory)
  BY <1>1, WantedIs, SetupIs
<1>4. Count(SdkDirs, Shown(l)) \in Nat /\ Count(setup.pluginDirs, Leading(l)) \in Nat
  BY <1>3, PlacesAreFinite
<1>5. IsFiniteSet(Alike(l, c)) /\ Cardinality(Alike(l, c)) \in Nat
  BY EntriesAreFinite
<1>6. Pending(l, c) \in SUBSET Alike(l, c)
  BY DEF Pending
<1>7. IsFiniteSet(Pending(l, c)) /\ Cardinality(Pending(l, c)) \in Nat
  BY <1>5, <1>6, FS_Subset, FS_CardinalityType
<1> QED
  BY <1>2, <1>4, <1>5, <1>7 DEF Left, Total

LEMMA StopIsSafe ==
  ASSUME LoadTypes', LoadSources', status' \in Final
  PROVE  LoadInv'
<1>1. status' # "start" /\ status' # "scan"
  BY DEF Final
<1> QED
  BY <1>1 DEF LoadInv, LoadCounts, LoadedAsScanned

\* Nothing that is loaded changes.
LEMMA SourcesKept ==
  ASSUME LoadInv, UNCHANGED <<setup, toLoad, dirs, library, next, commands>>
  PROVE  LoadTypes' /\ LoadSources'
<1>1. SetupKept
  BY WantedIsKept
<1>2. LoadTypes'
  BY <1>1 DEF LoadInv, LoadTypes, SetupKept
<1>3. LoadSources'
  BY <1>1 DEF LoadInv, LoadSources, SetupKept
<1> QED
  BY <1>2, <1>3

LEMMA NoRootStep ==
  ASSUME LoadInv, NoRoot
  PROVE  LoadInv'
<1>1. UNCHANGED <<setup, toLoad, dirs, library, next, commands>> /\ status' = "failed"
  BY DEF NoRoot, Fail
<1> QED
  BY <1>1, SourcesKept, StopIsSafe DEF Final

LEMMA ScanSdkStep ==
  ASSUME LoadInv, ScanSdk
  PROVE  LoadInv'
<1>1. /\ status = "start" /\ status' = "scan" /\ UNCHANGED <<setup, dirs, library, next, commands>>
      /\ toLoad' = [k \in DOMAIN SdkDirs |-> Files(SdkDirs[k])]
      /\ ~(setup.sdk = "DarkBASIC" /\ ~setup.win32)
  BY DEF ScanSdk
<1>2. toLoad = <<>> /\ dirs = setup.pluginDirs /\ library = NONE /\ commands = <<>>
  BY <1>1 DEF LoadInv, LoadCounts
<1>3. SetupKept
  BY <1>1, WantedIsKept
<1>4. setup \in Setups /\ next \in Nat
  BY DEF LoadInv, LoadTypes
<1>5. /\ SdkDirs \in Seq(Directory) /\ Scanned \in Seq(Directory) /\ setup.pluginDirs \in Seq(Directory)
      /\ DOMAIN SdkDirs = 1 .. Len(SdkDirs) /\ Len(SdkDirs) \in Nat
      /\ WantedScanned \in SUBSET DOMAIN Libraries
  BY <1>4, WantedIs, SetupIs
<1>6. \A d \in Directory : Files(d) \in SUBSET DOMAIN Libraries
  BY DEF Files, Directory
<1>7. toLoad' \in Seq(SUBSET DOMAIN Libraries) /\ DOMAIN toLoad' = DOMAIN SdkDirs
  <2>1. \A k \in 1 .. Len(SdkDirs) : Files(SdkDirs[k]) \in SUBSET DOMAIN Libraries
    BY <1>5, <1>6
  <2> QED
    BY <1>1, <1>5, <2>1
<1>8. LoadTypes'
  BY <1>1, <1>2, <1>3, <1>4, <1>5, <1>7 DEF LoadTypes, SetupKept
<1>9. \A k \in DOMAIN SdkDirs : k \in DOMAIN Scanned /\ Scanned[k] = SdkDirs[k]
  BY <1>5 DEF Scanned, Named
<1>10. \A k \in DOMAIN setup.pluginDirs : \A l \in Files(setup.pluginDirs[k]) : setup.sdk = "DarkBASIC" => Given(l)
  <2> SUFFICES ASSUME NEW k \in DOMAIN setup.pluginDirs, NEW l \in Files(setup.pluginDirs[k]), setup.sdk = "DarkBASIC"
               PROVE  Given(l)
    OBVIOUS
  <2>1. Scanned = SdkDirs \o setup.pluginDirs
    BY DEF Scanned, Named
  <2>2. k + Len(SdkDirs) \in DOMAIN Scanned /\ Scanned[k + Len(SdkDirs)] = setup.pluginDirs[k]
    BY <1>5, <2>1
  <2> QED
    BY <2>2 DEF Given
<1>11. LoadSources'
  <2>1. \A k \in DOMAIN toLoad' : \A l \in toLoad'[k] : Given(l)
    BY <1>1, <1>7, <1>9 DEF Given
  <2> QED
    BY <2>1, <1>1, <1>2, <1>3, <1>10 DEF LoadSources, SetupKept
<1>12. ASSUME NEW l \in WantedScanned, NEW c \in OffersOf(l)
       PROVE  Balanced(l, c)'
  <2>1. Count(toLoad', Holding(l)) = Count(SdkDirs, Shown(l))
    <3>1. Places(toLoad', Holding(l)) = Places(SdkDirs, Shown(l))
      <4>1. \A k \in DOMAIN SdkDirs : toLoad'[k] = Files(SdkDirs[k]) /\ toLoad'[k] \in SUBSET DOMAIN Libraries /\ SdkDirs[k] \in Directory
        BY <1>1, <1>5, <1>6
      <4>2. \A k \in DOMAIN SdkDirs : toLoad'[k] \in Holding(l) <=> SdkDirs[k] \in Shown(l)
        BY <4>1 DEF Holding, Shown
      <4> QED
        BY <4>2, <1>7 DEF Places
    <3> QED
      BY <3>1 DEF Count
  <2>2. Left(l)' = Total(l)
    BY <2>1, <1>1, <1>2, <1>3 DEF Left, Total, SetupKept, Holding
  <2>3. Count(commands', {c}) = 0
    BY <1>1, <1>2, CountOfNone
  <2>4. l # NONE /\ Pending(l, c)' = {}
    BY <1>1, <1>2, <1>4, WantedIs DEF Pending
  <2>5. Cardinality(Pending(l, c)') = 0
    BY <2>4, FS_EmptySet
  <2>6. Cardinality(Alike(l, c)) \in Nat /\ Total(l) \in Nat
    BY <1>5, BalanceTypes DEF LoadInv
  <2>7. Cardinality(Alike(l, c)) * Total(l) \in Nat
    BY <2>6, ProductNext
  <2>8. Balanced(l, c)' <=> Count(commands', {c}) + Cardinality(Alike(l, c)') * Left(l)' + Cardinality(Pending(l, c)')
                             = Cardinality(Alike(l, c)') * Total(l)'
    BY DEF Balanced
  <2>9. Alike(l, c)' = Alike(l, c) /\ Total(l)' = Total(l)
    BY <1>3 DEF SetupKept
  <2> QED
    BY <2>2, <2>3, <2>5, <2>7, <2>8, <2>9
<1>13. \A l \in WantedScanned' : \A c \in OffersOf(l)' : Balanced(l, c)'
  BY <1>12, <1>3 DEF SetupKept
<1>14. LoadCounts'
  BY <1>1, <1>13 DEF LoadCounts
<1>15. LoadedAsScanned'
  BY <1>1 DEF LoadedAsScanned
<1> QED
  BY <1>8, <1>11, <1>14, <1>15 DEF LoadInv

LEMMA ScanGoesOn ==
  ASSUME LoadInv, status = "scan", status' = "scan", setup' = setup, LoadTypes', LoadSources',
         \A l \in WantedScanned : \A c \in OffersOf(l) : Balanced(l, c)'
  PROVE  LoadInv'
<1>1. SetupKept
  BY WantedIsKept
<1>2. \A l \in WantedScanned' : \A c \in OffersOf(l)' : Balanced(l, c)'
  BY <1>1 DEF SetupKept
<1>3. (setup.sdk = "DarkBASIC" => setup.win32)'
  BY DEF LoadInv, LoadCounts
<1>4. LoadCounts'
  BY <1>2, <1>3 DEF LoadCounts
<1>5. LoadedAsScanned'
  BY DEF LoadedAsScanned
<1> QED
  BY <1>4, <1>5 DEF LoadInv

LEMMA BalanceKept ==
  ASSUME LoadTypes, SetupKept, NEW l \in DOMAIN Libraries, NEW c, Balanced(l, c), Left(l)' = Left(l),
         Count(commands', {c}) + Cardinality(Pending(l, c)') = Count(commands, {c}) + Cardinality(Pending(l, c)),
         Count(commands', {c}) \in Nat, Cardinality(Pending(l, c)') \in Nat
  PROVE  Balanced(l, c)'
<1> DEFINE a == Cardinality(Alike(l, c))
<1>1. Alike(l, c)' = Alike(l, c) /\ Total(l)' = Total(l)
  BY DEF SetupKept
<1>2. /\ a \in Nat /\ Left(l) \in Nat /\ Total(l) \in Nat
      /\ Count(commands, {c}) \in Nat /\ Cardinality(Pending(l, c)) \in Nat
  BY BalanceTypes
<1>3. Count(commands, {c}) + a * Left(l) + Cardinality(Pending(l, c)) = a * Total(l)
  BY DEF Balanced
<1>4. Balanced(l, c)' <=> Count(commands', {c}) + a * Left(l) + Cardinality(Pending(l, c)') = a * Total(l)
  BY <1>1 DEF Balanced
<1>5. a * Left(l) \in Nat /\ a * Total(l) \in Nat
  BY <1>2, ProductNext
<1> QED
  BY ONLY <1>2, <1>3, <1>4, <1>5,
          Count(commands', {c}) + Cardinality(Pending(l, c)') = Count(commands, {c}) + Cardinality(Pending(l, c)),
          Count(commands', {c}) \in Nat, Cardinality(Pending(l, c)') \in Nat

LEMMA BalanceOpened ==
  ASSUME LoadTypes, SetupKept, NEW l \in DOMAIN Libraries, NEW c, Balanced(l, c),
         Left(l)' \in Nat, Left(l) = Left(l)' + 1, commands' = commands,
         Pending(l, c) = {}, Pending(l, c)' = Alike(l, c)
  PROVE  Balanced(l, c)'
<1> DEFINE a == Cardinality(Alike(l, c))
<1>1. Alike(l, c)' = Alike(l, c) /\ Total(l)' = Total(l)
  BY DEF SetupKept
<1>2. a \in Nat /\ Total(l) \in Nat /\ Count(commands, {c}) \in Nat
  BY BalanceTypes
<1>3. Count(commands, {c}) + a * Left(l) + Cardinality(Pending(l, c)) = a * Total(l)
  BY DEF Balanced
<1>4. Balanced(l, c)' <=> Count(commands, {c}) + a * Left(l)' + a = a * Total(l)
  BY <1>1 DEF Balanced
<1>5. Cardinality(Pending(l, c)) = 0
  BY FS_EmptySet
<1>6. PICK f \in Nat : f = Left(l)'
  BY Zenon
<1>7. a * f \in Nat /\ a * (f + 1) = a * f + a
  BY <1>2, ProductNext
<1>8. a * Left(l) = a * (f + 1)
  BY <1>6
<1>9. a * Total(l) \in Nat
  BY <1>2, ProductNext
<1> HIDE DEF a
<1> QED
  BY ONLY <1>2, <1>3, <1>4, <1>5, <1>6, <1>7, <1>8, <1>9

\* While one library is read, nothing is opened.
LEMMA PendingIsOwn ==
  ASSUME NEW l, NEW c, library # l
  PROVE  Pending(l, c) = {}
BY DEF Pending

LEMMA ScanAdditionalStep ==
  ASSUME LoadInv, ScanAdditional
  PROVE  LoadInv'
<1> DEFINE dir == Head(dirs)
<1>1. /\ status = "scan" /\ dirs # <<>> /\ dirs' = Tail(dirs)
      /\ UNCHANGED <<setup, library, next, commands>>
      /\ \/ dir = NONE /\ UNCHANGED <<toLoad, status>>
         \/ dir # NONE /\ Searched(dir) # NONE /\ toLoad' = Append(toLoad, Searched(dir)) /\ UNCHANGED status
         \/ dir # NONE /\ Searched(dir) = NONE /\ status' = "threw" /\ UNCHANGED toLoad
  BY DEF ScanAdditional
<1>2. LoadTypes /\ LoadSources
  BY DEF LoadInv
<1>3. /\ setup \in Setups /\ toLoad \in Seq(SUBSET DOMAIN Libraries) /\ dirs \in Seq(Directory)
      /\ commands \in Seq(Offered) /\ library \in DOMAIN Libraries \cup {NONE} /\ next \in Nat
  BY <1>2 DEF LoadTypes
<1>4. SetupKept
  BY <1>1, WantedIsKept
<1>5. dir \in Directory /\ Tail(dirs) \in Seq(Directory) /\ dir = dirs[1] /\ 1 \in DOMAIN dirs
      /\ \A k \in DOMAIN Tail(dirs) : k + 1 \in DOMAIN dirs /\ Tail(dirs)[k] = dirs[k + 1]
  BY <1>1, <1>3
<1>6. setup.sdkDirs[1] \in Directory
  BY <1>3, SetupIs
<1>7. Searched(dir) \in Directory
  BY <1>5, <1>6 DEF Searched
<1>8. Searched(dir) # NONE => Searched(dir) \in SUBSET DOMAIN Libraries
  BY <1>7 DEF Directory
<1>9. toLoad' \in Seq(SUBSET DOMAIN Libraries)
  <2>1. ASSUME Searched(dir) # NONE, toLoad' = Append(toLoad, Searched(dir))
        PROVE  toLoad' \in Seq(SUBSET DOMAIN Libraries)
    BY <2>1, <1>3, <1>8
  <2> HIDE DEF dir
  <2> QED
    BY <1>1, <1>3, <2>1
<1>10. LoadTypes'
  BY <1>1, <1>3, <1>4, <1>5, <1>9 DEF LoadTypes, SetupKept
<1>11. ASSUME dir # NONE, Searched(dir) # NONE, NEW l \in Searched(dir)
       PROVE  Given(l)
  <2>1. CASE setup.sdk = "ODB"
    <3>1. Scanned = <<setup.sdkDirs[1]>> /\ Searched(dir) = setup.sdkDirs[1]
      BY <2>1 DEF Scanned, SdkDirs, Searched
    <3>2. 1 \in DOMAIN Scanned /\ Scanned[1] = Searched(dir)
      BY <3>1
    <3> QED
      BY <3>2, <1>11 DEF Given, Files
  <2>2. CASE setup.sdk # "ODB"
    <3>1. setup.sdk = "DarkBASIC" /\ Searched(dir) = dir
      BY <2>2, <1>3, SetupIs DEF Searched
    <3>2. l \in Files(dirs[1])
      BY <3>1, <1>5, <1>11 DEF Files
    <3> QED
      BY <3>1, <3>2, <1>2, <1>5 DEF LoadSources
  <2> QED
    BY <2>1, <2>2
<1>12. LoadSources'
  <2>1. \A k \in DOMAIN toLoad' : \A l \in toLoad'[k] : Given(l)
    <3>0. \A k \in DOMAIN toLoad : \A l \in toLoad[k] : Given(l)
      BY <1>2 DEF LoadSources
    <3>1. ASSUME dir # NONE, Searched(dir) # NONE, toLoad' = Append(toLoad, Searched(dir))
          PROVE  \A k \in DOMAIN toLoad' : \A l \in toLoad'[k] : Given(l)
      <4>1. DOMAIN toLoad' = 1 .. Len(toLoad) + 1 /\ toLoad'[Len(toLoad) + 1] = Searched(dir)
            /\ Len(toLoad) \in Nat /\ DOMAIN toLoad = 1 .. Len(toLoad)
            /\ \A k \in 1 .. Len(toLoad) : toLoad'[k] = toLoad[k]
        BY <3>1, <1>3
      <4> SUFFICES ASSUME NEW k \in DOMAIN toLoad'
                   PROVE  \A l \in toLoad'[k] : Given(l)
        OBVIOUS
      <4> HIDE DEF dir
      <4>2. k \in 1 .. Len(toLoad) \/ k = Len(toLoad) + 1
        BY <4>1
      <4> QED
        BY <4>1, <4>2, <3>0, <3>1, <1>11
    <3> HIDE DEF dir
    <3> QED
      BY <1>1, <3>0, <3>1
  <2>2. setup.sdk = "DarkBASIC" => \A k \in DOMAIN dirs' : \A l \in Files(dirs'[k]) : Given(l)
    <3>1. \A k \in DOMAIN dirs' : k + 1 \in DOMAIN dirs /\ dirs'[k] = dirs[k + 1]
      BY <1>1, <1>5
    <3>2. setup.sdk = "DarkBASIC" => \A k \in DOMAIN dirs : \A l \in Files(dirs[k]) : Given(l)
      BY <1>2 DEF LoadSources
    <3> HIDE DEF dir
    <3> QED
      BY <3>1, <3>2
  <2>3. library' # NONE => library' \in WantedScanned
    BY <1>1, <1>2 DEF LoadSources
  <2> HIDE DEF dir
  <2> QED
    BY <2>1, <2>2, <2>3, <1>1, <1>4 DEF LoadSources, SetupKept
<1>13. ASSUME status' = status, NEW l \in WantedScanned, NEW c \in OffersOf(l)
       PROVE  Balanced(l, c)'
  <2>1. l \in DOMAIN Libraries /\ Balanced(l, c)
    BY <1>1, <1>3, WantedIs, <1>13 DEF LoadInv, LoadCounts
  <2>2. /\ Count(commands, {c}) \in Nat /\ Count(toLoad, Holding(l)) \in Nat /\ Count(dirs, Leading(l)) \in Nat
        /\ Left(l) = Count(toLoad, Holding(l)) + Count(dirs, Leading(l))
        /\ Cardinality(Pending(l, c)) \in Nat
    BY <1>2, <2>1, BalanceTypes DEF Left
  <2>3. Count(dirs, Leading(l)) = Once(dir, Leading(l)) + Count(dirs', Leading(l))
    BY <1>1, <1>3, CountTail
  <2>4. Count(dirs', Leading(l)) \in Nat
    <3>1. PICK r \in Seq(Directory) : r = dirs'
      BY ONLY <1>1, <1>5, Zenon
    <3>2. Count(r, Leading(l)) \in Nat
      BY PlacesAreFinite
    <3> QED
      BY <3>1, <3>2
  <2>5. Count(toLoad', Holding(l)) = Count(toLoad, Holding(l)) + Once(dir, Leading(l))
    <3>1. CASE dir = NONE
      <4>1. Once(dir, Leading(l)) = 0
        BY <3>1 DEF Once, Leading
      <4>2. toLoad' = toLoad
        BY <1>1, <3>1
      <4> QED
        BY <4>1, <4>2, <2>2
    <3>2. CASE dir # NONE
      <4>1. status' # "threw"
        BY <1>1, <1>13
      <4>2. Searched(dir) # NONE /\ toLoad' = Append(toLoad, Searched(dir))
        BY ONLY <1>1, <3>2, <4>1
      <4>3. PICK x \in SUBSET DOMAIN Libraries : x = Searched(dir)
        BY ONLY <1>8, <4>2, Zenon
      <4>4. Count(Append(toLoad, x), Holding(l)) = Count(toLoad, Holding(l)) + Once(x, Holding(l))
        BY <1>3, CountAppend
      <4>5. x \in Holding(l) <=> dir \in Leading(l)
        BY <4>2, <4>3, <3>2, <1>5 DEF Holding, Leading, Files
      <4>6. Once(x, Holding(l)) = Once(dir, Leading(l))
        BY ONLY <4>5 DEF Once
      <4> QED
        BY ONLY <4>2, <4>3, <4>4, <4>6
    <3> QED
      BY <3>1, <3>2
  <2>6. Left(l)' = Count(toLoad', Holding(l)) + Count(dirs', Leading(l))
    BY <1>4 DEF Left, SetupKept, Holding
  <2>7. Once(dir, Leading(l)) \in Nat
    BY DEF Once
  <2>8. Left(l)' = Left(l)
    BY ONLY <2>2, <2>3, <2>4, <2>5, <2>6, <2>7
  <2>9. Pending(l, c)' = Pending(l, c)
    BY <1>1, <1>4 DEF Pending, SetupKept
  <2>10. Count(commands', {c}) = Count(commands, {c})
    BY <1>1
  <2> QED
    BY <1>2, <1>4, <2>1, <2>2, <2>8, <2>9, <2>10, BalanceKept
<1> HIDE DEF dir
<1>14. CASE status' = "threw"
  BY <1>10, <1>12, <1>14, StopIsSafe DEF Final
<1>15. CASE status' = status
  BY <1>1, <1>10, <1>12, <1>13, <1>15, ScanGoesOn
<1> QED
  BY <1>1, <1>14, <1>15

LEMMA OpenLibraryStep ==
  ASSUME LoadInv, OpenLibrary
  PROVE  LoadInv'
<1>1. /\ status = "scan" /\ dirs = <<>> /\ toLoad # <<>> /\ library = NONE
      /\ UNCHANGED <<setup, status, dirs, commands>>
      /\ \/ Head(toLoad) = {} /\ toLoad' = Tail(toLoad) /\ UNCHANGED <<library, next>>
         \/ \E l \in Head(toLoad) :
              /\ toLoad' = [toLoad EXCEPT ![1] = @ \ {l}]
              /\ library' = IF setup.win32 \/ open(Libraries[l]) THEN l ELSE NONE
              /\ next' = 0
  BY DEF OpenLibrary
<1>2. LoadTypes /\ LoadSources
  BY DEF LoadInv
<1>3. /\ setup \in Setups /\ toLoad \in Seq(SUBSET DOMAIN Libraries) /\ dirs \in Seq(Directory)
      /\ commands \in Seq(Offered) /\ library \in DOMAIN Libraries \cup {NONE} /\ next \in Nat
  BY <1>2 DEF LoadTypes
<1>4. SetupKept
  BY <1>1, WantedIsKept
<1>5. /\ Head(toLoad) \in SUBSET DOMAIN Libraries /\ Head(toLoad) = toLoad[1] /\ 1 \in DOMAIN toLoad
      /\ Tail(toLoad) \in Seq(SUBSET DOMAIN Libraries)
      /\ \A k \in DOMAIN Tail(toLoad) : k + 1 \in DOMAIN toLoad /\ Tail(toLoad)[k] = toLoad[k + 1]
  BY <1>1, <1>3
<1>6. \A k \in DOMAIN toLoad : \A l \in toLoad[k] : Given(l)
  BY <1>2 DEF LoadSources
<1>7. ASSUME NEW l \in WantedScanned, NEW c \in OffersOf(l)
      PROVE  /\ l \in DOMAIN Libraries /\ Balanced(l, c) /\ l # NONE /\ Pending(l, c) = {}
             /\ Count(commands, {c}) \in Nat /\ Count(toLoad, Holding(l)) \in Nat /\ Count(dirs, Leading(l)) \in Nat
             /\ Left(l) = Count(toLoad, Holding(l)) + Count(dirs, Leading(l))
             /\ Left(l)' = Count(toLoad', Holding(l)) + Count(dirs, Leading(l))
  <2>1. l \in DOMAIN Libraries /\ Balanced(l, c) /\ l # NONE
    BY <1>1, <1>3, WantedIs, <1>7 DEF LoadInv, LoadCounts
  <2>2. /\ Count(commands, {c}) \in Nat /\ Count(toLoad, Holding(l)) \in Nat /\ Count(dirs, Leading(l)) \in Nat
        /\ Left(l) = Count(toLoad, Holding(l)) + Count(dirs, Leading(l))
    BY <1>2, <2>1, BalanceTypes DEF Left
  <2>3. Left(l)' = Count(toLoad', Holding(l)) + Count(dirs, Leading(l))
    BY <1>1, <1>4 DEF Left, SetupKept, Holding
  <2>4. Pending(l, c) = {}
    BY <1>1, <2>1 DEF Pending
  <2> QED
    BY <2>1, <2>2, <2>3, <2>4
<1>8. CASE Head(toLoad) = {} /\ toLoad' = Tail(toLoad) /\ UNCHANGED <<library, next>>
  <2>1. LoadTypes'
    BY <1>1, <1>3, <1>4, <1>5, <1>8 DEF LoadTypes, SetupKept
  <2>2. LoadSources'
    <3>1. \A k \in DOMAIN toLoad' : \A l \in toLoad'[k] : Given(l)
      BY <1>5, <1>6, <1>8
    <3> QED
      BY <3>1, <1>1, <1>2, <1>4, <1>8 DEF LoadSources, SetupKept
  <2>3. ASSUME NEW l \in WantedScanned, NEW c \in OffersOf(l)
        PROVE  Balanced(l, c)'
    <3>0. /\ l \in DOMAIN Libraries /\ Balanced(l, c) /\ l # NONE /\ Pending(l, c) = {}
          /\ Count(commands, {c}) \in Nat /\ Count(toLoad, Holding(l)) \in Nat /\ Count(dirs, Leading(l)) \in Nat
          /\ Left(l) = Count(toLoad, Holding(l)) + Count(dirs, Leading(l))
          /\ Left(l)' = Count(toLoad', Holding(l)) + Count(dirs, Leading(l))
      BY <1>7
    <3>1. Count(toLoad, Holding(l)) = Once(Head(toLoad), Holding(l)) + Count(Tail(toLoad), Holding(l))
      BY <1>1, <1>3, CountTail
    <3>2. Once(Head(toLoad), Holding(l)) = 0
      BY <1>8 DEF Once, Holding
    <3>3. Count(Tail(toLoad), Holding(l)) \in Nat
      <4>1. PICK r \in Seq(SUBSET DOMAIN Libraries) : r = Tail(toLoad)
        BY ONLY <1>5, Zenon
      <4>2. Count(r, Holding(l)) \in Nat
        BY PlacesAreFinite
      <4> QED
        BY <4>1, <4>2
    <3>4. Left(l)' = Left(l)
      BY ONLY <3>0, <3>1, <3>2, <3>3, <1>8
    <3>5. Pending(l, c)' = {}
      BY <1>1, <1>7, <1>8 DEF Pending
    <3>6. Cardinality(Pending(l, c)) = 0 /\ Cardinality(Pending(l, c)') = 0
      BY <1>7, <3>5, FS_EmptySet
    <3>7. Count(commands', {c}) = Count(commands, {c})
      BY <1>1
    <3> QED
      BY ONLY <1>2, <1>4, <3>0, <3>4, <3>6, <3>7, BalanceKept
  <2> QED
    BY <1>1, <2>1, <2>2, <2>3, ScanGoesOn
<1>9. ASSUME NEW o \in Head(toLoad), toLoad' = [toLoad EXCEPT ![1] = @ \ {o}],
             library' = IF setup.win32 \/ open(Libraries[o]) THEN o ELSE NONE, next' = 0
      PROVE  LoadInv'
  <2> DEFINE rest == Head(toLoad) \ {o}
  <2>1. /\ rest \in SUBSET DOMAIN Libraries /\ toLoad' = [toLoad EXCEPT ![1] = rest]
        /\ o \in DOMAIN Libraries /\ toLoad' \in Seq(SUBSET DOMAIN Libraries)
        /\ DOMAIN toLoad' = DOMAIN toLoad /\ \A k \in DOMAIN toLoad : toLoad'[k] \in SUBSET toLoad[k]
    BY <1>3, <1>5, <1>9
  <2>2. Given(o)
    BY <1>5, <1>6
  <2>3. library' # NONE => library' = o /\ o \in WantedScanned /\ Openable(o)
    <3>1. library' = IF Openable(o) THEN o ELSE NONE
      BY <1>9 DEF Openable
    <3>2. o \in WantedScanned <=> Given(o) /\ Openable(o)
      BY <1>3, <2>1, WantedIs
    <3> QED
      BY <2>2, <3>1, <3>2
  <2>4. library' \in DOMAIN Libraries \cup {NONE} /\ next' \in Nat
    BY <2>1, <1>9
  <2>5. LoadTypes'
    BY <1>1, <1>3, <1>4, <2>1, <2>4 DEF LoadTypes, SetupKept
  <2>6. LoadSources'
    <3>1. \A k \in DOMAIN toLoad' : \A l \in toLoad'[k] : Given(l)
      BY <1>6, <2>1
    <3> HIDE DEF rest
    <3> QED
      BY <3>1, <1>1, <1>2, <1>4, <2>3 DEF LoadSources, SetupKept
  <2>7. ASSUME NEW l \in WantedScanned, NEW c \in OffersOf(l)
        PROVE  Balanced(l, c)'
    <3>0. /\ l \in DOMAIN Libraries /\ Balanced(l, c) /\ l # NONE /\ Pending(l, c) = {}
          /\ Count(commands, {c}) \in Nat /\ Count(toLoad, Holding(l)) \in Nat /\ Count(dirs, Leading(l)) \in Nat
          /\ Left(l) = Count(toLoad, Holding(l)) + Count(dirs, Leading(l))
          /\ Left(l)' = Count(toLoad', Holding(l)) + Count(dirs, Leading(l))
      BY <1>7
    <3>1. Count([toLoad EXCEPT ![1] = rest], Holding(l)) + Once(Head(toLoad), Holding(l))
            = Count(toLoad, Holding(l)) + Once(rest, Holding(l))
      <4>1. PICK x \in SUBSET DOMAIN Libraries : x = rest
        BY ONLY <2>1, Zenon
      <4>2. toLoad # <<>> /\ toLoad \in Seq(SUBSET DOMAIN Libraries) /\ x \in SUBSET DOMAIN Libraries
        BY <1>1, <1>3
      <4>3. PICK T : T = Holding(l)
        OBVIOUS
      <4>4. Count([toLoad EXCEPT ![1] = x], T) + Once(Head(toLoad), T) = Count(toLoad, T) + Once(x, T)
        BY ONLY <4>2, CountHead
      <4> HIDE DEF rest
      <4> QED
        BY ONLY <4>1, <4>3, <4>4
    <3>2. Count(toLoad', Holding(l)) \in Nat
      <4>1. PICK r \in Seq(SUBSET DOMAIN Libraries) : r = toLoad'
        BY ONLY <2>1, Zenon
      <4>2. Count(r, Holding(l)) \in Nat
        BY PlacesAreFinite
      <4> QED
        BY <4>1, <4>2
    <3>3. Once(Head(toLoad), Holding(l)) \in Nat /\ Once(rest, Holding(l)) \in Nat
      BY DEF Once
    <3>4. l = o => Openable(l)
      BY <1>3, WantedIs, <2>1
    <3>5. CASE l = o
      <4>1. Once(Head(toLoad), Holding(l)) = 1 /\ Once(rest, Holding(l)) = 0
        BY <3>5, <1>5, <2>1 DEF Once, Holding
      <4>2. library' = l
        BY <3>4, <3>5, <1>9 DEF Openable
      <4> HIDE DEF rest
      <4>3. Left(l)' \in Nat /\ Left(l) = Left(l)' + 1
        BY ONLY <3>0, <3>1, <3>2, <4>1, <2>1
      <4>4. Pending(l, c)' = Alike(l, c)
        <5>1. Pending(l, c)' = {k \in Alike(l, c)' : k > next'}
          BY <4>2 DEF Pending
        <5>2. Alike(l, c)' = Alike(l, c) /\ Alike(l, c) \in SUBSET Entries(l)
          BY <1>4 DEF SetupKept, Alike
        <5>3. \A k \in Entries(l) : k > 0
          <6>1. /\ DOMAIN Libraries[l].symbols = 1 .. Len(Libraries[l].symbols) /\ Len(Libraries[l].symbols) \in Nat
                /\ DOMAIN Libraries[l].strings = 1 .. Len(Libraries[l].strings) /\ Len(Libraries[l].strings) \in Nat
            BY <1>7, LibraryIs
          <6>2. Entries(l) \in SUBSET DOMAIN Libraries[l].symbols \/ Entries(l) \in SUBSET DOMAIN Libraries[l].strings
            BY DEF Entries
          <6> QED
            BY <6>1, <6>2
        <5> QED
          BY <5>1, <5>2, <5>3, <1>9
      <4> QED
        BY <1>1, <1>2, <1>4, <1>7, <4>3, <4>4, BalanceOpened
    <3>6. CASE l # o
      <4>1. Once(Head(toLoad), Holding(l)) = Once(rest, Holding(l))
        BY <3>6, <1>5, <2>1 DEF Once, Holding
      <4> HIDE DEF rest
      <4>2. Left(l)' = Left(l)
        BY ONLY <3>0, <3>1, <3>2, <3>3, <4>1, <2>1
      <4>3. library' # l
        BY <3>6, <1>7, <2>3
      <4>4. Pending(l, c)' = {}
        BY <4>3 DEF Pending
      <4>5. Cardinality(Pending(l, c)) = 0 /\ Cardinality(Pending(l, c)') = 0
        BY <1>7, <4>4, FS_EmptySet
      <4>6. Count(commands', {c}) = Count(commands, {c})
        BY <1>1
      <4> QED
        BY ONLY <1>2, <1>4, <3>0, <4>2, <4>5, <4>6, BalanceKept
    <3> QED
      BY <3>5, <3>6
  <2> HIDE DEF rest
  <2> QED
    BY <1>1, <2>5, <2>6, <2>7, ScanGoesOn
<1> QED
  BY ONLY <1>1, <1>8, <1>9

-----------------------------------------------------------------------------
(* One entry is read.                                                      *)

Reading ==
  /\ status = "scan" /\ library # NONE /\ status' = "scan" /\ next' = next + 1
  /\ UNCHANGED <<setup, toLoad, dirs, library>>

LEMMA ReadingKeeps ==
  ASSUME LoadInv, Reading, commands' \in Seq(Offered)
  PROVE  /\ LoadTypes' /\ LoadSources' /\ SetupKept /\ library \in DOMAIN Libraries /\ library \in WantedScanned
         /\ \A l : Left(l)' = Left(l)
<1>1. SetupKept
  BY WantedIsKept DEF Reading
<1>2. LoadTypes /\ LoadSources
  BY DEF LoadInv
<1>3. next' \in Nat
  BY <1>2 DEF LoadTypes, Reading
<1>4. LoadTypes'
  BY <1>1, <1>2, <1>3 DEF LoadTypes, SetupKept, Reading
<1>5. LoadSources'
  BY <1>1, <1>2 DEF LoadSources, SetupKept, Reading
<1>6. library \in DOMAIN Libraries /\ library \in WantedScanned
  BY <1>2 DEF LoadTypes, LoadSources, Reading
<1>7. \A l : Left(l)' = Left(l)
  BY <1>1 DEF Left, SetupKept, Reading, Holding
<1> QED
  BY <1>1, <1>4, <1>5, <1>6, <1>7

LEMMA SkipEntry ==
  ASSUME LoadInv, Reading, commands' = commands, next + 1 \notin Entries(library)
  PROVE  LoadInv'
<1>1. commands' \in Seq(Offered) /\ LoadTypes /\ next \in Nat /\ setup \in Setups
  BY DEF LoadInv, LoadTypes
<1>2. /\ LoadTypes' /\ LoadSources' /\ SetupKept /\ library \in DOMAIN Libraries
      /\ \A l : Left(l)' = Left(l)
  BY <1>1, ReadingKeeps
<1>3. ASSUME NEW l \in WantedScanned, NEW c \in OffersOf(l)
      PROVE  Balanced(l, c)'
  <2>1. l \in DOMAIN Libraries /\ Balanced(l, c)
    BY <1>1, WantedIs, <1>3 DEF LoadInv, LoadCounts, Reading
  <2>2. Pending(l, c)' = Pending(l, c)
    <3>1. CASE library = l
      <4>1. Pending(l, c)' = {k \in Alike(l, c) : k > next + 1} /\ Pending(l, c) = {k \in Alike(l, c) : k > next}
        BY <3>1, <1>2 DEF Pending, SetupKept, Reading
      <4>2. next + 1 \notin Alike(l, c) /\ Alike(l, c) \in SUBSET Nat
        BY <3>1, <2>1, EntriesAreFinite DEF Alike
      <4> QED
        BY <4>1, <4>2, <1>1
    <3>2. CASE library # l
      BY <3>2 DEF Pending, Reading
    <3> QED
      BY <3>1, <3>2
  <2>3. Count(commands', {c}) = Count(commands, {c}) /\ Count(commands, {c}) \in Nat /\ Cardinality(Pending(l, c)) \in Nat
    BY <1>1, <2>1, BalanceTypes
  <2> QED
    BY <1>1, <1>2, <2>1, <2>2, <2>3, BalanceKept
<1> QED
  BY <1>1, <1>2, <1>3, ScanGoesOn DEF Reading

LEMMA TakeEntry ==
  ASSUME LoadInv, Reading, next + 1 \in Entries(library),
         commands' = Append(commands, CommandOf(library, next + 1))
  PROVE  LoadInv'
<1> DEFINE new == CommandOf(library, next + 1)
<1>1. LoadTypes /\ next \in Nat /\ setup \in Setups /\ commands \in Seq(Offered)
  BY DEF LoadInv, LoadTypes
<1>2. library \in DOMAIN Libraries /\ library \in WantedScanned
  BY <1>1 DEF LoadInv, LoadSources, LoadTypes, Reading
<1>3. new \in Offered /\ new.library = library /\ new \in OffersOf(library)
  <2>1. new \in OffersOf(library)
    BY DEF OffersOf
  <2>2. new.library = library
    BY <1>2, OffersAre
  <2> HIDE DEF new
  <2> QED
    BY <2>1, <2>2, <1>2 DEF Offered
<1>4. commands' = Append(commands, new)
  OBVIOUS
<1> HIDE DEF new
<1>5. commands' \in Seq(Offered)
  BY <1>1, <1>3, <1>4
<1>6. /\ LoadTypes' /\ LoadSources' /\ SetupKept
      /\ \A l : Left(l)' = Left(l)
  BY <1>5, ReadingKeeps
<1>7. ASSUME NEW l \in WantedScanned, NEW c \in OffersOf(l)
      PROVE  Balanced(l, c)'
  <2>1. l \in DOMAIN Libraries /\ Balanced(l, c)
    BY <1>1, WantedIs, <1>7 DEF LoadInv, LoadCounts, Reading
  <2>2. /\ Count(commands, {c}) \in Nat /\ Cardinality(Pending(l, c)) \in Nat /\ IsFiniteSet(Pending(l, c))
    BY <1>1, <2>1, BalanceTypes
  <2>3. Count(commands', {c}) = Count(commands, {c}) + Once(new, {c})
    BY <1>1, <1>3, <1>4, CountAppend
  <2>4. c.library = l
    BY <2>1, <1>7, OffersAre DEF OffersOf
  <2>5. CASE library # l
    <3>1. Pending(l, c)' = Pending(l, c)
      BY <2>5 DEF Pending, Reading
    <3>2. Once(new, {c}) = 0
      BY <2>4, <2>5, <1>3 DEF Once
    <3> QED
      BY <1>1, <1>6, <2>1, <2>2, <2>3, <3>1, <3>2, BalanceKept
  <2>6. CASE library = l
    <3>1. Pending(l, c)' = {k \in Alike(l, c) : k > next + 1} /\ Pending(l, c) = {k \in Alike(l, c) : k > next}
      BY <2>6, <1>6 DEF Pending, SetupKept, Reading
    <3>2. Alike(l, c) \in SUBSET Nat /\ (next + 1 \in Alike(l, c) <=> new = c)
      BY <2>1, <2>6, EntriesAreFinite DEF Alike, new
    <3>3. CASE new = c
      <4>1. Pending(l, c) = Pending(l, c)' \cup {next + 1} /\ next + 1 \notin Pending(l, c)'
            /\ Pending(l, c)' \in SUBSET Pending(l, c)
        BY <1>1, <3>1, <3>2, <3>3
      <4>2. IsFiniteSet(Pending(l, c)') /\ Cardinality(Pending(l, c)') \in Nat
        BY <2>2, <4>1, FS_Subset, FS_CardinalityType
      <4>3. Cardinality(Pending(l, c)' \cup {next + 1}) = Cardinality(Pending(l, c)') + 1
        BY <4>1, <4>2, FS_AddElement
      <4>4. Once(new, {c}) = 1
        BY <3>3 DEF Once
      <4>5. Cardinality(Pending(l, c)) = Cardinality(Pending(l, c)') + 1
        BY ONLY <4>1, <4>3
      <4>6. /\ Count(commands', {c}) + Cardinality(Pending(l, c)') = Count(commands, {c}) + Cardinality(Pending(l, c))
            /\ Count(commands', {c}) \in Nat
        BY <2>2, <2>3, <4>2, <4>4, <4>5
      <4> QED
        BY <1>1, <1>6, <2>1, <4>2, <4>6, BalanceKept
    <3>4. CASE new # c
      <4>1. Pending(l, c)' = Pending(l, c)
        BY <1>1, <3>1, <3>2, <3>4
      <4>2. Once(new, {c}) = 0
        BY <3>4 DEF Once
      <4> QED
        BY <1>1, <1>6, <2>1, <2>2, <2>3, <4>1, <4>2, BalanceKept
    <3> QED
      BY <3>3, <3>4
  <2> QED
    BY <2>5, <2>6
<1> QED
  BY <1>6, <1>7, ScanGoesOn DEF Reading

LEMMA StopWhileReading ==
  ASSUME LoadInv, UNCHANGED <<setup, toLoad, dirs, library, next, commands>>, status' \in Final
  PROVE  LoadInv'
BY SourcesKept, StopIsSafe

LEMMA ReadSymbolStep ==
  ASSUME LoadInv, ReadSymbol
  PROVE  LoadInv'
<1> DEFINE lib == Libraries[library]
           symbol == lib.symbols[next + 1]
           none == [name |-> NONE, typeinfo |-> NONE]
<1>1. /\ status = "scan" /\ library # NONE /\ setup.sdk = "ODB" /\ next < SymbolCount
      /\ UNCHANGED <<setup, toLoad, dirs, library>>
      /\ \/ InTable(lib, next) /\ AddSymbol(symbol)
         \/ ~InTable(lib, next) /\ AddSymbol(none)
         \/ status' = "undefined" /\ UNCHANGED <<next, commands>>
  BY DEF ReadSymbol, getSymbolAt
<1>2. next \in Nat /\ library \in DOMAIN Libraries
  BY <1>1 DEF LoadInv, LoadTypes
<1>3. ~setup.win32
  <2>1. setup.win32 => SymbolCount = 0
    BY <1>1 DEF SymbolCount
  <2> QED
    BY <1>1, <1>2, <2>1
<1>4. Entries(library) = {k \in DOMAIN lib.symbols : lib.symbols[k].name # NONE /\ lib.symbols[k].typeinfo # NONE}
  BY <1>1, <1>3 DEF Entries
<1>5. DOMAIN lib.symbols = 1 .. Len(lib.symbols) /\ Len(lib.symbols) \in Nat
  BY <1>2, LibraryIs
<1>6. InTable(lib, next) <=> next + 1 \in DOMAIN lib.symbols
  BY <1>2, <1>5 DEF InTable
<1>7. CASE status' = "undefined" /\ UNCHANGED <<next, commands>>
  BY <1>1, <1>7, StopWhileReading DEF Final
<1>8. ASSUME NEW s, AddSymbol(s), next + 1 \in Entries(library) => s = symbol,
             s.name # NONE /\ s.typeinfo # NONE <=> next + 1 \in Entries(library)
      PROVE  LoadInv'
  <2>1. CASE status' \in {"undefined", "failed"} /\ UNCHANGED <<next, commands>>
    BY <1>1, <2>1, StopWhileReading DEF Final
  <2>2. CASE next' = next + 1 /\ UNCHANGED <<status, commands>> /\ (s.name = NONE \/ s.typeinfo = NONE)
    <3>1. Reading /\ commands' = commands /\ next + 1 \notin Entries(library)
      BY <1>1, <1>8, <2>2 DEF Reading
    <3> QED
      BY <3>1, SkipEntry
  <2>3. CASE /\ next' = next + 1 /\ UNCHANGED status /\ s.name # NONE /\ s.typeinfo # NONE
             /\ commands' = Append(commands, SymbolCommand(library, s))
    <3>1. Reading /\ next + 1 \in Entries(library) /\ s = symbol
      BY <1>1, <1>8, <2>3 DEF Reading
    <3>2. CommandOf(library, next + 1) = SymbolCommand(library, symbol)
      BY <1>1 DEF CommandOf
    <3> QED
      BY <2>3, <3>1, <3>2, TakeEntry
  <2> QED
    BY <1>8, <2>1, <2>2, <2>3 DEF AddSymbol
<1>9. CASE InTable(lib, next) /\ AddSymbol(symbol)
  <2>1. symbol.name # NONE /\ symbol.typeinfo # NONE <=> next + 1 \in Entries(library)
    BY <1>4, <1>6, <1>9
  <2> QED
    BY <1>8, <1>9, <2>1
<1>10. CASE ~InTable(lib, next) /\ AddSymbol(none)
  <2>1. next + 1 \notin Entries(library) /\ none.name = NONE
    BY <1>4, <1>6, <1>10
  <2> HIDE DEF none
  <2> QED
    BY <1>8, <1>10, <2>1
<1> QED
  BY <1>1, <1>7, <1>9, <1>10

LEMMA ReadStringStep ==
  ASSUME LoadInv, ReadString
  PROVE  LoadInv'
<1> DEFINE lib == Libraries[library]
           entry == lib.strings[next + 1]
<1>1. /\ status = "scan" /\ library # NONE /\ setup.sdk = "DarkBASIC" /\ next < SymbolCount
      /\ UNCHANGED <<setup, toLoad, dirs, library>>
      /\ \/ /\ entry.tokens < 2 \/ (entry.tokens > 2 /\ entry.keyword)
            /\ next' = next + 1 /\ UNCHANGED <<status, commands>>
         \/ status' = "undefined" /\ UNCHANGED <<next, commands>>
         \/ /\ entry.tokens > 2 /\ ~entry.keyword
            /\ commands' = Append(commands, StringCommand(library, entry))
            /\ next' = next + 1 /\ UNCHANGED status
  BY DEF ReadString
<1>2. next \in Nat /\ library \in DOMAIN Libraries /\ setup.win32
  BY <1>1 DEF LoadInv, LoadTypes, LoadCounts
<1>3. SymbolCount = Len(lib.strings)
  BY <1>1, <1>2 DEF SymbolCount
<1>4. DOMAIN lib.strings = 1 .. Len(lib.strings) /\ Len(lib.strings) \in Nat
  BY <1>2, LibraryIs
<1>5. next + 1 \in DOMAIN lib.strings
  BY <1>1, <1>2, <1>3, <1>4
<1>6. entry.tokens \in Nat
  <2>1. PICK s \in Seq(StringEntries) : s = lib.strings
    BY <1>2, LibraryIs
  <2>2. entry \in StringEntries
    BY <1>5, <2>1
  <2> QED
    BY <2>2 DEF StringEntries
<1>7. next + 1 \in Entries(library) <=> entry.tokens > 2 /\ ~entry.keyword
  BY <1>1, <1>5 DEF Entries
<1>8. CommandOf(library, next + 1) = StringCommand(library, entry)
  BY <1>1 DEF CommandOf
<1> HIDE DEF entry
<1>9. CASE status' = "undefined" /\ UNCHANGED <<next, commands>>
  BY <1>1, <1>9, StopWhileReading DEF Final
<1>10. CASE /\ entry.tokens < 2 \/ (entry.tokens > 2 /\ entry.keyword)
            /\ next' = next + 1 /\ UNCHANGED <<status, commands>>
  <2>1. next + 1 \notin Entries(library)
    BY <1>6, <1>7, <1>10
  <2>2. Reading /\ commands' = commands
    BY <1>1, <1>10 DEF Reading
  <2> QED
    BY <2>1, <2>2, SkipEntry
<1>11. CASE /\ entry.tokens > 2 /\ ~entry.keyword
            /\ commands' = Append(commands, StringCommand(library, entry))
            /\ next' = next + 1 /\ UNCHANGED status
  <2>1. next + 1 \in Entries(library)
    BY <1>7, <1>11
  <2>2. Reading /\ commands' = Append(commands, CommandOf(library, next + 1))
    BY <1>1, <1>8, <1>11 DEF Reading
  <2> QED
    BY <2>1, <2>2, TakeEntry
<1> QED
  BY <1>1, <1>9, <1>10, <1>11

\* The loop up to getSymbolCount sees every command of a library.
LEMMA AllAreSeen ==
  ASSUME LoadInv, status = "scan", library \in DOMAIN Libraries
  PROVE  \A k \in Entries(library) : k <= SymbolCount
<1> DEFINE lib == Libraries[library]
           m == Len(lib.symbols)
           n == Len(lib.strings)
<1>1. /\ m \in Nat /\ DOMAIN lib.symbols = 1 .. m /\ n \in Nat /\ DOMAIN lib.strings = 1 .. n
      /\ "GNU_HASH" \in Found(lib) /\ ~lib.exports =>
           \A k \in DOMAIN lib.symbols : NONE \in {lib.symbols[k].name, lib.symbols[k].typeinfo}
  BY LibraryIs
<1>2. setup.sdk \in {"ODB", "DarkBASIC"} /\ (setup.sdk = "DarkBASIC" => setup.win32)
  BY SetupIs DEF LoadInv, LoadTypes, LoadCounts
<1>3. CASE setup.sdk = "ODB" /\ setup.win32
  BY <1>3 DEF Entries
<1>4. CASE setup.sdk = "DarkBASIC" /\ setup.win32
  <2>1. SymbolCount = n /\ Entries(library) \in SUBSET (1 .. n)
    BY <1>1, <1>4 DEF SymbolCount, Entries
  <2> HIDE DEF n
  <2> QED
    BY <2>1, <1>1
<1>5. CASE setup.sdk = "ODB" /\ ~setup.win32
  <2>1. SymbolCount = getSymbolCount(lib)
    BY <1>5 DEF SymbolCount
  <2>2. /\ Entries(library) \in SUBSET (1 .. m)
        /\ \A k \in Entries(library) : NONE \notin {lib.symbols[k].name, lib.symbols[k].typeinfo}
    BY <1>1, <1>5 DEF Entries
  <2>3. CASE "GNU_HASH" \notin Found(lib)
    <3>1. getSymbolCount(lib) = m + 1
      BY <2>3 DEF getSymbolCount
    <3> HIDE DEF m
    <3> QED
      BY <1>1, <2>1, <2>2, <3>1
  <2>4. CASE "GNU_HASH" \in Found(lib) /\ lib.exports
    <3>1. getSymbolCount(lib) = m
      BY <2>4 DEF getSymbolCount
    <3> HIDE DEF m
    <3> QED
      BY <1>1, <2>1, <2>2, <3>1
  <2>5. CASE "GNU_HASH" \in Found(lib) /\ ~lib.exports
    <3>1. Entries(library) = {}
      BY <1>1, <2>2, <2>5
    <3> QED
      BY <3>1
  <2> QED
    BY <2>3, <2>4, <2>5
<1> QED
  BY <1>2, <1>3, <1>4, <1>5

LEMMA LibraryDoneStep ==
  ASSUME LoadInv, LibraryDone
  PROVE  LoadInv'
<1>1. /\ status = "scan" /\ library # NONE /\ next = SymbolCount /\ library' = NONE
      /\ UNCHANGED <<setup, status, toLoad, dirs, next, commands>>
  BY DEF LibraryDone
<1>2. LoadTypes /\ LoadSources /\ library \in DOMAIN Libraries /\ setup \in Setups /\ next \in Nat
  BY <1>1 DEF LoadInv, LoadTypes
<1>3. SetupKept
  BY <1>1, WantedIsKept
<1>4. LoadTypes'
  BY <1>1, <1>2, <1>3 DEF LoadTypes, SetupKept
<1>5. LoadSources'
  BY <1>1, <1>2, <1>3 DEF LoadSources, SetupKept
<1>6. ASSUME NEW l \in WantedScanned, NEW c \in OffersOf(l)
      PROVE  Balanced(l, c)'
  <2>1. l \in DOMAIN Libraries /\ l # NONE /\ Balanced(l, c)
    BY <1>1, <1>2, <1>6, WantedIs DEF LoadInv, LoadCounts
  <2>2. Pending(l, c)' = {}
    BY <1>1, <2>1 DEF Pending
  <2>3. Pending(l, c) = {}
    <3>1. CASE library = l
      <4>1. \A k \in Entries(l) : k <= next /\ k \in Nat
        BY <1>1, <1>2, <3>1, AllAreSeen, EntriesAreFinite
      <4>2. Alike(l, c) \in SUBSET Entries(l)
        BY DEF Alike
      <4> QED
        BY <1>2, <4>1, <4>2 DEF Pending
    <3>2. CASE library # l
      BY <3>2 DEF Pending
    <3> QED
      BY <3>1, <3>2
  <2>4. Left(l)' = Left(l)
    BY <1>1, <1>3 DEF Left, SetupKept, Holding
  <2>5. Count(commands', {c}) = Count(commands, {c}) /\ Count(commands, {c}) \in Nat
        /\ Cardinality(Pending(l, c)) \in Nat
    BY <1>1, <1>2, <2>1, BalanceTypes
  <2> QED
    BY <1>2, <1>3, <2>1, <2>2, <2>3, <2>4, <2>5, BalanceKept
<1> QED
  BY <1>1, <1>4, <1>5, <1>6, ScanGoesOn

-----------------------------------------------------------------------------
(* The first command of a name.                                            *)

LEMMA FirstOfIs ==
  ASSUME NEW S, commands \in Seq(S), NEW k \in DOMAIN commands
  PROVE  /\ FirstOf(commands[k]) \in DOMAIN commands /\ FirstOf(commands[k]) <= k
         /\ SameName(commands[FirstOf(commands[k])], commands[k])
         /\ SameName(commands[1], commands[k]) => FirstOf(commands[k]) = 1
<1> DEFINE c == commands[k]
           K == {j \in DOMAIN commands : SameName(commands[j], c)}
           First(i) == /\ SameName(commands[i], c)
                       /\ \A j \in 1 .. i - 1 : ~SameName(commands[j], c)
<1>1. DOMAIN commands = 1 .. Len(commands) /\ Len(commands) \in Nat
  OBVIOUS
<1>2. k \in K
  BY DEF SameName
<1>3. PICK i \in K : i <= k /\ \A j \in 1 .. i - 1 : j \notin K
  BY <1>2, FirstPlace
<1>4. i \in DOMAIN commands /\ First(i)
  BY <1>1, <1>3
<1>5. FirstOf(c) = CHOOSE j \in DOMAIN commands : First(j)
  BY DEF FirstOf
<1> HIDE DEF First
<1>6. FirstOf(c) \in DOMAIN commands /\ First(FirstOf(c))
  BY <1>4, <1>5
<1> USE DEF First
<1>7. ASSUME FirstOf(c) > k
      PROVE  FALSE
  BY <1>1, <1>2, <1>6, <1>7
<1>8. ASSUME SameName(commands[1], c)
      PROVE  FirstOf(c) = 1
  BY <1>1, <1>6, <1>8
<1> HIDE DEF First
<1>9. SameName(commands[FirstOf(c)], c)
  BY <1>6 DEF First
<1>10. FirstOf(c) <= k
  <2>1. FirstOf(c) \in Nat /\ k \in Nat
    BY <1>1, <1>6
  <2> QED
    BY <2>1, <1>7
<1> QED
  BY <1>6, <1>8, <1>9, <1>10

\* Two copies of the first command are a conflict.
LEMMA TwiceIsConflict ==
  ASSUME NEW S, commands \in Seq(S), commands # <<>>, Count(commands, {commands[1]}) >= 2
  PROVE  Conflict
<1> DEFINE P == Places(commands, {commands[1]})
<1>1. DOMAIN commands = 1 .. Len(commands) /\ Len(commands) \in Nat /\ 1 \in DOMAIN commands
  OBVIOUS
<1>2. PICK j \in P : j # 1
  <2>1. SUFFICES ASSUME \A j \in P : j = 1
                 PROVE  FALSE
    OBVIOUS
  <2>2. P \in SUBSET {1} /\ IsFiniteSet({1}) /\ Cardinality({1}) = 1
    BY <2>1, FS_Singleton
  <2>3. Cardinality(P) <= 1
    <3> HIDE DEF P
    <3> QED
      BY <2>2, FS_Subset
  <2>4. Cardinality(P) >= 2
    BY DEF Count
  <2>5. Cardinality(P) \in Nat
    BY PlacesAreFinite DEF Count
  <2> HIDE DEF P
  <2> QED
    BY <2>3, <2>4, <2>5
<1>3. j \in DOMAIN commands /\ commands[j] = commands[1]
  BY <1>2 DEF Places
<1>4. FirstOf(commands[j]) = 1
  BY <1>3, FirstOfIs DEF SameName
<1>5. compare(commands[j], commands[1])
  BY <1>3 DEF compare
<1> QED
  BY <1>2, <1>3, <1>4, <1>5 DEF Conflict

-----------------------------------------------------------------------------
(* The end of the loading.                                                 *)

LEMMA AllIsLoaded ==
  ASSUME LoadInv, status = "scan", dirs = <<>>, toLoad = <<>>, library = NONE,
         NEW l \in WantedScanned, NEW c \in OffersOf(l)
  PROVE  Count(commands, {c}) = Cardinality(Alike(l, c)) * Total(l)
<1> DEFINE a == Cardinality(Alike(l, c))
           t == a * Total(l)
<1>1. LoadTypes /\ setup \in Setups
  BY DEF LoadInv, LoadTypes
<1>2. l \in DOMAIN Libraries /\ l # NONE /\ Balanced(l, c)
  BY <1>1, WantedIs DEF LoadInv, LoadCounts
<1>3. Left(l) = 0
  BY CountOfNone DEF Left
<1>4. Cardinality(Pending(l, c)) = 0
  <2>1. Pending(l, c) = {}
    BY <1>2 DEF Pending
  <2> QED
    BY <2>1, FS_EmptySet
<1>5. a \in Nat /\ Count(commands, {c}) \in Nat /\ Total(l) \in Nat
  BY <1>1, <1>2, BalanceTypes
<1>6. Count(commands, {c}) + a * 0 + 0 = t
  BY <1>2, <1>3, <1>4 DEF Balanced
<1>7. a * 0 = 0
  BY <1>5
<1>8. t \in Nat
  BY <1>5, ProductNext
<1> HIDE DEF a, t
<1>9. Count(commands, {c}) = t
  BY ONLY <1>5, <1>6, <1>7, <1>8
<1> QED
  BY <1>9 DEF a, t

LEMMA LeadsWhatItShows ==
  ASSUME setup \in Setups, setup.sdk = "DarkBASIC", NEW l
  PROVE  Total(l) = TimesScanned(l)
<1>1. /\ SdkDirs \in Seq(Directory) /\ setup.pluginDirs \in Seq(Directory)
      /\ TimesScanned(l) = Count(Scanned, Shown(l))
  BY WantedIs, SetupIs
<1>2. Leading(l) = Shown(l)
  BY DEF Leading, Shown, Searched, Files
<1>3. Scanned = SdkDirs \o setup.pluginDirs
  BY DEF Scanned, Named
<1>4. Count(SdkDirs \o setup.pluginDirs, Shown(l)) = Count(SdkDirs, Shown(l)) + Count(setup.pluginDirs, Shown(l))
  BY ONLY <1>1, CountConcat
<1> QED
  BY <1>1, <1>2, <1>3, <1>4 DEF Total

LEMMA NoConflictIsOnce ==
  ASSUME LoadInv, status = "scan", dirs = <<>>, toLoad = <<>>, library = NONE, ~Conflict,
         setup.sdk = "ODB", NEW l \in WantedScanned, NEW c \in OffersOf(l)
  PROVE  Total(l) = TimesScanned(l)
<1> DEFINE sdk == setup.sdkDirs[1]
           led == {d \in Directory : d # NONE}
           more == Count(setup.pluginDirs, led)
<1>1. LoadTypes /\ setup \in Setups /\ commands \in Seq(Offered)
  BY DEF LoadInv, LoadTypes
<1>2. /\ SdkDirs = <<sdk>> /\ Scanned = <<sdk>> /\ \A d : Searched(d) = sdk
      /\ setup.pluginDirs \in Seq(Directory) /\ sdk \in Directory
  BY <1>1, SetupIs DEF SdkDirs, Scanned, Searched
<1>3. more \in Nat
  BY <1>2, PlacesAreFinite
<1> HIDE DEF sdk
<1>4. ASSUME NEW o \in WantedScanned
      PROVE  Total(o) = 1 + more /\ TimesScanned(o) = 1
  <2>1. o \in Files(sdk)
    <3>1. Given(o)
      BY <1>1, <1>4, WantedIs
    <3>2. PICK k \in DOMAIN Scanned : o \in Files(Scanned[k])
      BY <3>1 DEF Given
    <3>3. Scanned[k] = sdk
      BY <1>2
    <3> QED
      BY <3>2, <3>3
  <2>2. Leading(o) = led
    BY <1>2, <2>1 DEF Leading
  <2>3. sdk \in Shown(o)
    BY <1>2, <2>1 DEF Shown
  <2>4. Count(<<sdk>>, Shown(o)) = 1
    BY <2>3, CountOfOne DEF Once
  <2>5. TimesScanned(o) = Count(Scanned, Shown(o))
    BY <1>1, WantedIs
  <2> HIDE DEF led
  <2> QED
    BY <1>2, <2>2, <2>4, <2>5 DEF Total
<1>5. ASSUME more # 0
      PROVE  FALSE
  <2> HIDE DEF more
  <2>1. ASSUME NEW o \in WantedScanned, NEW e \in OffersOf(o)
        PROVE  Count(commands, {e}) >= 2
    <3>1. Count(commands, {e}) = Cardinality(Alike(o, e)) * Total(o)
      BY <2>1, AllIsLoaded
    <3>2. PICK a \in Nat : a = Cardinality(Alike(o, e))
      <4>1. o \in DOMAIN Libraries
        BY <1>1, <2>1, WantedIs
      <4>2. Cardinality(Alike(o, e)) \in Nat
        BY <4>1, EntriesAreFinite
      <4> QED
        BY <4>2, Zenon
    <3>3. a >= 1
      <4>1. o \in DOMAIN Libraries
        BY <1>1, <2>1, WantedIs
      <4> QED
        BY <2>1, <3>2, <4>1, EntriesAreFinite
    <3>4. a * (1 + more) = a * more + a /\ a * more \in Nat
      BY <1>3, <3>2, ProductNext
    <3>5. a * more >= 1
      <4>1. PICK m \in Nat : more = m + 1
        <5>1. more - 1 \in Nat /\ more = (more - 1) + 1
          BY <1>3, <1>5
        <5> QED
          BY <5>1
      <4>2. a * (m + 1) = a * m + a /\ a * m \in Nat
        BY <3>2, ProductNext
      <4> QED
        BY <3>2, <3>3, <4>1, <4>2
    <3>6. Total(o) = 1 + more
      BY <2>1, <1>4
    <3> QED
      BY ONLY <3>1, <3>2, <3>3, <3>4, <3>5, <3>6
  <2>2. commands # <<>>
    <3>1. Count(commands, {c}) >= 2
      BY <2>1
    <3>2. commands = <<>> => Count(commands, {c}) = 0
      BY CountOfNone
    <3> QED
      BY <3>1, <3>2
  <2>3. commands[1] \in Offered
    BY <1>1, <2>2
  <2>4. PICK o \in WantedScanned : commands[1] \in OffersOf(o)
    BY <2>3 DEF Offered
  <2>5. Count(commands, {commands[1]}) >= 2
    BY <2>1, <2>4
  <2> QED
    BY <1>1, <2>2, <2>5, TwiceIsConflict
<1> HIDE DEF more
<1>6. Total(l) = 1 + more /\ TimesScanned(l) = 1
  BY <1>4
<1>7. more = 0
  BY <1>5
<1> QED
  BY <1>6, <1>7

LEMMA FindConflictsStep ==
  ASSUME LoadInv, findConflicts
  PROVE  LoadInv'
<1>1. /\ status = "scan" /\ dirs = <<>> /\ toLoad = <<>> /\ library = NONE
      /\ status' = IF Conflict THEN "conflict" ELSE "loaded"
      /\ UNCHANGED <<setup, toLoad, dirs, library, next, commands>>
  BY DEF findConflicts
<1>2. LoadTypes /\ setup \in Setups /\ commands \in Seq(Offered)
  BY DEF LoadInv, LoadTypes
<1>3. LoadTypes' /\ LoadSources'
  BY <1>1, SourcesKept
<1>4. CASE Conflict
  BY <1>1, <1>3, <1>4, StopIsSafe DEF Final
<1>5. CASE ~Conflict
  <2>1. ASSUME NEW l \in WantedScanned, NEW k \in Entries(l)
        PROVE  Cardinality(Copies(CommandOf(l, k))) = Cardinality(Alike(l, CommandOf(l, k))) * TimesScanned(l)
    <3>1. PICK c : c = CommandOf(l, k)
      OBVIOUS
    <3>2. c \in OffersOf(l)
      BY <3>1 DEF OffersOf
    <3>3. Total(l) = TimesScanned(l)
      <4>1. CASE setup.sdk = "ODB"
        BY <1>1, <1>5, <3>2, <4>1, NoConflictIsOnce
      <4>2. CASE setup.sdk = "DarkBASIC"
        BY <1>2, <4>2, LeadsWhatItShows
      <4> QED
        BY <1>2, <4>1, <4>2, SetupIs
    <3>4. Count(commands, {c}) = Cardinality(Alike(l, c)) * Total(l)
      BY <1>1, <3>2, AllIsLoaded
    <3>5. Copies(c) = Places(commands, {c})
      BY DEF Copies, Places
    <3> QED
      BY <3>1, <3>3, <3>4, <3>5 DEF Count
  <2>2. ASSUME NEW j \in DOMAIN commands
        PROVE  \E l \in WantedScanned : \E k \in Entries(l) : commands[j] = CommandOf(l, k)
    <3>1. commands[j] \in Offered
      BY <1>2
    <3> QED
      BY <3>1 DEF Offered, OffersOf
  <2>3. SetupKept
    BY <1>1, WantedIsKept
  <2>4. \A c : Copies(c)' = Copies(c)
    BY <1>1 DEF Copies
  <2>5. LoadedAsScanned'
    BY <1>1, <2>1, <2>2, <2>3, <2>4 DEF LoadedAsScanned, SetupKept
  <2>6. LoadCounts'
    BY <1>1, <1>5 DEF LoadCounts
  <2> QED
    BY <1>3, <2>5, <2>6 DEF LoadInv
<1> QED
  BY <1>4, <1>5

-----------------------------------------------------------------------------
(* From the index to the call.                                             *)

Loading == {"start", "scan"}
Called ==
  /\ UNCHANGED <<setup, toLoad, dirs, library, next, commands>>
  /\ status \notin Final \cup Loading /\ status' \notin Loading \cup {"conflict"}

LEMMA CallSteps ==
  ASSUME UpdateMatcher \/ LookUp \/ FrontOfNone \/ CallWithoutArguments \/ RemoveUnsuitable \/ CallBest
  PROVE  Called
<1>1. CASE UpdateMatcher
  BY <1>1 DEF UpdateMatcher, Called, Loading, Final
<1>2. CASE LookUp
  BY <1>2 DEF LookUp, Called, Loading, Final
<1>3. CASE FrontOfNone
  BY <1>3 DEF FrontOfNone, Called, Loading, Final
<1>4. CASE CallWithoutArguments
  BY <1>4 DEF CallWithoutArguments, Call, Called, Loading, Final
<1>5. CASE RemoveUnsuitable
  BY <1>5 DEF RemoveUnsuitable, Called, Loading, Final
<1>6. CASE CallBest
  BY <1>6 DEF CallBest, Call, Called, Loading, Final
<1> QED
  BY <1>1, <1>2, <1>3, <1>4, <1>5, <1>6

LEMMA CalledKeeps ==
  ASSUME LoadInv, Called
  PROVE  LoadInv'
<1>1. LoadTypes' /\ LoadSources'
  BY SourcesKept DEF Called
<1>2. LoadCounts'
  BY DEF LoadCounts, Called, Loading
<1>3. LoadedAsScanned'
  <2>1. SetupKept
    BY WantedIsKept DEF Called
  <2>2. \A c : Copies(c)' = Copies(c)
    BY DEF Copies, Called
  <2>3. LoadedAsScanned
    BY DEF LoadInv
  <2>4. status \notin Final \cup {"start", "scan"}
    BY DEF Called, Loading
  <2>5. commands' = commands
    BY DEF Called
  <2>6. /\ \A l \in WantedScanned : \A k \in Entries(l) :
             Cardinality(Copies(CommandOf(l, k))) = Cardinality(Alike(l, CommandOf(l, k))) * TimesScanned(l)
        /\ \A j \in DOMAIN commands : \E l \in WantedScanned : \E k \in Entries(l) : commands[j] = CommandOf(l, k)
    BY <2>3, <2>4 DEF LoadedAsScanned
  <2> QED
    BY <2>1, <2>2, <2>5, <2>6 DEF LoadedAsScanned, SetupKept
<1> QED
  BY <1>1, <1>2, <1>3 DEF LoadInv

LEMMA LoadInvStep ==
  LoadInv /\ [Next]_vars => LoadInv'
<1> SUFFICES ASSUME LoadInv, [Next]_vars
             PROVE  LoadInv'
  OBVIOUS
<1>1. CASE LoadIndex
  <2>1. Load
    BY <1>1 DEF LoadIndex
  <2> QED
    BY <2>1, NoRootStep, ScanSdkStep, ScanAdditionalStep, OpenLibraryStep, ReadSymbolStep, ReadStringStep,
       LibraryDoneStep, FindConflictsStep DEF Load
<1>2. CASE UpdateMatcher \/ LookUp \/ FrontOfNone \/ CallWithoutArguments \/ RemoveUnsuitable \/ CallBest
  BY <1>2, CallSteps, CalledKeeps
<1>3. CASE UNCHANGED vars
  <2>1. UNCHANGED <<setup, status, toLoad, dirs, library, next, commands>>
    BY <1>3 DEF vars, indexVars
  <2>2. LoadTypes' /\ LoadSources'
    BY <2>1, SourcesKept
  <2>3. SetupKept
    BY <2>1, WantedIsKept
  <2>4. \A c : Copies(c)' = Copies(c)
    BY <2>1 DEF Copies
  <2>5. LoadedAsScanned'
    BY <2>1, <2>3, <2>4 DEF LoadInv, LoadedAsScanned, SetupKept
  <2>6. \A l, c : Balanced(l, c)' <=> Balanced(l, c)
    <3>1. \A l : Left(l)' = Left(l)
      BY <2>1, <2>3 DEF Left, SetupKept, Holding
    <3>2. \A l, c : Pending(l, c)' = Pending(l, c)
      BY <2>1, <2>3 DEF Pending, SetupKept
    <3> QED
      BY <2>1, <2>3, <3>1, <3>2 DEF Balanced, SetupKept
  <2>7. LoadCounts'
    BY <2>1, <2>3, <2>6 DEF LoadInv, LoadCounts, SetupKept
  <2> QED
    BY <2>2, <2>5, <2>7 DEF LoadInv
<1> QED
  BY <1>1, <1>2, <1>3 DEF Next

LEMMA LoadInvInit ==
  CallInit => LoadInv
<1> SUFFICES ASSUME CallInit
             PROVE  LoadInv
  OBVIOUS
<1>1. /\ setup \in Setups /\ status = "start" /\ toLoad = <<>> /\ dirs = setup.pluginDirs
      /\ library = NONE /\ next = 0 /\ commands = <<>>
  BY DEF CallInit, Init
<1>2. dirs \in Seq(Directory)
  BY <1>1, SetupIs
<1>3. LoadTypes
  BY <1>1, <1>2 DEF LoadTypes
<1>4. \A k \in DOMAIN dirs : \A l \in Files(dirs[k]) : setup.sdk = "DarkBASIC" => Given(l)
  <2> SUFFICES ASSUME NEW k \in DOMAIN dirs, NEW l \in Files(dirs[k]), setup.sdk = "DarkBASIC"
               PROVE  Given(l)
    OBVIOUS
  <2>1. SdkDirs \in Seq(Directory) /\ Scanned = SdkDirs \o setup.pluginDirs
    BY <1>1, WantedIs DEF Scanned, Named
  <2>2. k + Len(SdkDirs) \in DOMAIN Scanned /\ Scanned[k + Len(SdkDirs)] = dirs[k]
    BY <1>1, <1>2, <2>1
  <2> QED
    BY <2>2 DEF Given
<1>5. LoadSources
  BY <1>1, <1>4 DEF LoadSources
<1>6. LoadCounts /\ LoadedAsScanned
  BY <1>1 DEF LoadCounts, LoadedAsScanned
<1> QED
  BY <1>3, <1>5, <1>6 DEF LoadInv

\* Every behaviour of the loaders and of what follows keeps the books balanced:
\* the inductive invariant of loadCommands.
THEOREM LoadingHolds == Spec => []LoadInv
<1> QED
  BY LoadInvInit, LoadInvStep, PTL DEF Spec

\* What is searched is what is named, if ODB has no additional directory to search.
LEMMA ScannedAsNamed ==
  ASSUME setup \in Setups, ~NotSearched
  PROVE  (\A l : TimesScanned(l) = Times(l)) /\ WantedScanned = Wanted
<1>1. \A l : {k \in DOMAIN Scanned : l \in Files(Scanned[k])} = {k \in DOMAIN Named : l \in Files(Named[k])}
  <2>1. CASE setup.sdk # "ODB"
    BY <2>1 DEF Scanned
  <2>2. CASE setup.sdk = "ODB"
    <3>1. SdkDirs \in Seq(Directory) /\ setup.pluginDirs \in Seq(Directory)
      BY WantedIs, SetupIs
    <3>2. PICK sdk \in Seq(Directory), more \in Seq(Directory) : sdk = SdkDirs /\ more = setup.pluginDirs
      BY <3>1
    <3>3. Scanned = sdk /\ Named = sdk \o more /\ \A k \in DOMAIN more : more[k] = NONE
      BY <2>2, <3>2 DEF Scanned, Named, NotSearched
    <3>4. \A k \in DOMAIN sdk : k \in DOMAIN Named /\ Named[k] = sdk[k]
      BY <3>3
    <3>5. \A k \in DOMAIN Named : k \notin DOMAIN sdk => Named[k] = NONE
      <4> SUFFICES ASSUME NEW k \in DOMAIN Named, k \notin DOMAIN sdk
                   PROVE  Named[k] = NONE
        OBVIOUS
      <4>1. k - Len(sdk) \in DOMAIN more /\ Named[k] = more[k - Len(sdk)]
        BY <3>3
      <4> QED
        BY <3>3, <4>1
    <3>6. Files(NONE) = {}
      BY DEF Files
    <3> QED
      BY <3>3, <3>4, <3>5, <3>6
  <2> QED
    BY <2>1, <2>2
<1>2. \A l : TimesScanned(l) = Times(l)
  BY <1>1 DEF TimesScanned, Times
<1> QED
  BY <1>2 DEF WantedScanned, Wanted

\* For all libraries, directories and orders of the files: an index that was loaded
\* holds every command exactly as often as its library's entries and the directories
\* name it, unless ODB has an additional directory to search.
THEOREM CommandsLoadExactly == Spec => []LoadedExactly
<1>1. LoadInv => LoadedExactly
  <2> SUFFICES ASSUME LoadInv, ~NotSearched
               PROVE  LoadedAsNamed
    BY DEF LoadedExactly
  <2>1. setup \in Setups /\ LoadedAsScanned
    BY DEF LoadInv, LoadTypes
  <2>2. (\A l : TimesScanned(l) = Times(l)) /\ WantedScanned = Wanted
    BY <2>1, ScannedAsNamed
  <2> QED
    BY <2>1, <2>2 DEF LoadedAsScanned, LoadedAsNamed
<1> QED
  BY <1>1, LoadingHolds, PTL

LEMMA CauseStep ==
  LoadInv /\ ConflictForCause /\ [Next]_vars => ConflictForCause'
<1> SUFFICES ASSUME LoadInv, ConflictForCause, [Next]_vars, status' = "conflict"
             PROVE  ConflictForCause'
  BY DEF ConflictForCause
<1>1. CASE findConflicts
  <2>1. Conflict /\ commands' = commands
    BY <1>1 DEF findConflicts
  <2>2. PICK k \in DOMAIN commands : FirstOf(commands[k]) # k /\ compare(commands[k], commands[FirstOf(commands[k])])
    BY <2>1 DEF Conflict
  <2>3. commands \in Seq(Offered)
    BY DEF LoadInv, LoadTypes
  <2>4. PICK j : j = FirstOf(commands[k])
    OBVIOUS
  <2>5. j \in DOMAIN commands /\ SameName(commands[j], commands[k])
    BY <2>3, <2>4, FirstOfIs
  <2>6. compare(commands[k], commands[j]) /\ j # k
    BY <2>2, <2>4
  <2>7. /\ j # k /\ toLower(commands[j].name) = toLower(commands[k].name)
        /\ <<commands[j].ret, commands[j].args>> = <<commands[k].ret, commands[k].args>>
    BY <2>5, <2>6 DEF SameName, compare
  <2> QED
    BY <2>1, <2>5, <2>7 DEF ConflictForCause
<1>2. CASE LoadIndex /\ ~findConflicts
  <2>1. NoRoot \/ ScanSdk \/ ScanAdditional \/ OpenLibrary \/ ReadSymbol \/ ReadString \/ LibraryDone
    BY <1>2 DEF LoadIndex, Load
  <2>2. status' # "conflict"
    <3>1. CASE NoRoot
      BY <3>1 DEF NoRoot, Fail
    <3>2. CASE ScanSdk
      BY <3>2 DEF ScanSdk
    <3>3. CASE ScanAdditional
      BY <3>3 DEF ScanAdditional
    <3>4. CASE OpenLibrary
      BY <3>4 DEF OpenLibrary
    <3>5. CASE ReadSymbol
      <4>1. \A s : AddSymbol(s) /\ status = "scan" => status' # "conflict"
        BY DEF AddSymbol
      <4> QED
        BY <3>5, <4>1 DEF ReadSymbol
    <3>6. CASE ReadString
      BY <3>6 DEF ReadString
    <3>7. CASE LibraryDone
      BY <3>7 DEF LibraryDone
    <3> QED
      BY <2>1, <3>1, <3>2, <3>3, <3>4, <3>5, <3>6, <3>7
  <2> QED
    BY <2>2
<1>3. CASE UpdateMatcher \/ LookUp \/ FrontOfNone \/ CallWithoutArguments \/ RemoveUnsuitable \/ CallBest
  BY <1>3, CallSteps DEF Called
<1>4. CASE UNCHANGED vars
  BY <1>4 DEF vars, indexVars, ConflictForCause
<1> QED
  BY <1>1, <1>2, <1>3, <1>4 DEF Next

\* Whatever is on the disk, findConflicts turns down only what holds two commands
\* that agree in name, arguments and result.
THEOREM ConflictsHaveCause == Spec => []ConflictForCause
<1>1. CallInit => ConflictForCause
  BY DEF CallInit, Init, ConflictForCause
<1> QED
  BY <1>1, CauseStep, LoadingHolds, PTL DEF Spec

-----------------------------------------------------------------------------
(* The score of an overload.                                               *)

Score(c, k) == ArgScore(getTypeFromCommandType(Takes(c)[k]), args[k])
Sums(c, f, m) == f = [k \in 0 .. m |-> IF k = 0 THEN 0 ELSE f[k - 1] + Score(c, k)]

LEMMA SumsExist ==
  ASSUME NEW c
  PROVE  \A m \in Nat : \E f : Sums(c, f, m)
<1> DEFINE T == {m \in Nat : \E f : Sums(c, f, m)}
<1>1. 0 \in T
  <2> DEFINE f == [k \in 0 .. 0 |-> 0]
  <2>1. Sums(c, f, 0)
    BY DEF Sums
  <2> QED
    BY <2>1
<1>2. ASSUME NEW m \in Nat, m \in T
      PROVE  m + 1 \in T
  <2>1. PICK f : Sums(c, f, m)
    BY <1>2
  <2> DEFINE g == [k \in 0 .. m + 1 |-> IF k <= m THEN f[k] ELSE f[m] + Score(c, m + 1)]
  <2>2. \A k \in 0 .. m : f[k] = IF k = 0 THEN 0 ELSE f[k - 1] + Score(c, k)
    BY <2>1 DEF Sums
  <2>3. \A k \in 0 .. m + 1 : g[k] = IF k = 0 THEN 0 ELSE g[k - 1] + Score(c, k)
    <3> SUFFICES ASSUME NEW k \in 0 .. m + 1
                 PROVE  g[k] = IF k = 0 THEN 0 ELSE g[k - 1] + Score(c, k)
      OBVIOUS
    <3>1. CASE k = 0
      BY <3>1, <2>2
    <3>2. CASE k # 0 /\ k <= m
      <4>1. k - 1 \in 0 .. m /\ k - 1 \in 0 .. m + 1 /\ k \in 0 .. m /\ k - 1 <= m
        BY <3>2
      <4>2. g[k] = f[k] /\ g[k - 1] = f[k - 1]
        BY <4>1, <3>2
      <4> HIDE DEF g
      <4> QED
        BY <4>1, <4>2, <3>2, <2>2
    <3>3. CASE k = m + 1
      <4>1. k # 0 /\ ~(k <= m) /\ k - 1 = m /\ m \in 0 .. m + 1 /\ m <= m
        BY <3>3
      <4>2. g[k] = f[m] + Score(c, m + 1) /\ g[m] = f[m]
        BY <4>1
      <4> HIDE DEF g
      <4> QED
        BY <4>1, <4>2, <3>3
    <3> HIDE DEF g
    <3> QED
      BY <3>1, <3>2, <3>3
  <2>4. Sums(c, g, m + 1)
    <3>1. g = [k \in 0 .. m + 1 |-> g[k]]
      OBVIOUS
    <3> HIDE DEF g
    <3> QED
      BY <3>1, <2>3 DEF Sums
  <2> QED
    BY <2>4
<1> HIDE DEF T
<1>3. \A m \in Nat : m \in T
  BY <1>1, <1>2, AllNumbers
<1> QED
  BY <1>3 DEF T

LEMMA ScoreIs ==
  ASSUME args \in Seq(Types), NEW c
  PROVE  \E f : Sums(c, f, Len(args)) /\ scoreCandidate(c) = f[Len(args)]
<1> DEFINE total == CHOOSE f : f = [k \in 0 .. Len(args) |-> IF k = 0 THEN 0 ELSE f[k - 1] + Score(c, k)]
<1>1. \E f : Sums(c, f, Len(args))
  BY SumsExist
<1>2. Sums(c, total, Len(args))
  BY <1>1, Zenon DEF Sums
<1>3. scoreCandidate(c) = total[Len(args)]
  BY Zenon DEF scoreCandidate, Score
<1> QED
  BY <1>2, <1>3

LEMMA ScoresAre ==
  ASSUME NEW c, NEW k
  PROVE  /\ Score(c, k) \in Nat
         /\ \/ Fit(k, Takes(c)[k]) = 2 /\ Score(c, k) = 10
            \/ Fit(k, Takes(c)[k]) = 1 /\ Score(c, k) = 1
            \/ Fit(k, Takes(c)[k]) = 0 /\ Score(c, k) = 0
<1> DEFINE type == getTypeFromCommandType(Takes(c)[k])
           same == SameArchetype(type, args[k])
<1>1. Fit(k, Takes(c)[k]) = IF type = args[k] THEN 2 ELSE IF same THEN 1 ELSE 0
  BY DEF Fit
<1>2. Score(c, k) = IF type = args[k] THEN 10 ELSE IF same THEN 1 ELSE 0
  BY DEF Score, ArgScore
<1> HIDE DEF type, same
<1> QED
  BY <1>1, <1>2

\* An overload that beats another has the higher score.
LEMMA BetterScoresMore ==
  ASSUME args \in Seq(Types), NEW c, NEW d, Beats(c, d)
  PROVE  scoreCandidate(c) \in Nat /\ scoreCandidate(d) \in Nat /\ scoreCandidate(c) > scoreCandidate(d)
<1> DEFINE n == Len(args)
<1>1. n \in Nat /\ DOMAIN args = 1 .. n
  OBVIOUS
<1>2. PICK f : Sums(c, f, n) /\ scoreCandidate(c) = f[n]
  BY ScoreIs
<1>3. PICK g : Sums(d, g, n) /\ scoreCandidate(d) = g[n]
  BY ScoreIs
<1>4. \A k \in 1 .. n : Score(c, k) \in Nat /\ Score(d, k) \in Nat /\ Score(c, k) >= Score(d, k)
  <2> SUFFICES ASSUME NEW k \in 1 .. n
               PROVE  Score(c, k) \in Nat /\ Score(d, k) \in Nat /\ Score(c, k) >= Score(d, k)
    OBVIOUS
  <2>1. Fit(k, Takes(c)[k]) >= Fit(k, Takes(d)[k])
    BY <1>1 DEF Beats
  <2> QED
    BY <2>1, ScoresAre
<1>5. PICK b \in 1 .. n : Score(c, b) > Score(d, b)
  <2>1. PICK k \in 1 .. n : Fit(k, Takes(c)[k]) > Fit(k, Takes(d)[k])
    BY <1>1 DEF Beats
  <2>2. Score(c, k) > Score(d, k)
    BY <2>1, ScoresAre
  <2> QED
    BY <2>2
<1>6. f[0] = 0 /\ g[0] = 0 /\ \A k \in 1 .. n : f[k] = f[k - 1] + Score(c, k) /\ g[k] = g[k - 1] + Score(d, k)
  <2>1. /\ f = [k \in 0 .. n |-> IF k = 0 THEN 0 ELSE f[k - 1] + Score(c, k)]
        /\ g = [k \in 0 .. n |-> IF k = 0 THEN 0 ELSE g[k - 1] + Score(d, k)]
    BY <1>2, <1>3 DEF Sums
  <2>2. 0 \in 0 .. n /\ \A k \in 1 .. n : k \in 0 .. n /\ k # 0
    BY <1>1
  <2> HIDE DEF n
  <2>3. \A k \in 0 .. n : /\ f[k] = IF k = 0 THEN 0 ELSE f[k - 1] + Score(c, k)
                          /\ g[k] = IF k = 0 THEN 0 ELSE g[k - 1] + Score(d, k)
    BY <2>1, Zenon
  <2> QED
    BY <2>2, <2>3, Zenon
<1> HIDE DEF n
<1> DEFINE Leads(m) == m <= n => f[m] \in Nat /\ g[m] \in Nat /\ f[m] >= g[m] /\ (m >= b => f[m] > g[m])
           T == {m \in Nat : Leads(m)}
<1>7. 0 \in T
  BY <1>1, <1>5, <1>6
<1>8. ASSUME NEW m \in Nat, m \in T
      PROVE  m + 1 \in T
  <2>1. SUFFICES ASSUME m + 1 <= n
                 PROVE  Leads(m + 1)
    BY DEF Leads
  <2>2. f[m] \in Nat /\ g[m] \in Nat /\ f[m] >= g[m] /\ (m >= b => f[m] > g[m])
    BY <1>1, <1>8, <2>1
  <2>3. PICK k \in 1 .. n : k = m + 1 /\ k - 1 = m
    BY <1>1, <2>1
  <2>4. f[k] = f[m] + Score(c, k) /\ g[k] = g[m] + Score(d, k)
    BY <1>6, <2>3
  <2>5. Score(c, k) \in Nat /\ Score(d, k) \in Nat /\ Score(c, k) >= Score(d, k) /\ (k = b => Score(c, k) > Score(d, k))
    BY <1>4, <1>5
  <2>6. k >= b => k = b \/ m >= b
    BY <2>3, <1>5, <1>1
  <2>7. f[k] \in Nat /\ g[k] \in Nat /\ f[k] >= g[k] /\ (k >= b => f[k] > g[k])
    BY ONLY <2>2, <2>4, <2>5, <2>6
  <2> QED
    BY <2>3, <2>7
<1> HIDE DEF T
<1>9. \A m \in Nat : m \in T
  BY <1>7, <1>8, AllNumbers
<1>10. Leads(n)
  BY <1>1, <1>9 DEF T
<1> QED
  BY <1>1, <1>2, <1>3, <1>5, <1>10

-----------------------------------------------------------------------------
(* The call.                                                               *)

Suitable(c) == Len(Takes(c)) = Len(args) /\ convertArgumentsPossible(c)
CallTexts ==
  /\ status \in Loading \cup {"loaded", "matcher"} => text = <<>>
  /\ text # <<>> => text \in Texts
  /\ args \in Seq(Types)
CallCandidates ==
  /\ status = "matcher" => matcher = updateFromIndex([k \in DOMAIN commands |-> commands[k].name])
  /\ status = "overloads" => candidates = lookup(text)
  /\ text # <<>> /\ status \in {"sort", "called", "fatal"} => lookup(text) # {}
  /\ text # <<>> /\ status = "undefined" => lookup(text) = {}
  /\ status = "sort" => args # <<>> /\ candidates = {c \in lookup(text) : Suitable(c)}
CallInv == CallTexts /\ CallCandidates /\ DominatedNeverCalled

LEMMA LoadSteps ==
  ASSUME Load
  PROVE  status \in Loading /\ status' \in Loading \cup Final \cup {"loaded"}
<1>1. CASE NoRoot
  BY <1>1 DEF NoRoot, Fail, Loading, Final
<1>2. CASE ScanSdk
  BY <1>2 DEF ScanSdk, Loading
<1>3. CASE ScanAdditional
  BY <1>3 DEF ScanAdditional, Loading, Final
<1>4. CASE OpenLibrary
  BY <1>4 DEF OpenLibrary, Loading
<1>5. CASE ReadSymbol
  <2>1. \A s : AddSymbol(s) => status' = status \/ status' \in Final
    BY DEF AddSymbol, Final
  <2>2. status = "scan" /\ (status' = status \/ status' \in Final)
    BY <1>5, <2>1 DEF ReadSymbol, Final
  <2> QED
    BY <2>2 DEF Loading
<1>6. CASE ReadString
  BY <1>6 DEF ReadString, Loading, Final
<1>7. CASE LibraryDone
  BY <1>7 DEF LibraryDone, Loading
<1>8. CASE findConflicts
  BY <1>8 DEF findConflicts, Loading, Final
<1> QED
  BY <1>1, <1>2, <1>3, <1>4, <1>5, <1>6, <1>7, <1>8 DEF Load

LEMMA LookUpStep ==
  ASSUME CallInv, LookUp
  PROVE  CallInv'
<1>1. /\ status = "matcher" /\ UNCHANGED <<commands, matcher, command>>
      /\ text' \in Texts /\ args' \in CallArgs
      /\ \/ status' = "overloads" /\ candidates' = lookup(text')
         \/ status' = "no command" /\ candidates' = {}
  BY DEF LookUp
<1>2. text' # <<>> /\ args' \in Seq(Types)
  BY <1>1, TextsAreText, CallArgsAreTypes
<1>3. CallTexts'
  BY <1>1, <1>2 DEF CallTexts, Loading
<1>4. lookup(text)' = lookup(text')
  BY <1>1 DEF lookup
<1>5. CallCandidates'
  BY <1>1, <1>4 DEF CallCandidates
<1>6. DominatedNeverCalled'
  BY <1>1 DEF DominatedNeverCalled
<1> QED
  BY <1>3, <1>5, <1>6 DEF CallInv

\* What stays as it is while an overload is picked.
Picking ==
  /\ UNCHANGED <<commands, matcher, text, args>> /\ status' \in {"undefined", "called", "fatal", "sort"}
LEMMA PickingKeeps ==
  ASSUME CallInv, Picking
  PROVE  CallTexts' /\ \A t : lookup(t)' = lookup(t)
<1>1. CallTexts'
  BY DEF CallInv, CallTexts, Picking, Loading
<1>2. \A t : lookup(t)' = lookup(t)
  BY DEF lookup, Picking
<1> QED
  BY <1>1, <1>2

LEMMA FrontOfNoneStep ==
  ASSUME CallInv, FrontOfNone
  PROVE  CallInv'
<1>1. /\ status = "overloads" /\ candidates = {} /\ status' = "undefined" /\ Picking
  BY DEF FrontOfNone, Picking, callVars
<1>2. lookup(text) = {}
  BY <1>1 DEF CallInv, CallCandidates
<1>3. lookup(text)' = {}
  BY <1>1, <1>2 DEF lookup, Picking
<1>4. CallCandidates'
  BY <1>1, <1>3 DEF CallCandidates
<1>5. DominatedNeverCalled'
  BY <1>1 DEF DominatedNeverCalled
<1> QED
  BY <1>1, <1>4, <1>5, PickingKeeps DEF CallInv

LEMMA CallWithoutArgumentsStep ==
  ASSUME CallInv, CallWithoutArguments
  PROVE  CallInv'
<1>1. /\ status = "overloads" /\ args = <<>> /\ candidates # {} /\ Picking /\ status' \in {"called", "fatal"}
  BY DEF CallWithoutArguments, Call, Picking
<1>2. lookup(text) # {}
  BY <1>1 DEF CallInv, CallCandidates
<1>3. lookup(text)' # {}
  BY <1>1, <1>2 DEF lookup, Picking
<1>4. CallCandidates'
  BY <1>1, <1>3 DEF CallCandidates
<1>5. DominatedNeverCalled'
  BY <1>1 DEF DominatedNeverCalled, Picking
<1> QED
  BY <1>1, <1>4, <1>5, PickingKeeps DEF CallInv

LEMMA RemoveUnsuitableStep ==
  ASSUME CallInv, RemoveUnsuitable
  PROVE  CallInv'
<1>1. /\ status = "overloads" /\ args # <<>> /\ candidates # {} /\ Picking /\ status' \in {"fatal", "sort"}
      /\ candidates' = {c \in OfTheRightLength : convertArgumentsPossible(c)}
  BY DEF RemoveUnsuitable, Picking
<1>2. candidates = lookup(text)
  BY <1>1 DEF CallInv, CallCandidates
<1>3. lookup(text)' = lookup(text)
  BY <1>1 DEF lookup, Picking
<1>4. candidates' = {c \in lookup(text) : Suitable(c)}
  BY <1>1, <1>2 DEF OfTheRightLength, Suitable
<1>5. \A c : Suitable(c)' = Suitable(c)
  BY <1>1 DEF Suitable, Takes, convertArgumentsPossible, ConvertsTo, Picking
<1>6. args' # <<>>
  BY <1>1 DEF Picking
<1>7. CallCandidates'
  BY <1>1, <1>2, <1>3, <1>4, <1>5, <1>6 DEF CallCandidates
<1>8. DominatedNeverCalled'
  BY <1>1 DEF DominatedNeverCalled
<1> QED
  BY <1>1, <1>7, <1>8, PickingKeeps DEF CallInv

LEMMA CallBestStep ==
  ASSUME CallInv, CallBest
  PROVE  CallInv'
<1>1. /\ status = "sort" /\ Picking /\ status' \in {"called", "fatal"} /\ command' \in Best
  BY DEF CallBest, Call, Picking
<1>2. args # <<>> /\ candidates = {c \in lookup(text) : Suitable(c)} /\ args \in Seq(Types)
  BY <1>1 DEF CallInv, CallCandidates, CallTexts
<1>3. command' \in lookup(text) /\ \A d \in candidates : scoreCandidate(d) <= scoreCandidate(command')
  BY <1>1, <1>2 DEF Best
<1>4. lookup(text)' = lookup(text)
  BY <1>1 DEF lookup, Picking
<1>5. CallCandidates'
  BY <1>1, <1>3, <1>4 DEF CallCandidates
<1>6. ASSUME NEW c \in lookup(text)
      PROVE  ~Beats(c, command')
  <2>1. SUFFICES ASSUME Beats(c, command')
                 PROVE  FALSE
    OBVIOUS
  <2>2. c \in candidates
    BY <1>2, <1>6, <2>1 DEF Beats, Suitable
  <2>3. PICK d : d = command'
    OBVIOUS
  <2>4. Beats(c, d)
    BY <2>1, <2>3
  <2>5. scoreCandidate(c) \in Nat /\ scoreCandidate(d) \in Nat /\ scoreCandidate(c) > scoreCandidate(d)
    BY <1>2, <2>4, BetterScoresMore
  <2>6. scoreCandidate(c) <= scoreCandidate(d)
    BY <1>3, <2>2, <2>3
  <2> QED
    BY ONLY <2>5, <2>6
<1>7. DominatedNeverCalled'
  <2>1. \A c : Beats(c, command)' <=> Beats(c, command')
    BY <1>1 DEF Beats, Takes, convertArgumentsPossible, ConvertsTo, Fit, Picking
  <2> QED
    BY <1>4, <1>6, <2>1 DEF DominatedNeverCalled
<1> QED
  BY <1>1, <1>5, <1>7, PickingKeeps DEF CallInv

LEMMA CallInvStep ==
  CallInv /\ [Next]_vars => CallInv'
<1> SUFFICES ASSUME CallInv, [Next]_vars
             PROVE  CallInv'
  OBVIOUS
<1>1. CASE LoadIndex
  <2>1. status \in Loading /\ status' \in Loading \cup Final \cup {"loaded"} /\ UNCHANGED callVars
    BY <1>1, LoadSteps DEF LoadIndex
  <2>2. text = <<>> /\ text' = <<>> /\ args' \in Seq(Types)
    BY <2>1 DEF CallInv, CallTexts, callVars
  <2>3. status' \notin {"matcher", "overloads", "sort", "called"}
    BY <2>1 DEF Loading, Final
  <2>4. CallTexts' /\ CallCandidates' /\ DominatedNeverCalled'
    BY <2>2, <2>3 DEF CallTexts, CallCandidates, DominatedNeverCalled
  <2> QED
    BY <2>4 DEF CallInv
<1>2. CASE UpdateMatcher
  <2>1. /\ status = "loaded" /\ status' = "matcher" /\ UNCHANGED <<commands, text, args>>
        /\ matcher' = updateFromIndex([k \in DOMAIN commands |-> commands[k].name])
    BY <1>2 DEF UpdateMatcher
  <2>2. text' = <<>> /\ args' \in Seq(Types)
    BY <2>1 DEF CallInv, CallTexts
  <2>3. CallTexts' /\ DominatedNeverCalled'
    BY <2>1, <2>2 DEF CallTexts, DominatedNeverCalled
  <2>4. CallCandidates'
    BY <2>1 DEF CallCandidates
  <2> QED
    BY <2>3, <2>4 DEF CallInv
<1>3. CASE UNCHANGED vars
  <2>1. UNCHANGED <<status, commands, matcher, text, args, candidates, command>>
    BY <1>3 DEF vars, indexVars, callVars
  <2>2. CallTexts'
    BY <2>1 DEF CallInv, CallTexts
  <2>3. lookup(text)' = lookup(text)
    BY <2>1 DEF lookup
  <2>4. \A c : Suitable(c)' = Suitable(c)
    BY <2>1 DEF Suitable, Takes, convertArgumentsPossible, ConvertsTo
  <2>5. CallCandidates'
    BY <2>1, <2>3, <2>4 DEF CallInv, CallCandidates
  <2>6. \A c : Beats(c, command)' = Beats(c, command)
    BY <2>1 DEF Beats, Takes, convertArgumentsPossible, ConvertsTo, Fit
  <2>7. DominatedNeverCalled'
    BY <2>1, <2>3, <2>6 DEF CallInv, DominatedNeverCalled
  <2> QED
    BY <2>2, <2>5, <2>7 DEF CallInv
<1> QED
  BY <1>1, <1>2, <1>3, LookUpStep, FrontOfNoneStep, CallWithoutArgumentsStep, RemoveUnsuitableStep, CallBestStep DEF Next

LEMMA CallInvInit ==
  CallInit => CallInv
<1> SUFFICES ASSUME CallInit
             PROVE  CallInv
  OBVIOUS
<1>1. status = "start" /\ text = <<>> /\ args = <<>>
  BY DEF CallInit, Init
<1>2. CallTexts /\ CallCandidates /\ DominatedNeverCalled
  BY <1>1 DEF CallTexts, CallCandidates, DominatedNeverCalled
<1> QED
  BY <1>2 DEF CallInv

\* What a call's text, candidates and overload have to do with the index at every
\* step of convertCommandCallExpression: the inductive invariant of the call.
THEOREM CallingHolds == Spec => []CallInv
<1> QED
  BY CallInvInit, CallInvStep, PTL DEF Spec

\* For every index and every call: the overload that convertCommandCallExpression calls
\* is not beaten by another, for all that the score adds up over the arguments.
THEOREM BestIsCalled == Spec => []DominatedNeverCalled
<1>1. CallInv => DominatedNeverCalled
  BY DEF CallInv
<1> QED
  BY <1>1, CallingHolds, PTL

LEMMA NamesAreText ==
  ASSUME LoadInv
  PROVE  [k \in DOMAIN commands |-> commands[k].name] \in Seq(Text)
<1>1. commands \in Seq(Offered) /\ setup \in Setups
  BY DEF LoadInv, LoadTypes
<1>2. \A c \in Offered : c.name \in Text
  <2> SUFFICES ASSUME NEW c \in Offered
               PROVE  c.name \in Text
    OBVIOUS
  <2>1. PICK l \in WantedScanned : c \in OffersOf(l)
    BY DEF Offered
  <2>2. PICK k \in Entries(l) : c = CommandOf(l, k)
    BY <2>1 DEF OffersOf
  <2>3. l \in DOMAIN Libraries
    BY <1>1, <2>1, WantedIs
  <2> QED
    BY <2>2, <2>3, OffersAre
<1>3. DOMAIN commands = 1 .. Len(commands) /\ Len(commands) \in Nat /\ \A k \in DOMAIN commands : commands[k] \in Offered
  BY <1>1
<1>4. \A k \in 1 .. Len(commands) : commands[k].name \in Text
  BY <1>2, <1>3
<1> QED
  BY <1>3, <1>4

LEMMA MatcherFollows ==
  LoadInv /\ CallInv => MatcherIsExact
<1> SUFFICES ASSUME LoadInv, CallInv, status = "matcher", NEW t \in Texts
             PROVE  IsCommand(t) <=> \E k \in DOMAIN commands : toLower(commands[k].name) = toLower(t)
  BY DEF MatcherIsExact
<1> DEFINE list == [k \in DOMAIN commands |-> commands[k].name]
<1>1. matcher = updateFromIndex(list)
  BY DEF CallInv, CallCandidates
<1>2. list \in Seq(Text) /\ DOMAIN list = DOMAIN commands /\ \A k \in DOMAIN commands : list[k] = commands[k].name
  BY NamesAreText
<1>3. PICK names \in Seq(Text) : names = list
  BY <1>2, Zenon
<1>4. /\ matcher \in Seq(Text) /\ Ascending(matcher) /\ \A n \in DOMAIN matcher : toLower(matcher[n]) = matcher[n]
      /\ \A u : (\E n \in DOMAIN matcher : matcher[n] = u) <=> \E k \in DOMAIN names : toLower(names[k]) = u
  BY <1>1, <1>3, UpdatedIs
<1>5. t \in Text /\ t # <<>>
  BY TextsAreText
<1>6. IsCommand(t) <=> \E n \in DOMAIN matcher : matcher[n] = toLower(t)
  BY <1>4, <1>5, MatchIsExact DEF IsCommand
<1> HIDE DEF list
<1>7. (\E n \in DOMAIN matcher : matcher[n] = toLower(t)) <=> \E k \in DOMAIN names : toLower(names[k]) = toLower(t)
  BY <1>4
<1> QED
  BY <1>2, <1>3, <1>6, <1>7

\* For every set of command names and every text: the halving search over the sorted
\* names takes the whole text for a command exactly if it is the name of one, in any
\* spelling of either.
THEOREM MatchingIsExact == Spec => []MatcherIsExact
<1> QED
  BY MatcherFollows, LoadingHolds, CallingHolds, PTL

LEMMA CapitalsFollow ==
  LoadInv /\ CallInv => CapitalsAreUndefined
<1> SUFFICES ASSUME LoadInv, CallInv, text # <<>>, status \in {"undefined", "sort", "called", "fatal"}
             PROVE  status = "undefined" <=>
                      \A k \in DOMAIN commands :
                        toLower(commands[k].name) = toLower(text) => commands[k].name # toLower(commands[k].name)
  BY DEF CapitalsAreUndefined
<1>1. status = "undefined" <=> lookup(text) = {}
  BY DEF CallInv, CallCandidates
<1>2. text \in Text
  BY TextsAreText DEF CallInv, CallTexts
<1>3. toLower(toLower(text)) = toLower(text)
  BY <1>2, LowerOfText
<1>4. \A k \in DOMAIN commands :
        k \in lookup(text) <=> /\ toLower(commands[k].name) = toLower(text)
                               /\ commands[k].name = toLower(commands[k].name)
  BY <1>3 DEF lookup
<1>5. lookup(text) \in SUBSET DOMAIN commands
  BY DEF lookup
<1> QED
  BY <1>1, <1>4, <1>5

\* For every index: convertCommandCallExpression takes the front of an empty list of
\* overloads exactly for the names that every plugin spells with a capital.
THEOREM CapitalsUndefined == Spec => []CapitalsAreUndefined
<1> QED
  BY CapitalsFollow, LoadingHolds, CallingHolds, PTL
=============================================================================
