-------------------------- MODULE CommandLexerProofs --------------------------
(***************************************************************************)
(* Theorems about CommandLexer, for every set of files, commands and       *)
(* keywords: the queue of doParse loses and repeats no token, each string  *)
(* has one owner, and the scanner is never asked for a token behind        *)
(* TOK_END.  The second invariant, Spelling, is about what the tokens       *)
(* spell: what is pushed depends on the source alone.                      *)
(***************************************************************************)
EXTENDS CommandLexer, FiniteSetTheorems, SequenceTheorems, WellFoundedInduction, TLAPS

-----------------------------------------------------------------------------
\* How often the tokens of q hold the string s, and whether the token t does.
Count(q, s) == Cardinality(Holders(q, s))
One(t, s) == IF tokenHasFreeableString(t) /\ StringOf(t) = s THEN 1 ELSE 0

\* The tokens of a sequence that hold a string are finitely many.
LEMMA HoldersFinite ==
  ASSUME NEW T, NEW q \in Seq(T), NEW s
  PROVE  IsFiniteSet(Holders(q, s)) /\ Count(q, s) \in Nat
<1>1. Holders(q, s) \in SUBSET (1 .. Len(q))
  BY DEF Holders
<1>2. IsFiniteSet(1 .. Len(q))
  BY FS_Interval
<1>3. IsFiniteSet(Holders(q, s))
  BY ONLY <1>1, <1>2, FS_Subset
<1> QED
  BY <1>3, FS_CardinalityType DEF Count

\* Of two sequences, one behind the other, each token counts once.
LEMMA CountConcat ==
  ASSUME NEW T, NEW q \in Seq(T), NEW r \in Seq(T), NEW s
  PROVE  Count(q \o r, s) = Count(q, s) + Count(r, s)
<1> DEFINE n == Len(q)
           B == Holders(r, s)
           C == {k \in n + 1 .. n + Len(r) : tokenHasFreeableString((q \o r)[k])
                                              /\ StringOf((q \o r)[k]) = s}
           shift == [k \in B |-> k + n]
<1>1. n \in Nat /\ Len(r) \in Nat /\ DOMAIN q = 1 .. n /\ DOMAIN r = 1 .. Len(r)
      /\ DOMAIN (q \o r) = 1 .. n + Len(r)
  OBVIOUS
<1>2. \A k \in 1 .. n : (q \o r)[k] = q[k]
  OBVIOUS
<1>3. \A k \in 1 .. Len(r) : (q \o r)[k + n] = r[k]
  OBVIOUS
<1> HIDE DEF n
<1>4. Holders(q \o r, s) = Holders(q, s) \cup C
  BY <1>1, <1>2 DEF Holders
<1>5. Holders(q, s) \cap C = {}
  BY <1>1 DEF Holders
<1>6. shift \in Bijection(B, C)
  <2>1. \A k \in B : k + n \in C
    BY <1>1, <1>3 DEF Holders
  <2>2. \A c \in C : c - n \in B /\ (c - n) + n = c
    <3> SUFFICES ASSUME NEW c \in C PROVE c - n \in B /\ (c - n) + n = c
      OBVIOUS
    <3>1. c - n \in 1 .. Len(r) /\ (c - n) + n = c
      BY <1>1
    <3>2. (q \o r)[c] = r[c - n]
      BY <3>1, <1>3
    <3> QED
      BY <3>1, <3>2, <1>1 DEF Holders
  <2>3. \A k, l \in B : k + n = l + n => k = l
    BY <1>1 DEF Holders
  <2>4. \A c \in C : \E k \in B : shift[k] = c
    BY <2>2
  <2>5. shift \in [B -> C] /\ \A k \in B : shift[k] = k + n
    BY <2>1
  <2> HIDE DEF B, C, shift
  <2>6. shift \in Injection(B, C)
    BY <2>3, <2>5 DEF Injection, IsInjective
  <2>7. shift \in Surjection(B, C)
    BY <2>4, <2>5 DEF Surjection
  <2> QED
    BY <2>6, <2>7 DEF Bijection
<1> HIDE DEF B, C, shift
<1>7. IsFiniteSet(B) /\ IsFiniteSet(Holders(q, s))
  BY HoldersFinite DEF B
<1>8. IsFiniteSet(C) /\ Cardinality(C) = Cardinality(B)
  BY <1>6, <1>7, FS_Bijection DEF ExistsBijection
<1>9. Cardinality(Holders(q, s) \cup C) = Cardinality(Holders(q, s)) + Cardinality(C)
  <2>1. Cardinality(Holders(q, s) \cup C)
          = Cardinality(Holders(q, s)) + Cardinality(C) - Cardinality(Holders(q, s) \cap C)
    BY ONLY <1>7, <1>8, FS_Union
  <2>2. Cardinality(Holders(q, s) \cap C) = 0
    BY <1>5, FS_EmptySet
  <2>3. Cardinality(Holders(q, s)) \in Nat /\ Cardinality(C) \in Nat
    BY <1>7, <1>8, FS_CardinalityType
  <2> QED
    BY <2>1, <2>2, <2>3
<1> QED
  BY <1>4, <1>8, <1>9 DEF Count, B

\* A token alone counts if it holds the string; no token, never.
LEMMA CountOne ==
  ASSUME NEW t, NEW s
  PROVE  Count(<<t>>, s) = One(t, s) /\ Count(<<>>, s) = 0
<1>1. Holders(<<t>>, s) = IF tokenHasFreeableString(t) /\ StringOf(t) = s THEN {1} ELSE {}
  BY DEF Holders
<1>2. Holders(<<>>, s) = {}
  BY DEF Holders
<1> QED
  BY <1>1, <1>2, FS_EmptySet, FS_Singleton DEF Count, One

\* The cuts of a sequence that doParse makes.
LEMMA CountAppend ==
  ASSUME NEW T, NEW q \in Seq(T), NEW t \in T, NEW s
  PROVE  Count(Append(q, t), s) = Count(q, s) + One(t, s)
<1>0. <<t>> \in Seq(T)
  OBVIOUS
<1>1. PICK one \in Seq(T) : one = <<t>>
  BY <1>0, Zenon
<1>2. Append(q, t) = q \o one
  BY <1>1
<1>3. Count(q \o one, s) = Count(q, s) + Count(one, s)
  BY CountConcat
<1>4. Count(one, s) = One(t, s)
  BY <1>1, CountOne, Zenon
<1> QED
  BY <1>2, <1>3, <1>4

LEMMA CountPut ==
  ASSUME NEW T, NEW q \in Seq(T), NEW t \in T, NEW s
  PROVE  Count(<<t>> \o q, s) = One(t, s) + Count(q, s)
<1>0. <<t>> \in Seq(T)
  OBVIOUS
<1>1. PICK one \in Seq(T) : one = <<t>>
  BY <1>0, Zenon
<1>2. Count(one \o q, s) = Count(one, s) + Count(q, s)
  BY CountConcat
<1>3. Count(one, s) = One(t, s)
  BY <1>1, CountOne, Zenon
<1>4. Count(<<t>> \o q, s) = Count(one \o q, s)
  BY ONLY <1>1, Zenon
<1> QED
  BY <1>2, <1>3, <1>4

LEMMA CountSplit ==
  ASSUME NEW T, NEW q \in Seq(T), NEW s, NEW b \in 1 .. Len(q)
  PROVE  /\ SubSeq(q, 1, b) \in Seq(T) /\ SubSeq(q, b + 1, Len(q)) \in Seq(T)
         /\ Count(q, s) = Count(SubSeq(q, 1, b), s) + Count(SubSeq(q, b + 1, Len(q)), s)
<1>1. SubSeq(q, 1, b) \in Seq(T) /\ SubSeq(q, b + 1, Len(q)) \in Seq(T)
  OBVIOUS
<1>2. SubSeq(q, 1, b) \o SubSeq(q, b + 1, Len(q)) = q
  OBVIOUS
<1>3. Count(SubSeq(q, 1, b) \o SubSeq(q, b + 1, Len(q)), s)
        = Count(SubSeq(q, 1, b), s) + Count(SubSeq(q, b + 1, Len(q)), s)
  BY ONLY <1>1, CountConcat
<1> QED
  BY <1>1, <1>2, <1>3

LEMMA CountHead ==
  ASSUME NEW T, NEW q \in Seq(T), NEW s, q # <<>>
  PROVE  Count(q, s) = One(Head(q), s) + Count(Tail(q), s)
<1>1. Head(q) \in T /\ Tail(q) \in Seq(T) /\ q = <<Head(q)>> \o Tail(q)
  OBVIOUS
<1>2. Count(<<Head(q)>> \o Tail(q), s) = One(Head(q), s) + Count(Tail(q), s)
  BY ONLY <1>1, CountPut
<1> QED
  BY <1>1, <1>2

-----------------------------------------------------------------------------
\* The tokens of q cover the source from behind lo up to hi, in order, without
\* a gap and without overlap.
Covers(q, lo, hi) ==
  /\ \A k \in DOMAIN q : q[k].from \in lo + 1 .. hi /\ q[k].to \in q[k].from .. hi
  /\ \A j, k \in DOMAIN q : j < k => q[j].to < q[k].from
  /\ \A k \in DOMAIN q : k < Len(q) => q[k + 1].from = q[k].to + 1
  /\ IF q = <<>> THEN lo = hi ELSE q[1].from = lo + 1 /\ q[Len(q)].to = hi

\* A token more behind the last, the first one taken, the first b merged into
\* one and the first one changed: the queue goes on covering its part.
LEMMA CoversGrow ==
  ASSUME NEW T, NEW q \in Seq(T), NEW t \in T, NEW lo \in Nat, NEW hi \in Nat, lo <= hi,
         Covers(q, lo, hi), t.from = hi + 1, NEW up \in Nat, hi < up, t.to = up
  PROVE  Covers(Append(q, t), lo, up)
<1> DEFINE a == Append(q, t)
<1>1. /\ Len(q) \in Nat /\ DOMAIN q = 1 .. Len(q) /\ a # <<>>
      /\ Len(a) = Len(q) + 1 /\ DOMAIN a = 1 .. Len(q) + 1
      /\ \A k \in 1 .. Len(q) : a[k] = q[k]
      /\ a[Len(q) + 1] = t
  OBVIOUS
<1>2. q = <<>> <=> Len(q) = 0
  OBVIOUS
<1> HIDE DEF a
<1>3. \A k \in DOMAIN a : a[k].from \in lo + 1 .. up /\ a[k].to \in a[k].from .. up
  BY <1>1 DEF Covers
<1>4. \A j, k \in DOMAIN a : j < k => a[j].to < a[k].from
  BY <1>1 DEF Covers
<1>5. \A k \in DOMAIN a : k < Len(a) => a[k + 1].from = a[k].to + 1
  <2>1. ASSUME NEW k \in 1 .. Len(q), k < Len(q)
        PROVE  a[k + 1].from = a[k].to + 1
    <3>1. k + 1 \in 1 .. Len(q) /\ q[k + 1].from = q[k].to + 1
      BY <1>1, <2>1 DEF Covers
    <3> QED
      BY <1>1, <3>1
  <2>2. ASSUME q # <<>>
        PROVE  a[Len(q) + 1].from = a[Len(q)].to + 1
    <3>1. q[Len(q)].to = hi /\ Len(q) \in 1 .. Len(q)
      BY <1>1, <1>2, <2>2 DEF Covers
    <3> QED
      BY <1>1, <3>1
  <2> QED
    BY <1>1, <1>2, <2>1, <2>2
<1>6. a[1].from = lo + 1 /\ a[Len(a)].to = up
  BY <1>1, <1>2 DEF Covers
<1> QED
  BY <1>1, <1>3, <1>4, <1>5, <1>6 DEF Covers, a

LEMMA CoversPut ==
  ASSUME NEW T, NEW q \in Seq(T), NEW t \in T, NEW lo \in Nat, NEW m \in Nat, NEW hi \in Nat,
         Covers(q, m, hi), lo < m, m <= hi, t.from = lo + 1, t.to = m
  PROVE  Covers(<<t>> \o q, lo, hi)
<1> DEFINE a == <<t>> \o q
<1>1. /\ Len(q) \in Nat /\ DOMAIN q = 1 .. Len(q) /\ a # <<>>
      /\ Len(a) = Len(q) + 1 /\ DOMAIN a = 1 .. Len(q) + 1
      /\ \A k \in 1 .. Len(q) : a[k + 1] = q[k]
      /\ a[1] = t
  OBVIOUS
<1>2. q = <<>> <=> Len(q) = 0
  OBVIOUS
<1> HIDE DEF a
<1>3. ASSUME NEW k \in DOMAIN a
      PROVE  k = 1 \/ \E h \in DOMAIN q : h = k - 1 /\ a[k] = q[h]
  <2>1. CASE k # 1
    <3>1. k - 1 \in 1 .. Len(q) /\ k = (k - 1) + 1
      BY <1>1, <2>1
    <3> QED
      BY <3>1, <1>1
  <2> QED
    BY <2>1
<1>4. \A k \in DOMAIN q : q[k].from \in m + 1 .. hi /\ q[k].to \in q[k].from .. hi
  BY DEF Covers
<1>5. \A k \in DOMAIN a : a[k].from \in lo + 1 .. hi /\ a[k].to \in a[k].from .. hi
  BY <1>1, <1>3, <1>4
<1>6. ASSUME NEW j \in DOMAIN a, NEW k \in DOMAIN a, j < k
      PROVE  a[j].to < a[k].from
  <2>1. PICK h \in DOMAIN q : h = k - 1 /\ a[k] = q[h]
    BY <1>1, <1>3, <1>6
  <2>2. CASE j = 1
    BY <1>1, <1>4, <2>1, <2>2
  <2>3. CASE j # 1
    <3>1. PICK g \in DOMAIN q : g = j - 1 /\ a[j] = q[g]
      BY <1>3, <2>3
    <3>2. g < h
      BY <1>1, <1>6, <2>1, <3>1
    <3> QED
      BY <2>1, <3>1, <3>2 DEF Covers
  <2> QED
    BY <2>2, <2>3
<1>7. ASSUME NEW k \in DOMAIN a, k < Len(a)
      PROVE  a[k + 1].from = a[k].to + 1
  <2>1. CASE k = 1
    BY <1>1, <1>2, <1>7, <2>1 DEF Covers
  <2>2. CASE k # 1
    <3>1. PICK h \in DOMAIN q : h = k - 1 /\ a[k] = q[h]
      BY <1>3, <2>2
    <3>2. h < Len(q) /\ a[k + 1] = q[h + 1]
      BY <1>1, <1>7, <3>1
    <3> QED
      BY <3>1, <3>2 DEF Covers
  <2> QED
    BY <2>1, <2>2
<1>8. a[1].from = lo + 1 /\ a[Len(a)].to = hi
  BY <1>1, <1>2 DEF Covers
<1>9. Covers(a, lo, hi)
  BY ONLY <1>1, <1>5, <1>6, <1>7, <1>8 DEF Covers
<1> QED
  BY <1>9 DEF a

\* The form of the property that is checked: from behind lo up to hi, no gap.
Contiguous(all, lo, hi) ==
  /\ all # <<>> => Head(all).from = lo + 1
  /\ \A k \in 1 .. Len(all) - 1 : all[k + 1].from = all[k].to + 1
  /\ all # <<>> => all[Len(all)].to = hi

LEMMA CoversConcat ==
  ASSUME NEW T, NEW q \in Seq(T), NEW r \in Seq(T), NEW lo \in Nat, NEW m \in Nat, NEW hi \in Nat,
         Covers(q, lo, m), Covers(r, m, hi)
  PROVE  Contiguous(q \o r, lo, hi)
<1>0. PICK all : all = q \o r
  OBVIOUS
<1>1. PICK l \in Nat : l = Len(q) /\ DOMAIN q = 1 .. l /\ (q = <<>> <=> l = 0)
  OBVIOUS
<1>2. PICK n \in Nat : n = Len(r) /\ DOMAIN r = 1 .. n /\ (r = <<>> <=> n = 0)
  OBVIOUS
<1>3. /\ Len(all) = l + n /\ (all # <<>> => Head(all) = all[1])
      /\ \A k \in 1 .. l : all[k] = q[k]
      /\ \A k \in 1 .. n : all[l + k] = r[k]
      /\ (all = <<>> <=> l + n = 0)
  BY <1>0, <1>1, <1>2
<1>4. /\ \A k \in 1 .. l : k < l => q[k + 1].from = q[k].to + 1
      /\ IF l = 0 THEN lo = m ELSE q[1].from = lo + 1 /\ q[l].to = m
  BY <1>1 DEF Covers
<1>5. /\ \A k \in 1 .. n : k < n => r[k + 1].from = r[k].to + 1
      /\ IF n = 0 THEN m = hi ELSE r[1].from = m + 1 /\ r[n].to = hi
  BY <1>2 DEF Covers
<1>6. ASSUME all # <<>> PROVE Head(all).from = lo + 1
  <2>1. CASE l = 0
    <3>1. 1 \in 1 .. n /\ all[l + 1] = all[1] /\ n # 0
      BY <1>1, <1>2, <1>3, <1>6, <2>1
    <3> QED
      BY <1>3, <1>4, <1>5, <1>6, <2>1, <3>1
  <2>2. CASE l # 0
    <3>1. 1 \in 1 .. l
      BY <2>2
    <3> QED
      BY <1>3, <1>4, <1>6, <2>2, <3>1
  <2> QED
    BY <2>1, <2>2
<1>7. ASSUME all # <<>> PROVE all[Len(all)].to = hi
  <2>1. CASE n = 0
    <3>1. l \in 1 .. l /\ l + n = l /\ l # 0
      BY <1>1, <1>2, <1>3, <1>7, <2>1
    <3> QED
      BY <1>3, <1>4, <1>5, <2>1, <3>1
  <2>2. CASE n # 0
    <3>1. n \in 1 .. n
      BY <2>2
    <3> QED
      BY <1>3, <1>5, <2>2, <3>1
  <2> QED
    BY <2>1, <2>2
<1>8. ASSUME NEW k \in 1 .. Len(all) - 1 PROVE all[k + 1].from = all[k].to + 1
  <2>1. k \in 1 .. (l + n) - 1
    BY <1>3
  <2>2. CASE k < l
    <3>1. k \in 1 .. l /\ k + 1 \in 1 .. l
      BY ONLY <2>1, <2>2, l \in Nat, n \in Nat
    <3> QED
      BY <1>3, <1>4, <2>2, <3>1
  <2>3. CASE k = l
    <3>1. l \in 1 .. l /\ 1 \in 1 .. n /\ l # 0 /\ n # 0
      BY ONLY <2>1, <2>3, l \in Nat, n \in Nat
    <3>2. all[k] = q[l] /\ all[k + 1] = r[1]
      BY <1>3, <2>3, <3>1
    <3> QED
      BY <1>4, <1>5, <3>1, <3>2
  <2>4. CASE k > l
    <3>1. PICK h \in 1 .. n : k = l + h /\ h < n /\ k + 1 = l + (h + 1) /\ h + 1 \in 1 .. n
      <4>1. k - l \in 1 .. n /\ k = l + (k - l) /\ k - l < n /\ k + 1 = l + ((k - l) + 1)
            /\ (k - l) + 1 \in 1 .. n
        BY ONLY <2>1, <2>4, l \in Nat, n \in Nat
      <4> QED
        BY <4>1
    <3>2. all[k] = r[h] /\ all[k + 1] = r[h + 1]
      BY <1>3, <3>1
    <3> QED
      BY <1>5, <3>1, <3>2
  <2> QED
    BY ONLY <2>1, <2>2, <2>3, <2>4, l \in Nat, n \in Nat
<1> QED
  BY <1>0, <1>6, <1>7, <1>8 DEF Contiguous

LEMMA CoversBehind ==
  ASSUME NEW T, NEW q \in Seq(T), NEW lo \in Nat, NEW hi \in Nat, Covers(q, lo, hi),
         NEW b \in 1 .. Len(q)
  PROVE  /\ q[1].from = lo + 1 /\ q[b].to \in lo + 1 .. hi
         /\ Covers(SubSeq(q, b + 1, Len(q)), q[b].to, hi)
<1> DEFINE r == SubSeq(q, b + 1, Len(q))
<1>1. /\ Len(q) \in Nat \ {0} /\ DOMAIN q = 1 .. Len(q) /\ b \in 1 .. Len(q)
      /\ Len(r) = Len(q) - b /\ DOMAIN r = 1 .. Len(q) - b
      /\ \A k \in 1 .. Len(q) - b : r[k] = q[b + k]
      /\ r \in Seq(T)
  OBVIOUS
<1> HIDE DEF r
<1>2. r = <<>> <=> Len(q) = b
  <2>1. r = <<>> <=> Len(r) = 0
    BY <1>1, EmptySeq
  <2>2. Len(q) - b = 0 <=> Len(q) = b
    BY ONLY <1>1
  <2> QED
    BY ONLY <1>1, <2>1, <2>2
<1>3. q # <<>> /\ q[1].from = lo + 1 /\ q[b].to \in lo + 1 .. hi
  <2>1. q # <<>> /\ q[1].from = lo + 1
    BY <1>1 DEF Covers
  <2>2. q[b].from \in lo + 1 .. hi /\ q[b].to \in q[b].from .. hi
    BY <1>1 DEF Covers
  <2> QED
    BY <2>1, <2>2
<1>4. ASSUME NEW k \in DOMAIN r
      PROVE  r[k].from \in q[b].to + 1 .. hi /\ r[k].to \in r[k].from .. hi
  <2>1. r[k] = q[b + k] /\ b \in DOMAIN q /\ b + k \in DOMAIN q /\ b < b + k
    BY <1>1
  <2>2. q[b].to < q[b + k].from /\ q[b + k].from \in lo + 1 .. hi
        /\ q[b + k].to \in q[b + k].from .. hi
    BY <2>1 DEF Covers
  <2> QED
    BY <2>1, <2>2, <1>3
<1>5. ASSUME NEW j \in DOMAIN r, NEW k \in DOMAIN r, j < k
      PROVE  r[j].to < r[k].from
  <2>1. r[j] = q[b + j] /\ r[k] = q[b + k] /\ b + j \in DOMAIN q /\ b + k \in DOMAIN q
        /\ b + j < b + k
    BY <1>1, <1>5
  <2> QED
    BY <2>1 DEF Covers
<1>6. ASSUME NEW k \in DOMAIN r, k < Len(r)
      PROVE  r[k + 1].from = r[k].to + 1
  <2>1. k \in 1 .. Len(q) - b /\ k + 1 \in 1 .. Len(q) - b
    BY ONLY <1>1, <1>6, k \in DOMAIN r
  <2>2. r[k] = q[b + k] /\ r[k + 1] = q[b + (k + 1)]
    BY ONLY <1>1, <2>1
  <2>3. b + (k + 1) = (b + k) + 1 /\ b + k \in 1 .. Len(q) /\ b + k < Len(q)
    <3>1. PICK n \in Nat : n = Len(q)
      BY <1>1
    <3>2. b \in 1 .. n /\ k \in 1 .. n - b /\ k + 1 \in 1 .. n - b
      BY <1>1, <2>1, <3>1
    <3>3. b + (k + 1) = (b + k) + 1 /\ b + k \in 1 .. n /\ b + k < n
      BY ONLY <3>2, n \in Nat
    <3> QED
      BY <3>1, <3>3
  <2>4. r[k + 1] = q[(b + k) + 1] /\ b + k \in DOMAIN q
    BY ONLY <1>1, <2>2, <2>3
  <2> QED
    BY <2>2, <2>3, <2>4 DEF Covers
<1>7. IF r = <<>> THEN q[b].to = hi ELSE r[1].from = q[b].to + 1 /\ r[Len(r)].to = hi
  <2>1. CASE r = <<>>
    BY <2>1, <1>2, <1>3 DEF Covers
  <2>2. CASE r # <<>>
    <3>1. b < Len(q) /\ b \in DOMAIN q
      <4>1. PICK n \in Nat : n = Len(q)
        BY <1>1
      <4>2. b \in 1 .. n /\ b # n /\ DOMAIN q = 1 .. n
        BY <1>1, <1>2, <2>2, <4>1
      <4>3. b < n
        BY ONLY <4>2, n \in Nat
      <4> QED
        BY <4>1, <4>2, <4>3
    <3>2. 1 \in 1 .. Len(q) - b /\ Len(q) - b \in 1 .. Len(q) - b /\ b + (Len(q) - b) = Len(q)
      BY ONLY <3>1, <1>1
    <3>3. r[1] = q[b + 1] /\ r[Len(r)] = q[Len(q)]
      BY ONLY <3>2, <1>1
    <3> QED
      BY <3>1, <3>3, <2>2, <1>3 DEF Covers
  <2> QED
    BY <2>1, <2>2
<1>8. Covers(r, q[b].to, hi)
  BY ONLY <1>4, <1>5, <1>6, <1>7 DEF Covers
<1> QED
  BY <1>3, <1>8 DEF r

LEMMA CoversTail ==
  ASSUME NEW T, NEW q \in Seq(T), q # <<>>, NEW lo \in Nat, NEW hi \in Nat,
         Covers(q, lo, hi)
  PROVE  /\ Head(q).from = lo + 1 /\ Head(q).to \in lo + 1 .. hi
         /\ Covers(Tail(q), Head(q).to, hi)
<1>1. 1 \in 1 .. Len(q) /\ Head(q) = q[1] /\ Tail(q) = SubSeq(q, 2, Len(q))
  OBVIOUS
<1>2. SubSeq(q, 2, Len(q)) = SubSeq(q, 1 + 1, Len(q))
  OBVIOUS
<1>3. PICK b \in 1 .. Len(q) : b = 1
  BY <1>1
<1>4. /\ q[1].from = lo + 1 /\ q[b].to \in lo + 1 .. hi
      /\ Covers(SubSeq(q, b + 1, Len(q)), q[b].to, hi)
  BY CoversBehind
<1> QED
  BY ONLY <1>1, <1>2, <1>3, <1>4, Zenon

-----------------------------------------------------------------------------
\* The inductive invariant, in parts.

\* A token whose text is one of X.
TokenOf(X) == [kind : Kinds \cup {"command", "keyword"}, text : X, from : Nat, to : Nat]

\* Once TOK_END has been scanned it is the last token that is queued.
EndIsLast(q, n) == n = Len(source) => q # <<>> /\ q[Len(q)].kind = "end"

\* What doParse relies on at each step: a token is at the head of the queue, the
\* tokens spelled so far are queued, and TOK_END is not one of them.
InPhase ==
  /\ phase \in {"head", "ahead", "merge", "keyword", "push", "cleanup", "done"}
  /\ phase = "ahead" =>
       /\ i \in 1 .. Len(queue) /\ best \in 0 .. i /\ (found => best >= 1)
       /\ \A k \in 1 .. i : queue[k].kind # "end"
  /\ phase = "merge" =>
       /\ queue # <<>>
       /\ found => /\ best \in 1 .. Len(queue)
                   /\ \A k \in 1 .. best : queue[k].kind # "end"
  /\ phase \in {"keyword", "push"} => queue # <<>>
  /\ phase = "done" => queue = <<>>

\* The parser has the source up to m, and the queue has what comes behind.
InOrder(m) ==
  /\ Covers(pushed, 0, m)
  /\ phase # "done" => Covers(queue, m, scanned)

\* A token's string has an owner from when it is scanned on; a command's string
\* has at most one, and none before its first token is at the head of the queue.
TokensOwned ==
  \A p \in 1 .. Len(source) : Owners(<<"token", p>>) = IF Scanned(p) THEN 1 ELSE 0
CommandsUpTo(n) ==
  \A p \in 1 .. Len(source) :
    /\ Owners(<<"command", p>>) \in {0, 1}
    /\ Owners(<<"command", p>>) = 1 => p <= n
Merged(m) == IF phase \in {"keyword", "push"} THEN m + 1 ELSE m

Lexing ==
  /\ source \in Sources /\ scanned \in 0 .. Len(source) /\ freed \in [Strings -> Nat]
  /\ InPhase
  /\ phase \notin {"cleanup", "done"} => EndIsLast(queue, scanned)
  /\ TokensOwned
  /\ \E X : queue \in Seq(TokenOf(X)) /\ pushed \in Seq(TokenOf(X))
  /\ \E m \in 0 .. scanned : InOrder(m) /\ CommandsUpTo(Merged(m))

-----------------------------------------------------------------------------
LEMMA FileFacts ==
  ASSUME NEW f \in Sources
  PROVE  /\ Len(f) \in Nat
         /\ \A p \in 1 .. Len(f) : f[p].kind \in Kinds /\ (f[p].kind = "end" <=> p = Len(f))
<1>1. f \in Seq([kind : Kinds, word : STRING]) /\ \A p \in DOMAIN f : f[p].kind = "end" <=> p = Len(f)
  BY SourcesAreFiles
<1>2. PICK R : R = [kind : Kinds, word : STRING]
  OBVIOUS
<1>3. \A t \in R : t.kind \in Kinds
  BY <1>2
<1>4. f \in Seq(R)
  BY <1>1, <1>2
<1>5. Len(f) \in Nat /\ DOMAIN f = 1 .. Len(f) /\ \A p \in 1 .. Len(f) : f[p] \in R
  BY <1>4
<1> QED
  BY <1>1, <1>3, <1>5

LEMMA TextsGrow ==
  ASSUME NEW X, NEW Y, X \subseteq Y, NEW q \in Seq(TokenOf(X))
  PROVE  q \in Seq(TokenOf(Y))
<1>1. TokenOf(X) \subseteq TokenOf(Y)
  BY DEF TokenOf
<1> QED
  BY <1>1, SeqMonotonic

LEMMA ScannedTokenIs ==
  ASSUME NEW p
  PROVE  LET t == ScannedToken(p) IN t.kind = source[p].kind /\ t.from = p /\ t.to = p
BY DEF ScannedToken

\* What a step adds to the owners of a string: the token it scans.
Gain(n, s) == IF n = scanned THEN 0 ELSE One(ScannedToken(scanned + 1), s)

LEMMA GainOf ==
  ASSUME source \in Sources, scanned \in 0 .. Len(source),
         NEW n, n = scanned \/ (n = scanned + 1 /\ n <= Len(source)),
         NEW p \in 1 .. Len(source)
  PROVE  /\ Gain(n, <<"command", p>>) = 0
         /\ Gain(n, <<"token", p>>) =
              IF n # scanned /\ p = n /\ source[p].kind \in {"string", "symbol"} THEN 1 ELSE 0
<1>1. CASE n = scanned
  BY <1>1 DEF Gain
<1>2. CASE n # scanned
  <2>1. n = scanned + 1 /\ n \in 1 .. Len(source) /\ n # scanned
    BY <1>2, FileFacts
  <2>2. source[n].kind # "command"
    BY <2>1, FileFacts DEF Kinds
  <2>3. PICK t : t = ScannedToken(n) /\ t.kind = source[n].kind /\ t.from = n
    BY ScannedTokenIs, Zenon
  <2>4. StringOf(t) = <<"token", n>>
    BY <2>2, <2>3 DEF StringOf
  <2>5. tokenHasFreeableString(t) <=> source[n].kind \in {"string", "symbol"}
    BY <2>2, <2>3 DEF tokenHasFreeableString
  <2>6. \A s : Gain(n, s) = One(t, s)
    BY <2>1, <2>3 DEF Gain
  <2>7. <<"command", p>> # <<"token", n>> /\ (<<"token", p>> = <<"token", n>> <=> p = n)
    OBVIOUS
  <2> QED
    BY <2>1, <2>4, <2>5, <2>6, <2>7, Zenon DEF One
<1> QED
  BY <1>1, <1>2

\* The owners of a string, now and after a step.
LEMMA OwnersAre ==
  ASSUME NEW s \in Strings
  PROVE  /\ Owners(s) = freed[s] + Count(pushed, s) + Count(queue, s)
         /\ source' = source => Owners(s)' = freed'[s] + Count(pushed', s) + Count(queue', s)
<1>1. Owners(s) = freed[s] + Count(pushed, s) + Count(queue, s)
  BY DEF Owners, StringsIn, Count
<1>2. source' = source => Owners(s)' = freed'[s] + Count(pushed', s) + Count(queue', s)
  BY DEF Owners, StringsIn, Count, Strings, Holders, tokenHasFreeableString, StringOf
<1> QED
  BY <1>1, <1>2

LEMMA StringsAre ==
  ASSUME NEW p \in 1 .. Len(source)
  PROVE  <<"token", p>> \in Strings /\ <<"command", p>> \in Strings
BY DEF Strings

\* A step that gives the new token's string its owner and moves the others.
LEMMA OwnersGrow ==
  ASSUME source \in Sources, source' = source, scanned \in 0 .. Len(source),
         NEW n, n = scanned \/ (n = scanned + 1 /\ n <= Len(source)), scanned' = n,
         \A s \in Strings : Owners(s)' = Owners(s) + Gain(n, s),
         TokensOwned, NEW x \in Nat, NEW y \in Nat, x <= y, CommandsUpTo(x)
  PROVE  TokensOwned' /\ CommandsUpTo(y)'
<1>1. ASSUME NEW p \in 1 .. Len(source)
      PROVE  Owners(<<"token", p>>)' = IF Scanned(p)' THEN 1 ELSE 0
  <2>1. Owners(<<"token", p>>)' = Owners(<<"token", p>>) + Gain(n, <<"token", p>>)
    BY StringsAre
  <2>2. Owners(<<"token", p>>) = IF Scanned(p) THEN 1 ELSE 0
    BY DEF TokensOwned
  <2>3. PICK a, b, c : a = Owners(<<"token", p>>) /\ b = Owners(<<"token", p>>)' /\ c = Gain(n, <<"token", p>>)
    OBVIOUS
  <2>4. c = IF n # scanned /\ p = n /\ source[p].kind \in {"string", "symbol"} THEN 1 ELSE 0
    BY <2>3, GainOf
  <2>5. b = a + c /\ a = IF Scanned(p) THEN 1 ELSE 0
    BY <2>1, <2>2, <2>3
  <2>6. scanned \in Nat /\ (n = scanned \/ n = scanned + 1) /\ p \in Nat
    BY FileFacts
  <2>7. b = IF Scanned(p)' THEN 1 ELSE 0
    <3>1. Scanned(p) <=> p <= scanned /\ source[p].kind \in {"string", "symbol"}
      BY DEF Scanned
    <3>2. Scanned(p)' <=> p <= n /\ source[p].kind \in {"string", "symbol"}
      BY DEF Scanned
    <3> QED
      BY ONLY <2>4, <2>5, <2>6, <3>1, <3>2
  <2> QED
    BY <2>3, <2>7
<1>2. ASSUME NEW p \in 1 .. Len(source)
      PROVE  Owners(<<"command", p>>)' \in {0, 1} /\ (Owners(<<"command", p>>)' = 1 => p <= y)
  <2>1. Owners(<<"command", p>>)' = Owners(<<"command", p>>) + Gain(n, <<"command", p>>)
    BY StringsAre
  <2>2. Gain(n, <<"command", p>>) = 0
    BY GainOf
  <2>3. PICK a : a = Owners(<<"command", p>>)
    OBVIOUS
  <2>4. a \in {0, 1} /\ (a = 1 => p <= x)
    BY <2>3 DEF CommandsUpTo
  <2>5. Owners(<<"command", p>>)' = a
    <3>1. Owners(<<"command", p>>)' = a + 0
      BY <2>1, <2>2, <2>3
    <3> QED
      BY <3>1, <2>4
  <2> QED
    BY <2>4, <2>5, FileFacts
<1> QED
  BY <1>1, <1>2 DEF TokensOwned, CommandsUpTo

\* The token that is taken from the scanner, or not, and the queue it leaves.
LEMMA Fetching ==
  ASSUME source \in Sources, scanned \in 0 .. Len(source),
         NEW X, NEW q \in Seq(TokenOf(X)), NEW m \in 0 .. scanned,
         Covers(q, m, scanned), EndIsLast(q, scanned),
         NEW tokens, NEW n,
         \/ tokens = q /\ n = scanned
         \/ tokens = Scan(q) /\ n = scanned + 1 /\ scanned # Len(source)
  PROVE  /\ n \in 0 .. Len(source) /\ scanned <= n /\ (n = scanned \/ n = scanned + 1)
         /\ Covers(tokens, m, n) /\ EndIsLast(tokens, n)
         /\ \A s : Count(tokens, s) = Count(q, s) + Gain(n, s)
         /\ \A k \in 1 .. Len(q) : tokens[k] = q[k]
         /\ Len(tokens) = IF n = scanned THEN Len(q) ELSE Len(q) + 1
         /\ \E Y : X \subseteq Y /\ tokens \in Seq(TokenOf(Y))
<1> DEFINE T == TokenOf(X)
<1> HIDE DEF T
<1>0. q \in Seq(T)
  BY DEF T
<1>1. CASE tokens = q /\ n = scanned
  <2>1. \A s : Count(tokens, s) = Count(q, s) + Gain(n, s)
    BY <1>0, <1>1, HoldersFinite DEF Gain
  <2>2. tokens \in Seq(TokenOf(X)) /\ X \subseteq X
    BY <1>1
  <2> QED
    BY <1>1, <2>1, <2>2, FileFacts
<1>2. CASE tokens = Scan(q) /\ n = scanned + 1 /\ scanned # Len(source)
  <2>1. PICK t : /\ t = ScannedToken(n) /\ t.kind = source[n].kind
                 /\ t.from = n /\ t.to = n
    BY ScannedTokenIs, Zenon
  <2>2. PICK Y : Y = X \cup {t.text}
    OBVIOUS
  <2> DEFINE U == TokenOf(Y)
  <2>t. t \in U /\ T \subseteq U
    <3>1. t \in U
      BY <1>2, <2>1, <2>2, FileFacts DEF ScannedToken, TokenOf
    <3>2. X \subseteq Y
      BY <2>2
    <3>3. T \subseteq U
      BY ONLY <3>2 DEF T, TokenOf
    <3> QED
      BY <3>1, <3>3
  <2> HIDE DEF U
  <2>3. q \in Seq(U) /\ t \in U /\ T \subseteq U
    BY <1>0, <2>t, SeqMonotonic
  <2>4. tokens = Append(q, t)
    BY <1>2, <2>1 DEF Scan
  <2>5. n \in 1 .. Len(source) /\ scanned \in Nat /\ m \in Nat /\ m <= scanned /\ n # scanned
    BY <1>2, FileFacts
  <2>6. Covers(Append(q, t), m, n)
    BY <1>2, <2>1, <2>3, <2>5, CoversGrow
  <2>7. \A s : Count(tokens, s) = Count(q, s) + Gain(n, s)
    <3>1. \A s : Count(Append(q, t), s) = Count(q, s) + One(t, s)
      BY <2>3, CountAppend
    <3>2. \A s : Gain(n, s) = One(t, s)
      BY <2>1, <2>5, <1>2 DEF Gain
    <3> QED
      BY <2>4, <3>1, <3>2
  <2>8. /\ tokens \in Seq(U) /\ Len(tokens) = Len(q) + 1 /\ tokens # <<>>
        /\ tokens[Len(tokens)] = t
        /\ \A k \in 1 .. Len(q) : tokens[k] = q[k]
    BY <2>3, <2>4
  <2>9. EndIsLast(tokens, n)
    BY <2>1, <2>5, <2>8, FileFacts DEF EndIsLast
  <2>10. \E Z : X \subseteq Z /\ tokens \in Seq(TokenOf(Z))
    BY <2>2, <2>8 DEF U
  <2> QED
    BY <1>2, <2>4, <2>5, <2>6, <2>7, <2>8, <2>9, <2>10
<1> QED
  BY <1>1, <1>2

-----------------------------------------------------------------------------
\* The steps that free and push nothing: they may take a token from the scanner.
Fetches ==
  /\ source' = source /\ pushed' = pushed /\ freed' = freed
  /\ \/ queue' = queue /\ scanned' = scanned
     \/ queue' = Scan(queue) /\ scanned' = scanned + 1 /\ scanned # Len(source)

LEMMA FetchStep ==
  ASSUME Lexing, Fetches, InPhase',
         phase \notin {"cleanup", "done"}, phase' \notin {"cleanup", "done"},
         phase \in {"keyword", "push"} => phase' \in {"keyword", "push"}
  PROVE  Lexing'
<1>1. source \in Sources /\ scanned \in 0 .. Len(source) /\ source' = source
      /\ EndIsLast(queue, scanned) /\ TokensOwned /\ pushed' = pushed /\ freed' = freed
  BY DEF Lexing, Fetches
<1>2. PICK X : queue \in Seq(TokenOf(X)) /\ pushed \in Seq(TokenOf(X))
  BY DEF Lexing
<1>3. PICK m \in 0 .. scanned : InOrder(m) /\ CommandsUpTo(Merged(m))
  BY DEF Lexing
<1>4. Covers(pushed, 0, m) /\ Covers(queue, m, scanned)
  BY <1>3 DEF InOrder
<1>5. PICK tokens : tokens = queue'
  OBVIOUS
<1>6. PICK n : n = scanned'
  OBVIOUS
<1>7. \/ tokens = queue /\ n = scanned
      \/ tokens = Scan(queue) /\ n = scanned + 1 /\ scanned # Len(source)
  BY <1>5, <1>6 DEF Fetches
<1>8. /\ n \in 0 .. Len(source) /\ scanned <= n /\ (n = scanned \/ n = scanned + 1)
      /\ Covers(tokens, m, n) /\ EndIsLast(tokens, n)
      /\ \A s : Count(tokens, s) = Count(queue, s) + Gain(n, s)
      /\ \E Y : X \subseteq Y /\ tokens \in Seq(TokenOf(Y))
  BY <1>1, <1>2, <1>3, <1>4, <1>7, Fetching
<1>9. \A s \in Strings : Owners(s)' = Owners(s) + Gain(n, s)
  <2> SUFFICES ASSUME NEW s \in Strings PROVE Owners(s)' = Owners(s) + Gain(n, s)
    OBVIOUS
  <2>1. Owners(s) = freed[s] + Count(pushed, s) + Count(queue, s)
    BY OwnersAre
  <2>2. Owners(s)' = freed[s] + Count(pushed, s) + Count(tokens, s)
    BY <1>1, <1>5, OwnersAre
  <2>3. Count(tokens, s) = Count(queue, s) + Gain(n, s)
    BY <1>8
  <2>4. freed[s] \in Nat /\ Count(pushed, s) \in Nat /\ Count(queue, s) \in Nat
    BY <1>2, HoldersFinite DEF Lexing
  <2>5. Gain(n, s) \in Nat
    BY DEF Gain, One
  <2> QED
    BY <2>1, <2>2, <2>3, <2>4, <2>5
<1>10. PICK x \in Nat : x = Merged(m)
  BY <1>1, <1>3, FileFacts DEF Merged
<1>11. PICK y \in Nat : y = Merged(m)'
  BY <1>1, <1>3, FileFacts DEF Merged
<1>12. x <= y
  BY <1>10, <1>11, <1>1, <1>3, FileFacts DEF Merged
<1>13. TokensOwned' /\ CommandsUpTo(y)'
  <2>1. n = scanned \/ (n = scanned + 1 /\ n <= Len(source))
    BY <1>1, <1>8, FileFacts
  <2>2. CommandsUpTo(x)
    BY <1>3, <1>10
  <2> QED
    BY <1>1, <1>6, <1>9, <1>12, <2>1, <2>2, OwnersGrow
<1>14. CommandsUpTo(Merged(m))'
  BY <1>11, <1>13
<1>15. Strings' = Strings
  BY <1>1 DEF Strings
<1>16. \E Y : queue' \in Seq(TokenOf(Y)) /\ pushed' \in Seq(TokenOf(Y))
  <2>1. PICK Y : X \subseteq Y /\ tokens \in Seq(TokenOf(Y))
    BY <1>8
  <2>2. pushed \in Seq(TokenOf(Y))
    BY <1>2, <2>1, TextsGrow
  <2> QED
    BY <1>1, <1>5, <2>1, <2>2
<1>17. m \in 0 .. scanned' /\ InOrder(m)'
  BY <1>1, <1>3, <1>4, <1>5, <1>6, <1>8, FileFacts DEF InOrder, Covers
<1>18. EndIsLast(queue, scanned)'
  BY <1>1, <1>5, <1>6, <1>8 DEF EndIsLast
<1>19. source' \in Sources /\ scanned' \in 0 .. Len(source') /\ freed' \in [Strings' -> Nat]
  BY <1>1, <1>6, <1>8, <1>15 DEF Lexing
<1> QED
  BY <1>13, <1>14, <1>16, <1>17, <1>18, <1>19 DEF Lexing

LEMMA ScanHeadStep ==
  ASSUME Lexing, ScanHead
  PROVE  Lexing'
<1>1. phase = "head" /\ phase' = "head"
  BY DEF ScanHead
<1>2. scanned # Len(source)
  BY DEF Lexing, ScanHead, EndIsLast
<1>3. Fetches
  BY <1>2 DEF ScanHead, Fetches
<1>4. InPhase'
  BY <1>1 DEF InPhase
<1> QED
  BY <1>1, <1>3, <1>4, FetchStep

LEMMA StartAheadStep ==
  ASSUME Lexing, StartAhead
  PROVE  Lexing'
<1>1. phase = "head" /\ phase' \in {"ahead", "push"} /\ queue' = queue /\ queue # <<>>
  BY DEF StartAhead
<1>2. Fetches
  BY DEF StartAhead, Fetches
<1>3. InPhase'
  <2>1. PICK T : queue \in Seq(T)
    BY DEF Lexing, TokenOf
  <2>2. 1 \in 1 .. Len(queue) /\ Head(queue) = queue[1]
    BY <1>1, <2>1
  <2>3. CASE phase' = "push"
    BY <1>1, <2>3 DEF InPhase
  <2>4. CASE phase' = "ahead"
    <3>1. i' = 1 /\ best' = 0 /\ found' = FALSE /\ queue[1].kind # "end"
      BY <2>2, <2>4 DEF StartAhead, EmptyResult
    <3>2. \A k \in 1 .. 1 : k = 1
      OBVIOUS
    <3> QED
      BY <1>1, <2>2, <2>4, <3>1, <3>2 DEF InPhase
  <2> QED
    BY <1>1, <2>3, <2>4
<1> QED
  BY <1>1, <1>2, <1>3, FetchStep

\* A round of scanAheadForPossibleCommand scans at most one token, and none
\* behind TOK_END, which would have ended it.
LEMMA RoundFetches ==
  ASSUME Lexing, Round
  PROVE  /\ Fetches
         /\ i \in 1 .. Len(queue) /\ i + 1 \in 1 .. Len(queue') /\ queue' # <<>>
         /\ Behind = queue'[i + 1]
         /\ best' \in 0 .. i /\ (Found => best' >= 1)
         /\ \A k \in 1 .. i : queue'[k].kind # "end"
<1>1. phase = "ahead" /\ queue' = Tokens /\ best' = Longest
      /\ source' = source /\ pushed' = pushed /\ freed' = freed
  BY DEF Round
<1>2. PICK T : queue \in Seq(T)
  BY DEF Lexing
<1>3. i \in 1 .. Len(queue) /\ best \in 0 .. i /\ (found => best >= 1)
      /\ \A k \in 1 .. i : queue[k].kind # "end"
  BY <1>1 DEF Lexing, InPhase
<1>4. Behind = queue'[i + 1]
  BY <1>1 DEF Behind
<1>5. best' \in 0 .. i /\ (Found => best' >= 1)
  BY <1>1, <1>3 DEF Longest, Found
<1>6. CASE i = Len(queue)
  <2>1. queue[Len(queue)].kind # "end" /\ queue # <<>>
    BY <1>2, <1>3, <1>6
  <2>2. scanned # Len(source)
    BY <1>1, <2>1 DEF Lexing, EndIsLast
  <2>3. queue' = Append(queue, ScannedToken(scanned + 1)) /\ scanned' = scanned + 1
    BY <1>6 DEF Round, Tokens, Scan
  <2>4. Fetches
    BY <1>1, <2>2, <2>3 DEF Fetches, Scan
  <2>5. PICK t : t = ScannedToken(scanned + 1)
    OBVIOUS
  <2>6. PICK U : queue \in Seq(U) /\ t \in U
    <3>1. queue \in Seq(T \cup {t})
      BY <1>2, SeqMonotonic
    <3> QED
      BY <3>1
  <2>7. Len(queue') = Len(queue) + 1 /\ \A k \in 1 .. Len(queue) : queue'[k] = queue[k]
    BY <2>3, <2>5, <2>6
  <2>8. queue' # <<>> /\ Len(queue) \in Nat
    BY <2>3, <2>5, <2>6
  <2> QED
    BY <1>3, <1>4, <1>5, <2>4, <2>7, <2>8
<1>7. CASE i # Len(queue)
  <2>1. queue' = queue /\ scanned' = scanned
    BY <1>7 DEF Round, Tokens
  <2>2. Len(queue) \in Nat
    BY <1>2
  <2>3. i + 1 \in 1 .. Len(queue) /\ queue # <<>>
    BY <1>2, <1>3, <1>7, <2>2
  <2> QED
    BY <1>1, <1>3, <1>4, <1>5, <2>1, <2>3 DEF Fetches
<1> QED
  BY <1>6, <1>7

LEMMA AheadStep ==
  ASSUME Lexing, Ahead
  PROVE  Lexing'
<1>1. Round /\ Behind.kind # "end" /\ phase = "ahead" /\ phase' = "ahead" /\ i' = i + 1
      /\ (found' => Found)
  BY DEF Ahead, Round
<1>2. /\ Fetches
      /\ i \in 1 .. Len(queue) /\ i + 1 \in 1 .. Len(queue')
      /\ Behind = queue'[i + 1]
      /\ best' \in 0 .. i /\ (Found => best' >= 1)
      /\ \A k \in 1 .. i : queue'[k].kind # "end"
  BY <1>1, RoundFetches
<1>3. \A k \in 1 .. i + 1 : k = i + 1 \/ k \in 1 .. i
  BY <1>2
<1>4. \A k \in 1 .. i' : queue'[k].kind # "end"
  BY <1>1, <1>2, <1>3
<1>5. i' \in 1 .. Len(queue') /\ best' \in 0 .. i' /\ (found' => best' >= 1)
  BY <1>1, <1>2
<1>6. InPhase'
  BY <1>1, <1>4, <1>5 DEF InPhase
<1> QED
  BY <1>1, <1>2, <1>6, FetchStep

LEMMA AheadAtEndStep ==
  ASSUME Lexing, AheadAtEnd
  PROVE  Lexing'
<1>1. Round /\ phase = "ahead" /\ phase' = "merge" /\ found' = Found
  BY DEF AheadAtEnd, Round
<1>2. /\ Fetches
      /\ i \in 1 .. Len(queue) /\ i + 1 \in 1 .. Len(queue') /\ queue' # <<>>
      /\ best' \in 0 .. i /\ (Found => best' >= 1)
      /\ \A k \in 1 .. i : queue'[k].kind # "end"
  BY <1>1, RoundFetches
<1>3. found' => best' \in 1 .. Len(queue') /\ \A k \in 1 .. best' : k \in 1 .. i
  BY <1>1, <1>2
<1>4. InPhase'
  BY <1>1, <1>2, <1>3 DEF InPhase
<1> QED
  BY <1>1, <1>2, <1>4, FetchStep

LEMMA AheadEndsStep ==
  ASSUME Lexing, AheadEnds
  PROVE  Lexing'
<1>1. phase = "ahead" /\ phase' = "merge" /\ queue' = queue /\ found' = found /\ best' = best
      /\ i' = i
  BY DEF AheadEnds, lookahead
<1>2. Fetches
  BY DEF AheadEnds, Fetches
<1>3. i \in 1 .. Len(queue) /\ best \in 0 .. i /\ (found => best >= 1)
      /\ \A k \in 1 .. i : queue[k].kind # "end"
  BY <1>1 DEF Lexing, InPhase
<1>4. queue # <<>>
  BY <1>3
<1>5. found => best \in 1 .. Len(queue) /\ \A k \in 1 .. best : k \in 1 .. i
  BY <1>3
<1>6. InPhase'
  BY <1>1, <1>3, <1>4, <1>5 DEF InPhase
<1> QED
  BY <1>1, <1>2, <1>6, FetchStep

-----------------------------------------------------------------------------
\* Where the invariant puts the head of the queue.
LEMMA QueueInOrder ==
  ASSUME Lexing, phase # "done"
  PROVE  \E X : \E m \in 0 .. scanned :
           /\ queue \in Seq(TokenOf(X)) /\ pushed \in Seq(TokenOf(X))
           /\ Covers(pushed, 0, m) /\ Covers(queue, m, scanned)
           /\ CommandsUpTo(Merged(m))
<1>1. PICK X : queue \in Seq(TokenOf(X)) /\ pushed \in Seq(TokenOf(X))
  BY DEF Lexing
<1>2. PICK m \in 0 .. scanned : InOrder(m) /\ CommandsUpTo(Merged(m))
  BY DEF Lexing
<1> QED
  BY <1>1, <1>2 DEF InOrder

\* A match is one token then: it covers what its tokens covered, its string is
\* new, and those of its tokens are freed.
LEMMA MergeStep ==
  ASSUME Lexing, Merge
  PROVE  Lexing'
<1>1. phase = "merge" /\ phase' = "keyword" /\ source' = source /\ scanned' = scanned
      /\ pushed' = pushed /\ queue # <<>>
  BY DEF Merge, Lexing, InPhase
<1>2. CASE ~found
  <2>1. queue' = queue /\ freed' = freed
    BY <1>2 DEF Merge
  <2>2. Fetches /\ InPhase'
    BY <1>1, <2>1 DEF Fetches, InPhase
  <2> QED
    BY <1>1, <2>2, FetchStep
<1>3. CASE found
  <2>1. PICK X : \E m \in 0 .. scanned :
           /\ queue \in Seq(TokenOf(X)) /\ pushed \in Seq(TokenOf(X))
           /\ Covers(pushed, 0, m) /\ Covers(queue, m, scanned)
           /\ CommandsUpTo(Merged(m))
    BY <1>1, QueueInOrder
  <2>2. PICK m \in 0 .. scanned :
           /\ queue \in Seq(TokenOf(X)) /\ pushed \in Seq(TokenOf(X))
           /\ Covers(pushed, 0, m) /\ Covers(queue, m, scanned)
           /\ CommandsUpTo(Merged(m))
    BY <2>1
  <2>3. PICK b \in 1 .. Len(queue) : b = best /\ queue[b].kind # "end"
    BY <1>1, <1>3 DEF Lexing, InPhase
  <2>4. PICK r : r = SubSeq(queue, b + 1, Len(queue))
    OBVIOUS
  <2>5. PICK c : /\ c = [kind |-> "command", text |-> Spelled(queue, best),
                         from |-> Head(queue).from, to |-> queue[best].to]
                 /\ queue' = <<c>> \o r
    BY <1>3, <2>3, <2>4, Zenon DEF Merge, Unmerged
  <2>6. PICK Y : Y = X \cup {c.text}
    OBVIOUS
  <2> DEFINE T == TokenOf(Y)
  <2>7. queue \in Seq(T) /\ pushed \in Seq(T)
    BY <2>2, <2>6, TextsGrow
  <2>8. m \in Nat /\ scanned \in Nat /\ source \in Sources /\ m <= scanned
    BY <2>2, FileFacts DEF Lexing
  <2>9. /\ queue[1].from = m + 1 /\ queue[b].to \in m + 1 .. scanned
        /\ Covers(r, queue[b].to, scanned)
    BY <2>2, <2>3, <2>4, <2>8, CoversBehind
  <2>10. c.kind = "command" /\ c.from = m + 1 /\ c.to = queue[b].to /\ c.text \in Y
    <3>1. Head(queue) = queue[1]
      BY <1>1, <2>2
    <3> QED
      BY <2>3, <2>5, <2>6, <2>9, <3>1
  <2>11. c \in T
    BY <2>5, <2>8, <2>9, <2>10 DEF TokenOf
  <2> HIDE DEF T
  <2>12. r \in Seq(T) /\ queue' \in Seq(T)
    <3>1. r \in Seq(T)
      BY <2>3, <2>4, <2>7, CountSplit
    <3> QED
      BY <2>5, <2>11, <3>1
  <2>13. Covers(queue', m, scanned)
    <3>1. PICK l \in Nat : l = queue[b].to /\ m < l /\ l <= scanned
      BY <2>8, <2>9
    <3>2. Covers(<<c>> \o r, m, scanned)
      BY <2>8, <2>9, <2>10, <2>11, <2>12, <3>1, CoversPut
    <3> QED
      BY <2>5, <3>2
  <2>14. ASSUME NEW s \in Strings
         PROVE  Owners(s)' = Owners(s) + One(c, s)
    <3>1. Owners(s) = freed[s] + Count(pushed, s) + Count(queue, s)
          /\ Owners(s)' = freed'[s] + Count(pushed, s) + Count(queue', s)
      BY <1>1, OwnersAre
    <3>2. Count(queue, s) = Count(SubSeq(queue, 1, b), s) + Count(r, s)
          /\ SubSeq(queue, 1, b) \in Seq(T)
      BY <2>3, <2>4, <2>7, CountSplit
    <3>3. Count(queue', s) = One(c, s) + Count(r, s)
      BY <2>5, <2>11, <2>12, CountPut
    <3>4. freed'[s] = freed[s] + Count(SubSeq(queue, 1, b), s)
      BY <1>3, <2>3 DEF Merge, Free, MergedStrings, StringsIn, Count
    <3>5. /\ freed[s] \in Nat /\ Count(pushed, s) \in Nat /\ Count(r, s) \in Nat
          /\ Count(SubSeq(queue, 1, b), s) \in Nat /\ One(c, s) \in Nat
      BY <2>7, <2>12, <3>2, HoldersFinite DEF Lexing, One
    <3>6. PICK f1, f2, p1, q1, q2, a, g, o :
            /\ f1 = freed[s] /\ f2 = freed'[s] /\ p1 = Count(pushed, s) /\ q1 = Count(queue, s)
            /\ q2 = Count(queue', s) /\ a = Count(SubSeq(queue, 1, b), s)
            /\ g = Count(r, s) /\ o = One(c, s)
      OBVIOUS
    <3>7. /\ q1 = a + g /\ q2 = o + g /\ f2 = f1 + a
          /\ f1 \in Nat /\ p1 \in Nat /\ g \in Nat /\ a \in Nat /\ o \in Nat
      BY <3>2, <3>3, <3>4, <3>5, <3>6
    <3>8. f2 + p1 + q2 = (f1 + p1 + q1) + o
      BY ONLY <3>7
    <3> QED
      BY ONLY <3>1, <3>6, <3>8
  <2>15. \A p \in 1 .. Len(source) :
           /\ One(c, <<"token", p>>) = 0
           /\ One(c, <<"command", p>>) = IF p = m + 1 THEN 1 ELSE 0
    <3>1. StringOf(c) = <<"command", m + 1>> /\ tokenHasFreeableString(c)
      BY <2>10 DEF StringOf, tokenHasFreeableString
    <3>2. \A p : <<"token", p>> # <<"command", m + 1>>
                 /\ (<<"command", p>> = <<"command", m + 1>> <=> p = m + 1)
      OBVIOUS
    <3> QED
      BY <3>1, <3>2 DEF One
  <2>16. TokensOwned'
    <3> SUFFICES ASSUME NEW p \in 1 .. Len(source)
                 PROVE  Owners(<<"token", p>>)' = IF Scanned(p)' THEN 1 ELSE 0
      BY <1>1 DEF TokensOwned
    <3>1. Owners(<<"token", p>>)' = Owners(<<"token", p>>) + 0
      BY <2>14, <2>15, StringsAre
    <3>2. Owners(<<"token", p>>) = IF Scanned(p) THEN 1 ELSE 0
      BY DEF Lexing, TokensOwned
    <3>3. Scanned(p)' <=> Scanned(p)
      BY <1>1 DEF Scanned
    <3> QED
      BY <3>1, <3>2, <3>3
  <2>17. CommandsUpTo(m + 1)'
    <3> SUFFICES ASSUME NEW p \in 1 .. Len(source)
                 PROVE  /\ Owners(<<"command", p>>)' \in {0, 1}
                        /\ Owners(<<"command", p>>)' = 1 => p <= m + 1
      BY <1>1 DEF CommandsUpTo
    <3>1. Owners(<<"command", p>>)' = Owners(<<"command", p>>) + IF p = m + 1 THEN 1 ELSE 0
      BY <2>14, <2>15, StringsAre
    <3>2. PICK a \in {0, 1} : a = Owners(<<"command", p>>) /\ (a = 1 => p <= m)
      BY <1>1, <2>2 DEF CommandsUpTo, Merged
    <3>3. p \in Nat
      BY <2>8, FileFacts
    <3> QED
      BY <2>8, <3>1, <3>2, <3>3
  <2>18. EndIsLast(queue', scanned)
    <3> SUFFICES ASSUME scanned = Len(source)
                 PROVE  queue' # <<>> /\ queue'[Len(queue')].kind = "end"
      BY DEF EndIsLast
    <3>1. queue[Len(queue)].kind = "end"
      BY <1>1 DEF Lexing, EndIsLast
    <3>2. PICK l \in Nat : l = Len(queue)
      BY <2>7
    <3>3. b \in 1 .. l /\ b # l
      BY <2>3, <3>1, <3>2
    <3>4. b < l
      BY <3>3
    <3>5. Len(r) = l - b /\ r[l - b] = queue[l] /\ Len(r) \in Nat /\ Len(r) # 0
      BY <2>4, <2>7, <3>2, <3>4
    <3>6. queue' # <<>> /\ queue'[Len(queue')] = r[Len(r)]
      BY <2>5, <2>11, <2>12, <3>5
    <3> QED
      BY <3>1, <3>2, <3>5, <3>6
  <2>19. InPhase'
    <3>1. queue' # <<>>
      BY <2>5, <2>11, <2>12
    <3> QED
      BY <1>1, <3>1 DEF InPhase
  <2>20. freed' \in [Strings' -> Nat]
    <3>1. Strings' = Strings
      BY <1>1 DEF Strings
    <3>2. \A s \in Strings : Count(SubSeq(queue, 1, b), s) \in Nat /\ freed[s] \in Nat
      BY <2>3, <2>7, CountSplit, HoldersFinite DEF Lexing
    <3>3. freed' = [s \in Strings |-> freed[s] + Count(SubSeq(queue, 1, b), s)]
      BY <1>3, <2>3 DEF Merge, Free, MergedStrings, StringsIn, Count
    <3> QED
      BY <3>1, <3>2, <3>3
  <2>21. InOrder(m)' /\ CommandsUpTo(Merged(m))' /\ m \in 0 .. scanned'
    BY <1>1, <2>2, <2>13, <2>17 DEF InOrder, Merged, Covers
  <2>22. source' \in Sources /\ scanned' \in 0 .. Len(source')
    BY <1>1 DEF Lexing
  <2>23. \E Z : queue' \in Seq(TokenOf(Z)) /\ pushed' \in Seq(TokenOf(Z))
    BY <1>1, <2>7, <2>12 DEF T
  <2>24. EndIsLast(queue, scanned)'
    BY <1>1, <2>18 DEF EndIsLast
  <2> QED
    BY <2>16, <2>19, <2>20, <2>21, <2>22, <2>23, <2>24 DEF Lexing
<1> QED
  BY <1>2, <1>3

\* A keyword is the same token without a string.
LEMMA KeywordStep ==
  ASSUME Lexing, Keyword
  PROVE  Lexing'
<1> DEFINE tokens == IF Len(queue) < 2 THEN Scan(queue) ELSE queue
           head == Head(queue)
           converts == head.text \in Keywords /\ tokens[2].kind # "annotation"
<1>1. phase = "keyword" /\ phase' = "push" /\ source' = source /\ pushed' = pushed
      /\ queue # <<>> /\ TokensOwned /\ EndIsLast(queue, scanned)
      /\ source \in Sources /\ scanned \in 0 .. Len(source)
  BY DEF Keyword, Lexing, InPhase
<1>2. PICK X : \E m \in 0 .. scanned :
         /\ queue \in Seq(TokenOf(X)) /\ pushed \in Seq(TokenOf(X))
         /\ Covers(pushed, 0, m) /\ Covers(queue, m, scanned)
         /\ CommandsUpTo(Merged(m))
  BY <1>1, QueueInOrder
<1>3. PICK m \in 0 .. scanned :
         /\ queue \in Seq(TokenOf(X)) /\ pushed \in Seq(TokenOf(X))
         /\ Covers(pushed, 0, m) /\ Covers(queue, m, scanned)
         /\ CommandsUpTo(Merged(m))
  BY <1>2
<1>4. Len(queue) \in Nat \ {0} /\ Head(queue) = queue[1]
  BY <1>1, <1>3
<1>5. CASE head.kind = "integer"
  <2>1. queue' = queue /\ scanned' = scanned /\ freed' = freed
    BY <1>5 DEF Keyword
  <2>2. Fetches /\ InPhase'
    BY <1>1, <2>1 DEF Fetches, InPhase
  <2> QED
    BY <1>1, <2>2, FetchStep
<1>6. CASE head.kind \in {"symbol", "command"}
  <2>1. PICK n : n = scanned'
    OBVIOUS
  <2>2. /\ n = IF Len(queue) < 2 THEN scanned + 1 ELSE scanned
        /\ IF converts
           THEN /\ queue' = <<[head EXCEPT !.kind = "keyword"]>> \o Tail(tokens)
                /\ Free(StringsIn(<<head>>))
           ELSE queue' = tokens /\ freed' = freed
    BY <1>6, <2>1 DEF Keyword
  <2>3. Len(queue) < 2 => scanned # Len(source)
    <3>1. Len(queue) < 2 => Len(queue) = 1
      BY <1>4
    <3> QED
      BY <1>1, <1>4, <1>6, <3>1 DEF EndIsLast
  <2>4. \/ tokens = queue /\ n = scanned
        \/ tokens = Scan(queue) /\ n = scanned + 1 /\ scanned # Len(source)
    BY <2>2, <2>3
  <2>5. CASE ~converts
    <3>1. Fetches
      BY <1>1, <2>1, <2>2, <2>4, <2>5 DEF Fetches
    <3>2. Len(queue') # 0
      <4>1. PICK t : t = tokens
        OBVIOUS
      <4>2. Len(t) = IF n = scanned THEN Len(queue) ELSE Len(queue) + 1
        BY <1>1, <1>3, <2>4, <4>1, Fetching
      <4>3. queue' = t
        BY <2>2, <2>5, <4>1
      <4> QED
        BY <1>4, <4>2, <4>3
    <3>3. InPhase'
      BY <1>1, <3>2 DEF InPhase
    <3> QED
      BY <1>1, <3>1, <3>3, FetchStep
  <2>6. CASE converts
    <3>1. PICK t : t = tokens
      OBVIOUS
    <3>2. /\ n \in 0 .. Len(source) /\ scanned <= n /\ (n = scanned \/ n = scanned + 1)
          /\ Covers(t, m, n) /\ EndIsLast(t, n)
          /\ \A s : Count(t, s) = Count(queue, s) + Gain(n, s)
          /\ \A k \in 1 .. Len(queue) : t[k] = queue[k]
          /\ Len(t) = IF n = scanned THEN Len(queue) ELSE Len(queue) + 1
          /\ \E Y : X \subseteq Y /\ t \in Seq(TokenOf(Y))
      BY <1>1, <1>3, <2>4, <3>1, Fetching
    <3>3. PICK Y : X \subseteq Y /\ t \in Seq(TokenOf(Y))
      BY <3>2
    <3>4. PICK k : k = [Head(queue) EXCEPT !.kind = "keyword"]
      OBVIOUS
    <3>5. PICK r : r = Tail(t)
      OBVIOUS
    <3>6. queue' = <<k>> \o r /\ Free(StringsIn(<<Head(queue)>>))
      BY <2>2, <2>6, <3>1, <3>4, <3>5
    <3> DEFINE T == TokenOf(Y)
    <3>7. queue \in Seq(T) /\ pushed \in Seq(T) /\ t \in Seq(T) /\ Head(queue) \in T
      BY <1>1, <1>3, <3>3, TextsGrow
    <3>8. k \in T /\ k.kind = "keyword" /\ k.from = Head(queue).from /\ k.to = Head(queue).to
      BY <3>4, <3>7 DEF TokenOf
    <3> HIDE DEF T
    <3>9. Len(t) >= 2 /\ t # <<>> /\ Head(t) = Head(queue)
      <4>1. Len(t) >= 2
        BY <1>1, <1>4, <2>2, <3>2, FileFacts
      <4>2. t[1] = queue[1]
        BY <1>4, <3>2
      <4> QED
        BY <1>4, <3>7, <4>1, <4>2
    <3>10. r \in Seq(T) /\ queue' \in Seq(T) /\ queue' # <<>>
      BY <3>5, <3>6, <3>7, <3>8, <3>9
    <3>11. m \in Nat /\ n \in Nat /\ scanned \in Nat
      BY <1>1, <1>3, <3>2, FileFacts
    <3>12. /\ Head(queue).from = m + 1 /\ Head(queue).to \in m + 1 .. n
           /\ Covers(r, Head(queue).to, n)
      BY <3>2, <3>5, <3>7, <3>9, <3>11, CoversTail
    <3>13. Covers(queue', m, n)
      <4>1. PICK l \in Nat : l = Head(queue).to /\ m < l /\ l <= n
        BY <3>11, <3>12
      <4>2. Covers(<<k>> \o r, m, n)
        BY <3>8, <3>10, <3>11, <3>12, <4>1, CoversPut
      <4> QED
        BY <3>6, <4>2
    <3>14. ASSUME NEW s \in Strings
           PROVE  Owners(s)' = Owners(s) + Gain(n, s)
      <4>1. Owners(s) = freed[s] + Count(pushed, s) + Count(queue, s)
            /\ Owners(s)' = freed'[s] + Count(pushed, s) + Count(queue', s)
        BY <1>1, OwnersAre
      <4>2. Count(t, s) = One(Head(queue), s) + Count(r, s)
        BY <3>5, <3>7, <3>9, CountHead
      <4>3. Count(queue', s) = One(k, s) + Count(r, s)
        BY <3>6, <3>8, <3>10, CountPut
      <4>4. One(k, s) = 0
        BY <3>8 DEF One, tokenHasFreeableString
      <4>5. freed'[s] = freed[s] + One(Head(queue), s)
        <5>1. Count(<<Head(queue)>>, s) = One(Head(queue), s)
          BY CountOne, Zenon
        <5>2. freed'[s] = freed[s] + Count(<<Head(queue)>>, s)
          BY <3>6 DEF Free, StringsIn, Count
        <5> QED
          BY <5>1, <5>2
      <4>6. Count(t, s) = Count(queue, s) + Gain(n, s)
        BY <3>2
      <4>7. /\ freed[s] \in Nat /\ Count(pushed, s) \in Nat /\ Count(r, s) \in Nat
            /\ Count(queue, s) \in Nat /\ One(Head(queue), s) \in Nat /\ Gain(n, s) \in Nat
        BY <3>7, <3>10, HoldersFinite DEF Lexing, One, Gain
      <4>8. PICK f1, f2, p1, q1, q2, q3, o, g, h :
              /\ f1 = freed[s] /\ f2 = freed'[s] /\ p1 = Count(pushed, s) /\ q1 = Count(queue, s)
              /\ q2 = Count(queue', s) /\ q3 = Count(t, s)
              /\ o = One(Head(queue), s) /\ g = Gain(n, s) /\ h = Count(r, s)
        OBVIOUS
      <4>9. /\ q3 = o + h /\ q2 = 0 + h /\ f2 = f1 + o /\ q3 = q1 + g
            /\ f1 \in Nat /\ p1 \in Nat /\ q1 \in Nat /\ o \in Nat /\ g \in Nat /\ h \in Nat
        BY <4>2, <4>3, <4>4, <4>5, <4>6, <4>7, <4>8
      <4>10. f2 + p1 + q2 = (f1 + p1 + q1) + g
        BY ONLY <4>9
      <4> QED
        BY ONLY <4>1, <4>8, <4>10
    <3>15. TokensOwned' /\ CommandsUpTo(m + 1)'
      <4>1. PICK x \in Nat : x = m + 1 /\ CommandsUpTo(x)
        BY <1>1, <1>3, <3>11 DEF Merged
      <4>2. x <= x /\ (n = scanned \/ (n = scanned + 1 /\ n <= Len(source)))
        BY <1>1, <3>2, FileFacts
      <4>3. TokensOwned' /\ CommandsUpTo(x)'
        BY <1>1, <2>1, <3>14, <4>1, <4>2, OwnersGrow
      <4> QED
        BY <4>1, <4>3
    <3>16. EndIsLast(queue', n)
      <4> SUFFICES ASSUME n = Len(source)
                   PROVE  queue' # <<>> /\ queue'[Len(queue')].kind = "end"
        BY DEF EndIsLast
      <4>1. t[Len(t)].kind = "end"
        BY <3>2 DEF EndIsLast
      <4>2. r[Len(r)] = t[Len(t)] /\ Len(r) \in Nat /\ Len(r) # 0
        BY <3>5, <3>7, <3>9
      <4>3. queue'[Len(queue')] = r[Len(r)]
        BY <3>6, <3>8, <3>10, <4>2
      <4> QED
        BY <3>10, <4>1, <4>2, <4>3
    <3>17. freed' \in [Strings' -> Nat]
      <4>1. Strings' = Strings
        BY <1>1 DEF Strings
      <4>2. \A s \in Strings : Count(<<Head(queue)>>, s) \in Nat /\ freed[s] \in Nat
        <5>1. \A s : One(Head(queue), s) \in Nat
          BY DEF One
        <5>2. \A s : Count(<<Head(queue)>>, s) = One(Head(queue), s)
          BY CountOne, Zenon
        <5> QED
          BY <5>1, <5>2 DEF Lexing
      <4>3. freed' = [s \in Strings |-> freed[s] + Count(<<Head(queue)>>, s)]
        BY <3>6 DEF Free, StringsIn, Count
      <4> QED
        BY <4>1, <4>2, <4>3
    <3>18. InOrder(m)' /\ CommandsUpTo(Merged(m))' /\ m \in 0 .. scanned'
      BY <1>1, <1>3, <2>1, <3>2, <3>11, <3>13, <3>15 DEF InOrder, Merged, Covers
    <3>19. source' \in Sources /\ scanned' \in 0 .. Len(source')
      BY <1>1, <2>1, <3>2
    <3>20. \E Z : queue' \in Seq(TokenOf(Z)) /\ pushed' \in Seq(TokenOf(Z))
      BY <1>1, <3>7, <3>10 DEF T
    <3>21. EndIsLast(queue, scanned)' /\ InPhase'
      BY <1>1, <2>1, <3>10, <3>16 DEF EndIsLast, InPhase
    <3> QED
      BY <3>15, <3>17, <3>18, <3>19, <3>20, <3>21 DEF Lexing
  <2> QED
    BY <2>5, <2>6
<1> QED
  BY <1>1, <1>5, <1>6 DEF Keyword

\* The parser gets the head of the queue, with its string.
LEMMA PushTokenStep ==
  ASSUME Lexing, PushToken
  PROVE  Lexing'
<1>1. phase = "push" /\ phase' \in {"head", "cleanup"} /\ source' = source /\ scanned' = scanned
      /\ freed' = freed /\ queue # <<>> /\ TokensOwned /\ EndIsLast(queue, scanned)
      /\ queue' = Tail(queue) /\ pushed' = Append(pushed, Head(queue))
      /\ source \in Sources /\ scanned \in 0 .. Len(source)
  BY DEF PushToken, Lexing, InPhase
<1>2. PICK X : \E m \in 0 .. scanned :
         /\ queue \in Seq(TokenOf(X)) /\ pushed \in Seq(TokenOf(X))
         /\ Covers(pushed, 0, m) /\ Covers(queue, m, scanned)
         /\ CommandsUpTo(Merged(m))
  BY <1>1, QueueInOrder
<1> DEFINE T == TokenOf(X)
<1>3. PICK m \in 0 .. scanned :
         /\ queue \in Seq(T) /\ pushed \in Seq(T)
         /\ Covers(pushed, 0, m) /\ Covers(queue, m, scanned)
         /\ CommandsUpTo(Merged(m))
  BY <1>2
<1>4. Head(queue) \in T /\ Tail(queue) \in Seq(T)
  BY <1>1, <1>3
<1> HIDE DEF T
<1>5. m \in Nat /\ scanned \in Nat /\ m <= scanned
  BY <1>1, <1>3, FileFacts
<1>6. /\ Head(queue).from = m + 1 /\ Head(queue).to \in m + 1 .. scanned
      /\ Covers(queue', Head(queue).to, scanned)
  BY <1>1, <1>3, <1>5, CoversTail
<1>7. PICK l \in m + 1 .. scanned : l = Head(queue).to
  BY <1>6
<1>8. Covers(pushed', 0, l)
  BY <1>1, <1>3, <1>4, <1>5, <1>6, <1>7, CoversGrow
<1>9. ASSUME NEW s \in Strings
      PROVE  Owners(s)' = Owners(s) + Gain(scanned, s)
  <2>1. Owners(s) = freed[s] + Count(pushed, s) + Count(queue, s)
        /\ Owners(s)' = freed[s] + Count(pushed', s) + Count(queue', s)
    BY <1>1, OwnersAre
  <2>2. Count(queue, s) = One(Head(queue), s) + Count(queue', s)
    BY <1>1, <1>3, CountHead
  <2>3. Count(pushed', s) = Count(pushed, s) + One(Head(queue), s)
    BY <1>1, <1>3, <1>4, CountAppend
  <2>4. /\ freed[s] \in Nat /\ Count(pushed, s) \in Nat /\ Count(queue', s) \in Nat
        /\ One(Head(queue), s) \in Nat /\ Gain(scanned, s) = 0
    BY <1>1, <1>3, <1>4, HoldersFinite DEF Lexing, One, Gain
  <2>5. PICK f1, p1, p2, q1, q2, o :
          /\ f1 = freed[s] /\ p1 = Count(pushed, s) /\ p2 = Count(pushed', s)
          /\ q1 = Count(queue, s) /\ q2 = Count(queue', s) /\ o = One(Head(queue), s)
    OBVIOUS
  <2>6. q1 = o + q2 /\ p2 = p1 + o /\ f1 \in Nat /\ p1 \in Nat /\ q2 \in Nat /\ o \in Nat
    BY <2>2, <2>3, <2>4, <2>5
  <2>7. f1 + p2 + q2 = (f1 + p1 + q1) + 0
    BY ONLY <2>6
  <2> QED
    BY ONLY <2>1, <2>4, <2>5, <2>7
<1>10. TokensOwned' /\ CommandsUpTo(l)'
  <2>1. PICK x \in Nat : x = m + 1 /\ CommandsUpTo(x) /\ x <= l /\ l \in Nat
    BY <1>1, <1>3, <1>5 DEF Merged
  <2>2. scanned' = scanned /\ (scanned = scanned \/ (scanned = scanned + 1 /\ scanned <= Len(source)))
    BY <1>1
  <2> QED
    BY <1>1, <1>9, <2>1, <2>2, OwnersGrow
<1>11. phase' = "head" => EndIsLast(queue', scanned)
  <2> SUFFICES ASSUME phase' = "head", scanned = Len(source)
               PROVE  queue' # <<>> /\ queue'[Len(queue')].kind = "end"
    BY DEF EndIsLast
  <2>1. Head(queue).kind # "end"
    BY <1>1 DEF PushToken
  <2>2. queue[Len(queue)].kind = "end"
    BY <1>1 DEF EndIsLast
  <2>3. Head(queue) = queue[1] /\ Len(queue) \in Nat \ {0}
    BY <1>1, <1>3
  <2>4. Len(queue) # 1
    BY <2>1, <2>2, <2>3
  <2>n. PICK n \in Nat : n = Len(queue) /\ n # 0 /\ n # 1
    BY <2>3, <2>4
  <2>5. n = Len(queue) /\ n > 1
    BY <2>n
  <2>6. PICK u \in Seq(T) : u = Tail(queue) /\ u = queue'
    BY <1>1, <1>4
  <2>7. Len(u) = n - 1 /\ \A k \in 1 .. n - 1 : u[k] = queue[k + 1]
    BY <1>1, <1>3, <2>5, <2>6
  <2>8. n - 1 \in 1 .. n - 1 /\ (n - 1) + 1 = n /\ n - 1 # 0
    BY ONLY <2>5, n \in Nat
  <2>9. u[Len(u)] = queue[n] /\ u # <<>>
    BY <2>7, <2>8
  <2> QED
    BY <2>2, <2>5, <2>6, <2>9
<1>12. InPhase'
  BY <1>1 DEF InPhase
<1>13. freed' \in [Strings' -> Nat]
  BY <1>1 DEF Lexing, Strings
<1>14. l \in 0 .. scanned' /\ InOrder(l)' /\ CommandsUpTo(Merged(l))'
  <2>1. InOrder(l)'
    BY <1>1, <1>6, <1>7, <1>8 DEF InOrder, Covers
  <2>2. CommandsUpTo(Merged(l))'
    BY <1>1, <1>10 DEF Merged
  <2> QED
    BY <1>1, <1>5, <2>1, <2>2
<1>15. queue' \in Seq(TokenOf(X)) /\ pushed' \in Seq(TokenOf(X))
  BY <1>1, <1>3, <1>4 DEF T
<1>16. phase' \notin {"cleanup", "done"} => EndIsLast(queue, scanned)'
  BY <1>1, <1>11 DEF EndIsLast
<1> QED
  BY <1>1, <1>10, <1>12, <1>13, <1>14, <1>15, <1>16 DEF Lexing

\* What is still queued when the parser has finished is freed.
LEMMA CleanUpStep ==
  ASSUME Lexing, CleanUp
  PROVE  Lexing'
<1>1. phase = "cleanup" /\ phase' = "done" /\ source' = source /\ scanned' = scanned
      /\ pushed' = pushed /\ queue' = <<>> /\ Free(StringsIn(queue)) /\ TokensOwned
      /\ source \in Sources /\ scanned \in 0 .. Len(source)
  BY DEF CleanUp, Lexing
<1>2. PICK X : \E m \in 0 .. scanned :
         /\ queue \in Seq(TokenOf(X)) /\ pushed \in Seq(TokenOf(X))
         /\ Covers(pushed, 0, m) /\ Covers(queue, m, scanned)
         /\ CommandsUpTo(Merged(m))
  BY <1>1, QueueInOrder
<1> DEFINE T == TokenOf(X)
<1>3. PICK m \in 0 .. scanned :
         /\ queue \in Seq(T) /\ pushed \in Seq(T)
         /\ Covers(pushed, 0, m) /\ Covers(queue, m, scanned)
         /\ CommandsUpTo(Merged(m))
  BY <1>2
<1> HIDE DEF T
<1>4. ASSUME NEW s \in Strings
      PROVE  Owners(s)' = Owners(s) + Gain(scanned, s)
  <2>1. Owners(s) = freed[s] + Count(pushed, s) + Count(queue, s)
        /\ Owners(s)' = freed'[s] + Count(pushed, s) + Count(queue', s)
    BY <1>1, OwnersAre
  <2>2. Count(queue', s) = 0
    BY <1>1, CountOne, Zenon
  <2>3. freed'[s] = freed[s] + Count(queue, s)
    BY <1>1 DEF Free, StringsIn, Count
  <2>4. /\ freed[s] \in Nat /\ Count(pushed, s) \in Nat /\ Count(queue, s) \in Nat
        /\ Gain(scanned, s) = 0
    BY <1>3, HoldersFinite DEF Lexing, Gain
  <2> QED
    BY ONLY <2>1, <2>2, <2>3, <2>4
<1>5. TokensOwned' /\ CommandsUpTo(m)'
  <2>1. PICK x \in Nat : x = m /\ CommandsUpTo(x) /\ x <= x
    BY <1>1, <1>3, FileFacts DEF Merged
  <2>2. scanned' = scanned /\ (scanned = scanned \/ (scanned = scanned + 1 /\ scanned <= Len(source)))
    BY <1>1
  <2>3. TokensOwned' /\ CommandsUpTo(x)'
    BY <1>1, <1>4, <2>1, <2>2, OwnersGrow
  <2> QED
    BY <2>1, <2>3
<1>6. freed' \in [Strings' -> Nat]
  <2>1. Strings' = Strings
    BY <1>1 DEF Strings
  <2>2. \A s \in Strings : Count(queue, s) \in Nat /\ freed[s] \in Nat
    BY <1>3, HoldersFinite DEF Lexing
  <2>3. freed' = [s \in Strings |-> freed[s] + Count(queue, s)]
    BY <1>1 DEF Free, StringsIn, Count
  <2> QED
    BY <2>1, <2>2, <2>3
<1>7. m \in 0 .. scanned' /\ InOrder(m)' /\ CommandsUpTo(Merged(m))'
  BY <1>1, <1>3, <1>5 DEF InOrder, Merged, Covers
<1>8. queue' \in Seq(TokenOf(X)) /\ pushed' \in Seq(TokenOf(X))
  BY <1>1, <1>3 DEF T
<1>9. InPhase'
  BY <1>1 DEF InPhase
<1> QED
  BY <1>1, <1>5, <1>6, <1>7, <1>8, <1>9 DEF Lexing

LEMMA LexingStarts == Init => Lexing
<1> SUFFICES ASSUME Init PROVE Lexing
  OBVIOUS
<1>1. source \in Sources /\ scanned = 0 /\ queue = <<>> /\ phase = "head" /\ pushed = <<>>
      /\ freed = [s \in Strings |-> 0]
  BY DEF Init
<1>2. Len(source) \in Nat
  BY <1>1, FileFacts
<1>3. Len(source) # 0
  <2>1. source # <<>> /\ source \in Seq([kind : Kinds, word : STRING])
    BY <1>1, SourcesAreFiles
  <2>2. PICK R : R = [kind : Kinds, word : STRING]
    OBVIOUS
  <2> QED
    BY <2>1, <2>2, EmptySeq
<1>4. \A s : Count(queue, s) = 0 /\ Count(pushed, s) = 0
  BY <1>1, CountOne, Zenon
<1>5. \A s \in Strings : Owners(s) = 0
  BY <1>1, <1>4, OwnersAre
<1>6. TokensOwned
  <2> SUFFICES ASSUME NEW p \in 1 .. Len(source)
               PROVE  Owners(<<"token", p>>) = IF Scanned(p) THEN 1 ELSE 0
    BY DEF TokensOwned
  <2>1. ~Scanned(p)
    BY <1>1, <1>2 DEF Scanned
  <2> QED
    BY <1>5, <2>1, StringsAre
<1>7. CommandsUpTo(Merged(0))
  <2> SUFFICES ASSUME NEW p \in 1 .. Len(source)
               PROVE  /\ Owners(<<"command", p>>) \in {0, 1}
                      /\ Owners(<<"command", p>>) = 1 => p <= Merged(0)
    BY DEF CommandsUpTo
  <2>1. Owners(<<"command", p>>) = 0
    BY <1>5, StringsAre
  <2> QED
    BY <2>1
<1>8. 0 \in 0 .. scanned /\ InOrder(0)
  BY <1>1 DEF InOrder, Covers
<1>9. freed \in [Strings -> Nat] /\ InPhase /\ EndIsLast(queue, scanned)
  BY <1>1, <1>2, <1>3 DEF InPhase, EndIsLast
<1>10. queue \in Seq(TokenOf({})) /\ pushed \in Seq(TokenOf({}))
  BY <1>1
<1>11. scanned \in 0 .. Len(source)
  BY <1>1, <1>2
<1> QED
  BY <1>1, <1>6, <1>7, <1>8, <1>9, <1>10, <1>11 DEF Lexing

LEMMA LexingStutters == ASSUME Lexing, UNCHANGED vars PROVE Lexing'
<1>1. /\ source' = source /\ scanned' = scanned /\ queue' = queue /\ phase' = phase
      /\ i' = i /\ best' = best /\ found' = found /\ pushed' = pushed /\ freed' = freed
  BY DEF vars, lookahead
<1>2. InPhase' /\ EndIsLast(queue, scanned)' = EndIsLast(queue, scanned) /\ Strings' = Strings
  BY <1>1 DEF Lexing, InPhase, EndIsLast, Strings
<1>3. \A s : Owners(s)' = Owners(s)
  BY <1>1 DEF Owners, StringsIn, Strings, Holders, StringOf, tokenHasFreeableString
<1>4. TokensOwned'
  BY <1>1, <1>3 DEF Lexing, TokensOwned, Scanned
<1>5. \A m : CommandsUpTo(Merged(m)) => CommandsUpTo(Merged(m))'
  BY <1>1, <1>3 DEF CommandsUpTo, Merged
<1>6. \A m : InOrder(m) => InOrder(m)'
  BY <1>1 DEF InOrder, Covers
<1> QED
  BY <1>1, <1>2, <1>4, <1>5, <1>6 DEF Lexing

\* The invariant that the theorems below rest on.
THEOREM LexingHolds == Spec => []Lexing
<1>1. Lexing /\ [Next]_vars => Lexing'
  <2> SUFFICES ASSUME Lexing, [Next]_vars PROVE Lexing'
    OBVIOUS
  <2>1. CASE ScanHead
    BY <2>1, ScanHeadStep
  <2>2. CASE StartAhead
    BY <2>2, StartAheadStep
  <2>3. CASE Ahead
    BY <2>3, AheadStep
  <2>4. CASE AheadAtEnd
    BY <2>4, AheadAtEndStep
  <2>5. CASE AheadEnds
    BY <2>5, AheadEndsStep
  <2>6. CASE Merge
    BY <2>6, MergeStep
  <2>7. CASE Keyword
    BY <2>7, KeywordStep
  <2>8. CASE PushToken
    BY <2>8, PushTokenStep
  <2>9. CASE CleanUp
    BY <2>9, CleanUpStep
  <2>10. CASE UNCHANGED vars
    BY <2>10, LexingStutters
  <2> QED
    BY <2>1, <2>2, <2>3, <2>4, <2>5, <2>6, <2>7, <2>8, <2>9, <2>10 DEF Next
<1> QED
  BY <1>1, LexingStarts, PTL DEF Spec

-----------------------------------------------------------------------------
\* A string that the scanner or a merge made has one owner at any time: it was
\* freed once, or the parser has it, or a token of the queue holds it; so doParse
\* frees none twice, none behind the parser's back, and leaks none.
THEOREM OneOwner == Spec => []StringsHaveOneOwner
<1>1. Lexing => StringsHaveOneOwner
  <2> SUFFICES ASSUME Lexing PROVE StringsHaveOneOwner
    OBVIOUS
  <2>1. TokensOwned
    BY DEF Lexing
  <2>2. PICK m : CommandsUpTo(Merged(m))
    BY DEF Lexing
  <2>3. ASSUME NEW p \in 1 .. Len(source) PROVE Owners(<<"command", p>>) <= 1
    <3>1. Owners(<<"command", p>>) \in {0, 1}
      BY <2>2 DEF CommandsUpTo
    <3> QED
      BY <3>1
  <2> QED
    BY <2>1, <2>3 DEF StringsHaveOneOwner, TokensOwned
<1> QED
  BY <1>1, LexingHolds, PTL

\* What the parser got and what is queued is the source as far as it was scanned:
\* no token is lost, repeated or out of order, however many are merged into one.
THEOREM NoneLost == Spec => []NoTokenLost
<1>1. ASSUME Lexing PROVE NoTokenLost
  <2>1. PICK X : queue \in Seq(TokenOf(X)) /\ pushed \in Seq(TokenOf(X))
    BY <1>1 DEF Lexing
  <2>2. PICK m \in 0 .. scanned : InOrder(m)
    BY <1>1 DEF Lexing
  <2>3. scanned \in Nat /\ m \in Nat /\ m <= scanned
    BY <1>1, <2>2, FileFacts DEF Lexing
  <2>4. PICK hi \in Nat : hi = IF phase = "done" THEN m ELSE scanned
    BY <2>3
  <2>5. Covers(pushed, 0, m) /\ Covers(queue, m, hi)
    <3>1. phase = "done" => queue = <<>>
      BY <1>1 DEF Lexing, InPhase
    <3> QED
      BY <2>2, <2>4, <3>1 DEF InOrder, Covers
  <2>6. PICK all : all = pushed \o queue
    OBVIOUS
  <2>l. PICK lo \in Nat : lo = 0 /\ Covers(pushed, lo, m)
    BY <2>5
  <2>T. PICK T : queue \in Seq(T) /\ pushed \in Seq(T)
    BY <2>1
  <2>7. Contiguous(all, lo, hi)
    <3>1. lo \in Nat /\ m \in Nat /\ hi \in Nat
      BY <2>3, <2>4, <2>l
    <3>2. queue \in Seq(T) /\ pushed \in Seq(T) /\ Covers(pushed, lo, m) /\ Covers(queue, m, hi)
      BY <2>T, <2>l, <2>5
    <3> QED
      BY ONLY <3>1, <3>2, <2>6, CoversConcat
  <2> QED
    BY <2>l, <2>4, <2>6, <2>7 DEF NoTokenLost, Contiguous
<1> QED
  BY <1>1, LexingHolds, PTL

\* However far the search for commands looks ahead, the scanner is never asked
\* for a token behind TOK_END.
THEOREM ScannerStops == Spec => [](scanned <= Len(source))
<1>1. Lexing => scanned <= Len(source)
  BY FileFacts DEF Lexing
<1> QED
  BY <1>1, LexingHolds, PTL

-----------------------------------------------------------------------------
(* Texts: what Spelled yields, and the longest command.                    *)

\* Every set of natural numbers that is not empty has a least element.
LEMMA LeastOf ==
  ASSUME NEW S \in SUBSET Nat, S # {}
  PROVE  \E x \in S : \A y \in S : x <= y
<1>1. IsWellFoundedOn(OpToRel(<, Nat), Nat)
  BY NatLessThanWellFounded, Zenon
<1>2. PICK x \in S : \A y \in S : ~(<<y, x>> \in OpToRel(<, Nat))
  BY <1>1, WFMin, Zenon
<1>3. \A y \in S : ~(y < x)
  BY <1>2, Zenon DEF OpToRel
<1> QED
  BY <1>3

\* A set of numbers that holds 0 and with every number the next holds them all.
LEMMA AllNumbers ==
  ASSUME NEW T, 0 \in T, \A n \in Nat : n \in T => n + 1 \in T
  PROVE  \A n \in Nat : n \in T
<1>1. SUFFICES ASSUME NEW m \in Nat, m \notin T
               PROVE  FALSE
  OBVIOUS
<1> DEFINE S == {n \in Nat : n \notin T}
<1>2. S \in SUBSET Nat /\ S # {}
  BY <1>1
<1>3. PICK x \in S : \A y \in S : x <= y
  BY <1>2, LeastOf, Zenon
<1>4. x \in Nat /\ x \notin T /\ x # 0
  BY <1>3
<1>5. x - 1 \in Nat /\ x = (x - 1) + 1 /\ ~(x <= x - 1)
  BY <1>4
<1>6. x - 1 \in T
  BY <1>3, <1>5
<1> QED
  BY <1>4, <1>5, <1>6

\* The k-th token comes behind a blank, or behind none.
Gap(q, k) ==
  IF q[k].kind = "annotation" \/ (k > 2 /\ q[k - 1].kind = "integer") THEN <<>> ELSE <<Blank>>
Spells(q, f, n) ==
  f = [k \in 1 .. n |-> IF k = 1 THEN q[1].text ELSE f[k - 1] \o Gap(q, k) \o q[k].text]

LEMMA SpellingExists ==
  ASSUME NEW q, NEW n \in Nat
  PROVE  \E f : Spells(q, f, n)
<1> DEFINE T == {m \in Nat : \E f : Spells(q, f, m)}
<1>1. 0 \in T
  <2> DEFINE f == [k \in 1 .. 0 |-> q]
  <2>1. f = [k \in 1 .. 0 |-> IF k = 1 THEN q[1].text ELSE f[k - 1] \o Gap(q, k) \o q[k].text]
    OBVIOUS
  <2> QED
    BY <2>1 DEF Spells
<1>2. ASSUME NEW m \in Nat, m \in T
      PROVE  m + 1 \in T
  <2>1. PICK f : Spells(q, f, m)
    BY <1>2
  <2> DEFINE Val(h, k) == IF k = 1 THEN q[1].text ELSE h[k - 1] \o Gap(q, k) \o q[k].text
             g == [k \in 1 .. m + 1 |-> IF k = m + 1 THEN Val(f, k) ELSE f[k]]
  <2>2. \A k \in 1 .. m : f[k] = Val(f, k)
    BY <2>1 DEF Spells
  <2>3. ASSUME NEW k \in 1 .. m + 1
        PROVE  g[k] = Val(g, k)
    <3>1. k # 1 => k - 1 \in 1 .. m /\ k - 1 # m + 1 /\ g[k - 1] = f[k - 1]
      BY <2>3
    <3>2. Val(g, k) = Val(f, k)
      BY <3>1
    <3>3. g[k] = Val(f, k)
      BY <2>2, <2>3
    <3> QED
      BY <3>2, <3>3
  <2> HIDE DEF Val
  <2>4. g = [k \in 1 .. m + 1 |-> Val(g, k)]
    BY <2>3
  <2>5. Spells(q, g, m + 1)
    BY <2>4 DEF Spells, Val
  <2> QED
    BY <2>5
<1>3. n \in T
  BY <1>1, <1>2, AllNumbers
<1> QED
  BY <1>3

\* The text of the first tokens is that of the same tokens in another queue.
LEMMA SpellingsAgree ==
  ASSUME NEW q, NEW r, NEW f, NEW g, NEW n \in Nat, NEW m \in Nat, Spells(q, f, n), Spells(r, g, m),
         NEW l \in Nat, l <= n, l <= m, \A k \in 1 .. l : q[k] = r[k]
  PROVE  \A k \in 1 .. l : f[k] = g[k]
<1> DEFINE T == {k \in Nat : k \in 1 .. l => f[k] = g[k]}
<1>1. 0 \in T
  OBVIOUS
<1>2. ASSUME NEW k \in Nat, k \in T
      PROVE  k + 1 \in T
  <2>1. SUFFICES ASSUME k + 1 \in 1 .. l
                 PROVE  f[k + 1] = g[k + 1]
    OBVIOUS
  <2>2. k + 1 \in 1 .. n /\ k + 1 \in 1 .. m /\ q[k + 1] = r[k + 1] /\ (k + 1) - 1 = k
    BY <2>1
  <2>3. CASE k = 0
    <3>1. f[k + 1] = q[1].text /\ g[k + 1] = r[1].text /\ q[1] = r[1]
      BY <2>1, <2>2, <2>3 DEF Spells
    <3> QED
      BY <3>1
  <2>4. CASE k # 0
    <3>1. f[k] = g[k] /\ q[k] = r[k]
      BY <1>2, <2>1, <2>4
    <3>n. k + 1 # 1 /\ (k + 1) - 1 = k /\ k + 1 \in 1 .. n /\ k + 1 \in 1 .. m
      BY <2>2, <2>4
    <3>2. f[k + 1] = f[k] \o Gap(q, k + 1) \o q[k + 1].text
      BY <3>n DEF Spells
    <3>3. g[k + 1] = g[k] \o Gap(r, k + 1) \o r[k + 1].text
      BY <3>n DEF Spells
    <3>4. Gap(q, k + 1) = Gap(r, k + 1)
      BY <2>2, <3>1 DEF Gap
    <3> QED
      BY <2>2, <3>1, <3>2, <3>3, <3>4
  <2> QED
    BY <2>3, <2>4
<1>3. \A k \in Nat : k \in T
  BY <1>1, <1>2, AllNumbers
<1> QED
  BY <1>3

LEMMA SpelledIs ==
  ASSUME NEW q, NEW n \in Nat
  PROVE  \E f : Spells(q, f, n) /\ Spelled(q, n) = f[n]
<1> DEFINE upTo == CHOOSE f : f = [k \in 1 .. n |-> IF k = 1 THEN q[1].text
                                                    ELSE f[k - 1] \o Gap(q, k) \o q[k].text]
<1>1. \E f : Spells(q, f, n)
  BY SpellingExists
<1>2. Spells(q, upTo, n)
  BY <1>1, Zenon DEF Spells
<1>3. Spelled(q, n) = upTo[n]
  BY Zenon DEF Spelled, Gap
<1> QED
  BY <1>2, <1>3

LEMMA SpelledOne ==
  ASSUME NEW q
  PROVE  Spelled(q, 1) = q[1].text
<1>1. PICK f : Spells(q, f, 1) /\ Spelled(q, 1) = f[1]
  BY SpelledIs
<1> QED
  BY <1>1 DEF Spells

LEMMA SpelledMore ==
  ASSUME NEW q, NEW n \in Nat, n >= 1
  PROVE  Spelled(q, n + 1) = Spelled(q, n) \o Gap(q, n + 1) \o q[n + 1].text
<1>1. PICK f : Spells(q, f, n) /\ Spelled(q, n) = f[n]
  BY SpelledIs
<1>2. PICK g : Spells(q, g, n + 1) /\ Spelled(q, n + 1) = g[n + 1]
  BY SpelledIs
<1>3. f[n] = g[n]
  <2>1. n <= n /\ n <= n + 1 /\ n \in 1 .. n /\ n + 1 \in Nat
    OBVIOUS
  <2>2. \A k \in 1 .. n : f[k] = g[k]
    BY <1>1, <1>2, <2>1, SpellingsAgree
  <2> QED
    BY <2>1, <2>2
<1>4. n + 1 \in 1 .. n + 1 /\ n + 1 # 1 /\ (n + 1) - 1 = n
  OBVIOUS
<1>5. g[n + 1] = g[n] \o Gap(q, n + 1) \o q[n + 1].text
  BY <1>2, <1>4 DEF Spells
<1> QED
  BY <1>1, <1>2, <1>3, <1>5

LEMMA SpelledSame ==
  ASSUME NEW q, NEW r, NEW n \in Nat, n >= 1, \A k \in 1 .. n : q[k] = r[k]
  PROVE  Spelled(q, n) = Spelled(r, n)
<1>1. PICK f : Spells(q, f, n) /\ Spelled(q, n) = f[n]
  BY SpelledIs
<1>2. PICK g : Spells(r, g, n) /\ Spelled(r, n) = g[n]
  BY SpelledIs
<1>3. \A k \in 1 .. n : f[k] = g[k]
  BY <1>1, <1>2, SpellingsAgree
<1> QED
  BY <1>1, <1>2, <1>3

\* The longest command is no shorter than another.
LEMMA LongestIs ==
  /\ LongestCommandLength \in Nat
  /\ \A c \in Commands : Len(c) <= LongestCommandLength
<1>1. CASE Commands = {}
  BY <1>1 DEF LongestCommandLength
<1>2. CASE Commands # {}
  <2>1. Commands \subseteq Seq(STRING) /\ IsFiniteSet(Commands)
    BY CommandsAreTexts
  <2>2. PICK N \in Nat : \E s \in Surjection(1 .. N, Commands) : TRUE
    <3>1. ExistsBijection(1 .. Cardinality(Commands), Commands) /\ Cardinality(Commands) \in Nat
      BY <2>1, FS_CardinalityType
    <3> QED
      BY <3>1 DEF ExistsBijection, Bijection
  <2>e. PICK e \in Surjection(1 .. N, Commands) : TRUE
    BY <2>2
  <2>3. /\ \A n \in 1 .. N : e[n] \in Commands
        /\ \A c \in Commands : \E n \in 1 .. N : e[n] = c
    BY <2>e DEF Surjection
  <2> DEFINE Top(n, l) == l \in 1 .. N /\ \A k \in 1 .. n : k <= N => Len(e[k]) <= Len(e[l])
             T == {n \in Nat : n = 0 \/ \E l \in Nat : Top(n, l)}
  <2>4. \A n \in 1 .. N : Len(e[n]) \in Nat
    BY <2>1, <2>3
  <2>5. N >= 1
    BY <1>2, <2>3, <2>2
  <2>6. ASSUME NEW n \in Nat, n \in T
        PROVE  n + 1 \in T
    <3>1. CASE n = 0
      <4>1. Top(n + 1, 1)
        BY <2>4, <2>5, <3>1
      <4> QED
        BY <4>1
    <3>2. CASE n # 0
      <4>1. PICK l \in Nat : Top(n, l)
        BY <2>6, <3>2
      <4>2. CASE n + 1 > N
        <5>1. Top(n + 1, l)
          BY <4>1, <4>2
        <5> QED
          BY <5>1
      <4>3. CASE n + 1 <= N /\ Len(e[n + 1]) <= Len(e[l])
        <5>1. Top(n + 1, l)
          BY <4>1, <4>3
        <5> QED
          BY <5>1
      <4>4. CASE n + 1 <= N /\ ~(Len(e[n + 1]) <= Len(e[l]))
        <5>1. n + 1 \in 1 .. N
          BY <4>4
        <5>2. \A k \in 1 .. n + 1 : k <= N => Len(e[k]) <= Len(e[n + 1])
          <6>1. SUFFICES ASSUME NEW k \in 1 .. n + 1, k <= N, k # n + 1
                         PROVE  Len(e[k]) <= Len(e[n + 1])
            BY <2>4, <5>1
          <6>2. k \in 1 .. n /\ k \in 1 .. N /\ l \in 1 .. N
            BY <4>1, <6>1
          <6>3. Len(e[k]) <= Len(e[l])
            BY <4>1, <6>1, <6>2
          <6> QED
            BY <2>4, <4>4, <5>1, <6>2, <6>3
        <5>3. Top(n + 1, n + 1)
          BY <5>1, <5>2
        <5> QED
          BY <5>3
      <4> QED
        BY <2>2, <4>2, <4>3, <4>4
    <3> QED
      BY <3>1, <3>2
  <2>7. N \in T
    <3>1. 0 \in T
      OBVIOUS
    <3> HIDE DEF T
    <3> QED
      BY <3>1, <2>2, <2>6, AllNumbers
  <2>8. PICK l \in 1 .. N : Top(N, l)
    BY <2>5, <2>7
  <2>9. \A c \in Commands : Len(c) <= Len(e[l])
    BY <2>2, <2>3, <2>8
  <2> DEFINE longest == CHOOSE c \in Commands : \A d \in Commands : Len(d) <= Len(c)
  <2>10. longest \in Commands /\ \A d \in Commands : Len(d) <= Len(longest)
    BY <2>3, <2>8, <2>9, Zenon
  <2>11. LongestCommandLength = Len(longest)
    BY <1>2 DEF LongestCommandLength
  <2> QED
    BY <2>1, <2>10, <2>11
<1> QED
  BY <1>1, <1>2

-----------------------------------------------------------------------------
(* The texts of the source.                                                *)

LEMMA TextOfOne ==
  ASSUME NEW p \in Nat
  PROVE  TextOf(p, p) = <<source[p].word>>
<1> DEFINE q == [n \in 1 .. p - p + 1 |-> ScannedToken(p + n - 1)]
<1>1. p - p + 1 = 1 /\ p + 1 - 1 = p /\ 1 \in 1 .. p - p + 1
  OBVIOUS
<1>2. TextOf(p, p) = Spelled(q, 1)
  BY <1>1 DEF TextOf
<1>3. q[1] = ScannedToken(p)
  BY <1>1
<1>4. ScannedToken(p).text = <<source[p].word>>
  BY DEF ScannedToken
<1> QED
  BY <1>2, <1>3, <1>4, SpelledOne

LEMMA TextOfMore ==
  ASSUME NEW p \in Nat, NEW n \in Nat, n >= 1
  PROVE  TextOf(p, p + n) =
           TextOf(p, p + n - 1)
             \o (IF source[p + n].kind = "annotation" \/ (n > 1 /\ source[p + n - 1].kind = "integer")
                 THEN <<>> ELSE <<Blank>>)
             \o <<source[p + n].word>>
<1> DEFINE q == [k \in 1 .. n |-> ScannedToken(p + k - 1)]
           r == [k \in 1 .. n + 1 |-> ScannedToken(p + k - 1)]
<1>1. TextOf(p, p + n - 1) = Spelled(q, n)
  <2>1. p + n - 1 - p + 1 = n
    OBVIOUS
  <2> QED
    BY <2>1 DEF TextOf
<1>2. TextOf(p, p + n) = Spelled(r, n + 1)
  <2>1. p + n - p + 1 = n + 1
    OBVIOUS
  <2> QED
    BY <2>1 DEF TextOf
<1>3. /\ r[n + 1] = ScannedToken(p + n)
      /\ n > 1 => r[n] = ScannedToken(p + n - 1)
      /\ \A k \in 1 .. n : q[k] = r[k]
  <2>1. n + 1 \in 1 .. n + 1 /\ n \in 1 .. n + 1 /\ p + (n + 1) - 1 = p + n
    OBVIOUS
  <2> QED
    BY <2>1
<1> HIDE DEF q, r
<1>4. Spelled(q, n) = Spelled(r, n)
  BY <1>3, SpelledSame
<1>5. Spelled(r, n + 1) = Spelled(r, n) \o Gap(r, n + 1) \o r[n + 1].text
  BY SpelledMore
<1>6. /\ ScannedToken(p + n).kind = source[p + n].kind /\ ScannedToken(p + n).text = <<source[p + n].word>>
      /\ ScannedToken(p + n - 1).kind = source[p + n - 1].kind
  BY DEF ScannedToken
<1>7. /\ n + 1 > 2 <=> n > 1
      /\ n + 1 - 1 = n
  OBVIOUS
<1>8. Gap(r, n + 1) =
        IF source[p + n].kind = "annotation" \/ (n > 1 /\ source[p + n - 1].kind = "integer")
        THEN <<>> ELSE <<Blank>>
  BY <1>3, <1>6, <1>7 DEF Gap
<1>9. r[n + 1].text = <<source[p + n].word>>
  BY <1>3, <1>6
<1> QED
  BY <1>1, <1>2, <1>4, <1>5, <1>8, <1>9

LEMMA TextOfNext ==
  ASSUME NEW p \in Nat, NEW n \in Nat
  PROVE  \E gap \in {<<>>, <<Blank>>} :
           TextOf(p, p + (n + 1)) = TextOf(p, p + n) \o gap \o <<source[p + (n + 1)].word>>
<1>1. n + 1 \in Nat /\ n + 1 >= 1 /\ p + (n + 1) - 1 = p + n
  OBVIOUS
<1>2. PICK gap \in {<<>>, <<Blank>>} :
        gap = IF source[p + (n + 1)].kind = "annotation"
                   \/ (n + 1 > 1 /\ source[p + (n + 1) - 1].kind = "integer")
              THEN <<>> ELSE <<Blank>>
  OBVIOUS
<1>3. TextOf(p, p + (n + 1)) = TextOf(p, p + (n + 1) - 1) \o gap \o <<source[p + (n + 1)].word>>
  BY <1>1, <1>2, TextOfMore
<1> QED
  BY <1>1, <1>3

\* The words of a file are strings.
LEMMA WordsAre ==
  ASSUME source \in Sources, NEW p \in 1 .. Len(source)
  PROVE  source[p].word \in STRING
<1>1. source \in Seq([kind : Kinds, word : STRING])
  BY SourcesAreFiles
<1>2. PICK R : R = [kind : Kinds, word : STRING]
  OBVIOUS
<1>3. \A t \in R : t.word \in STRING
  BY <1>2
<1>4. source \in Seq(R)
  BY <1>1, <1>2
<1>5. source[p] \in R
  BY <1>4
<1> QED
  BY <1>3, <1>5

LEMMA Appending ==
  ASSUME NEW W, NEW s \in Seq(W), NEW b \in W, NEW w \in W, NEW gap \in {<<>>, <<b>>}
  PROVE  s \o gap \o <<w>> \in Seq(W) /\ Len(s) <= Len(s \o gap \o <<w>>)
<1>1. gap \in Seq(W)
  <2>1. CASE gap = <<>>
    BY <2>1
  <2>2. CASE gap = <<b>>
    BY <2>2
  <2> QED
    BY <2>1, <2>2
<1>2. s \o gap \in Seq(W) /\ Len(s) <= Len(s \o gap)
  BY <1>1
<1>3. PICK u \in Seq(W) : u = s \o gap
  BY <1>2
<1>4. u \o <<w>> \in Seq(W) /\ Len(u) <= Len(u \o <<w>>)
  OBVIOUS
<1>5. Len(s) \in Nat /\ Len(u) \in Nat /\ Len(u \o <<w>>) \in Nat
  BY <1>4
<1> QED
  BY <1>2, <1>3, <1>4, <1>5

\* A word behind a text makes a longer text.
Words == STRING \cup {Blank}
LEMMA WordBehind ==
  ASSUME NEW s \in Seq(Words), NEW gap \in {<<>>, <<Blank>>}, NEW w \in STRING
  PROVE  s \o gap \o <<w>> \in Seq(Words) /\ Len(s) <= Len(s \o gap \o <<w>>)
<1>1. Blank \in Words /\ w \in Words
  BY DEF Words
<1> QED
  BY <1>1, Appending

\* Text is a sequence of them.
LEMMA TextTyped ==
  ASSUME source \in Sources, NEW p \in 1 .. Len(source)
  PROVE  \A n \in Nat : p + n <= Len(source) => TextOf(p, p + n) \in Seq(Words)
<1> DEFINE T == {n \in Nat : p + n <= Len(source) => TextOf(p, p + n) \in Seq(Words)}
<1>1. Len(source) \in Nat /\ p \in Nat
  BY FileFacts
<1>2. 0 \in T
  <2>1. TextOf(p, p) = <<source[p].word>> /\ source[p].word \in STRING
    BY <1>1, TextOfOne, WordsAre
  <2>2. TextOf(p, p) \in Seq(Words)
    BY <2>1 DEF Words
  <2>3. p + 0 = p
    BY <1>1
  <2> QED
    BY <2>2, <2>3
<1>3. ASSUME NEW n \in Nat, n \in T
      PROVE  n + 1 \in T
  <2>1. SUFFICES ASSUME p + (n + 1) <= Len(source)
                 PROVE  TextOf(p, p + (n + 1)) \in Seq(Words)
    OBVIOUS
  <2>2. PICK gap \in {<<>>, <<Blank>>} :
          TextOf(p, p + (n + 1)) = TextOf(p, p + n) \o gap \o <<source[p + (n + 1)].word>>
    BY <1>1, TextOfNext
  <2>3. TextOf(p, p + n) \in Seq(Words)
    BY <1>1, <1>3, <2>1
  <2>4. source[p + (n + 1)].word \in STRING
    BY <1>1, <2>1, WordsAre
  <2> QED
    BY <2>2, <2>3, <2>4, WordBehind
<1>4. \A n \in Nat : n \in T
  BY <1>2, <1>3, AllNumbers
<1> QED
  BY <1>4

\* A longer piece of the source is spelled with more words.
LEMMA TextsLengthen ==
  ASSUME source \in Sources, NEW p \in 1 .. Len(source)
  PROVE  \A n \in Nat : p + n <= Len(source) =>
           \A m \in 0 .. n : Len(TextOf(p, p + m)) <= Len(TextOf(p, p + n))
<1> DEFINE T == {n \in Nat : p + n <= Len(source) =>
                   \A m \in 0 .. n : Len(TextOf(p, p + m)) <= Len(TextOf(p, p + n))}
<1>1. Len(source) \in Nat /\ p \in Nat
  BY FileFacts
<1>2. \A n \in Nat : p + n <= Len(source) => Len(TextOf(p, p + n)) \in Nat
  BY TextTyped
<1>3. 0 \in T
  <2>1. Len(TextOf(p, p + 0)) \in Nat \/ ~(p + 0 <= Len(source))
    BY <1>2
  <2>2. \A m \in 0 .. 0 : m = 0
    OBVIOUS
  <2> QED
    BY <2>1, <2>2
<1>4. ASSUME NEW n \in Nat, n \in T
      PROVE  n + 1 \in T
  <2>1. SUFFICES ASSUME p + (n + 1) <= Len(source), NEW m \in 0 .. n + 1
                 PROVE  Len(TextOf(p, p + m)) <= Len(TextOf(p, p + (n + 1)))
    OBVIOUS
  <2>2. p + n <= Len(source) /\ p + m <= Len(source) /\ m \in Nat /\ n + 1 \in Nat
    BY <1>1, <2>1
  <2>3. PICK gap \in {<<>>, <<Blank>>} :
          TextOf(p, p + (n + 1)) = TextOf(p, p + n) \o gap \o <<source[p + (n + 1)].word>>
    BY <1>1, TextOfNext
  <2>4. Len(TextOf(p, p + n)) <= Len(TextOf(p, p + (n + 1)))
    <3>1. p + (n + 1) \in 1 .. Len(source)
      BY <1>1, <2>1
    <3>2. source[p + (n + 1)].word \in STRING
      BY <3>1, WordsAre
    <3>3. TextOf(p, p + n) \in Seq(Words)
      BY <2>2, TextTyped
    <3> QED
      BY <2>3, <3>2, <3>3, WordBehind
  <2>5. CASE m = n + 1
    BY <1>2, <2>1, <2>2, <2>5
  <2>6. CASE m # n + 1
    <3>1. m \in 0 .. n
      BY <2>6
    <3>2. Len(TextOf(p, p + m)) <= Len(TextOf(p, p + n))
      BY <1>4, <2>2, <3>1
    <3>3. /\ Len(TextOf(p, p + m)) \in Nat /\ Len(TextOf(p, p + n)) \in Nat
          /\ Len(TextOf(p, p + (n + 1))) \in Nat
      BY <1>2, <2>1, <2>2
    <3> QED
      BY <2>4, <3>2, <3>3
  <2> QED
    BY <2>5, <2>6
<1>5. \A n \in Nat : n \in T
  BY <1>3, <1>4, AllNumbers
<1> QED
  BY <1>5

-----------------------------------------------------------------------------
(* What is pushed, in parts.                                               *)

\* The token that the source alone says begins at p.
LongestOf(p) == CHOOSE k \in Matches(p) : \A m \in Matches(p) : m <= k
IsWord(p) == source[p].kind \in {"symbol", "integer"}
IsMerged(p) == IsWord(p) /\ Matches(p) # {} /\ ~Annotated(LongestOf(p))
LastOf(p) == IF IsMerged(p) THEN LongestOf(p) ELSE p
IsKeyword(p) ==
  /\ IsMerged(p) \/ source[p].kind = "symbol"
  /\ TextOf(p, LastOf(p)) \in Keywords /\ ~Annotated(LastOf(p))
KindOf(p) ==
  IF IsKeyword(p) THEN "keyword" ELSE IF IsMerged(p) THEN "command" ELSE source[p].kind
IsRight(t) == t.to = LastOf(t.from) /\ t.kind = KindOf(t.from)

\* Of n tokens that end at the place last, each is as it was scanned.
Raw(q, last) ==
  Len(q) <= last /\ \A k \in 1 .. Len(q) : q[k] = ScannedToken(last - Len(q) + k)

\* A longest match of b tokens is right if n tokens from p on have been tried.
Tried(b, f, p, n) ==
  /\ b \in 0 .. n
  /\ b # 0 => TextOf(p, p + b - 1) \in Commands
  /\ \A k \in 1 .. n : k > b => TextOf(p, p + k - 1) \notin Commands
  /\ f <=> b # 0 /\ ~Annotated(p + b - 1)
\* The loop has spelled n tokens from p on.
HasSpelled(t, l, p, n) ==
  /\ t = TextOf(p, p + n - 1)
  /\ l <=> n > 1 /\ source[p + n - 1].kind = "integer"
\* The head of the queue when keywords are looked up.
IsMatched(t, p) ==
  /\ t.from \in 1 .. Len(source) /\ IsWord(t.from)
  /\ t.to = LastOf(t.from) /\ t.to = p /\ t.text = TextOf(t.from, t.to)
  /\ t.kind = IF IsMerged(t.from) THEN "command" ELSE source[t.from].kind

\* Where doParse stands: its queue, the tokens scanned, i, possibleCommand,
\* lastSymbolWasInteger and the result; p is the place of the queue's first token.
Right(ph, q, last, j, t, l, b, f) ==
  LET p == last - Len(q) + 1 IN
    /\ ph \in {"head", "ahead", "merge"} => Raw(q, last)
    /\ ph \in {"keyword", "push"} => Raw(Tail(q), last)
    /\ ph = "ahead" => IsWord(p) /\ Tried(b, f, p, j - 1) /\ HasSpelled(t, l, p, j)
    /\ ph = "merge" => IsWord(p) /\ Tried(b, f, p, Len(source) - p)
    /\ ph = "keyword" => IsMatched(Head(q), p)
    /\ ph = "push" => IsRight(Head(q))
AllRight(tokens) == \A n \in DOMAIN tokens : IsRight(tokens[n])

Spelling ==
  Right(phase, queue, scanned, i, text, lastInt, best, found) /\ AllRight(pushed)

LEMMA RightIsPushed ==
  ASSUME NEW n, n \in DOMAIN pushed
  PROVE  IsRight(pushed[n]) <=>
    LET t == pushed[n]
        longest == CHOOSE k \in Matches(t.from) : \A m \in Matches(t.from) : m <= k
        merged == /\ source[t.from].kind \in {"symbol", "integer"}
                  /\ Matches(t.from) # {} /\ ~Annotated(longest)
        last == IF merged THEN longest ELSE t.from
        keyword == /\ merged \/ source[t.from].kind = "symbol"
                   /\ TextOf(t.from, last) \in Keywords /\ ~Annotated(last)
    IN /\ t.to = last
       /\ t.kind = CASE keyword -> "keyword"
                     [] merged /\ ~keyword -> "command"
                     [] OTHER -> source[t.from].kind
<1> DEFINE t == pushed[n]
           p == t.from
<1>1. KindOf(p) = CASE IsKeyword(p) -> "keyword"
                    [] IsMerged(p) /\ ~IsKeyword(p) -> "command"
                    [] OTHER -> source[p].kind
  BY DEF KindOf
<1> QED
  BY <1>1, Zenon DEF IsRight, IsKeyword, IsMerged, LastOf, LongestOf, IsWord

LEMMA TypesAre ==
  ASSUME Lexing
  PROVE  /\ source \in Sources /\ Len(source) \in Nat
         /\ scanned \in Nat /\ scanned <= Len(source)
         /\ Len(queue) \in Nat /\ DOMAIN queue = 1 .. Len(queue)
         /\ Len(pushed) \in Nat /\ DOMAIN pushed = 1 .. Len(pushed)
<1>1. PICK X : queue \in Seq(TokenOf(X)) /\ pushed \in Seq(TokenOf(X))
  BY DEF Lexing
<1>2. Len(queue) \in Nat /\ DOMAIN queue = 1 .. Len(queue)
  BY <1>1
<1>3. Len(pushed) \in Nat /\ DOMAIN pushed = 1 .. Len(pushed)
  BY <1>1
<1> QED
  BY <1>2, <1>3, FileFacts DEF Lexing

\* A queue that has got the next token of the source is as it was, and longer.
LEMMA ScanIs ==
  ASSUME NEW X, NEW q \in Seq(X)
  PROVE  /\ Len(Scan(q)) = Len(q) + 1
         /\ \A k \in 1 .. Len(q) : Scan(q)[k] = q[k]
         /\ Scan(q)[Len(q) + 1] = ScannedToken(scanned + 1)
BY DEF Scan

LEMMA RawGrows ==
  ASSUME NEW X, NEW q \in Seq(X), scanned \in Nat, Raw(q, scanned)
  PROVE  Raw(Scan(q), scanned + 1)
<1>1. Len(q) \in Nat
  OBVIOUS
<1>2. \A k \in 1 .. Len(q) + 1 : k \in 1 .. Len(q) \/ k = Len(q) + 1
  BY <1>1
<1>3. \A k \in Nat : scanned + 1 - (Len(q) + 1) + k = scanned - Len(q) + k
  BY <1>1
<1>4. scanned - Len(q) + (Len(q) + 1) = scanned + 1
  BY <1>1
<1>5. \A k \in 1 .. Len(q) + 1 : Scan(q)[k] = ScannedToken(scanned + 1 - (Len(q) + 1) + k)
  BY <1>1, <1>2, <1>3, <1>4, ScanIs DEF Raw
<1>6. PICK r : r = Scan(q)
  OBVIOUS
<1>7. Len(r) = Len(q) + 1
  BY <1>6, ScanIs
<1>8. \A k \in 1 .. Len(r) : r[k] = ScannedToken(scanned + 1 - Len(r) + k)
  BY <1>5, <1>6, <1>7
<1>9. Len(r) <= scanned + 1
  BY <1>1, <1>7 DEF Raw
<1> QED
  BY <1>6, <1>8, <1>9 DEF Raw

\* The rest of a raw queue is raw.
LEMMA RawRest ==
  ASSUME NEW X, NEW q \in Seq(X), NEW last \in Nat, Raw(q, last), NEW n \in 0 .. Len(q)
  PROVE  Raw(SubSeq(q, n + 1, Len(q)), last)
<1>1. PICK r \in Seq(X) : r = SubSeq(q, n + 1, Len(q))
  <2>1. SubSeq(q, n + 1, Len(q)) \in Seq(X)
    OBVIOUS
  <2> QED
    BY <2>1
<1>2. Len(q) \in Nat /\ Len(r) = Len(q) - n /\ \A k \in 1 .. Len(q) - n : r[k] = q[n + k]
  BY <1>1
<1>3. ASSUME NEW k \in 1 .. Len(q) - n
      PROVE  r[k] = ScannedToken(last - Len(r) + k)
  <2>1. n + k \in 1 .. Len(q) /\ last - Len(q) + (n + k) = last - Len(r) + k
    BY <1>2
  <2> QED
    BY <1>2, <2>1 DEF Raw
<1>4. Len(r) <= last
  BY <1>2 DEF Raw
<1>5. Raw(r, last)
  BY <1>2, <1>3, <1>4 DEF Raw
<1> QED
  BY <1>1, <1>5

LEMMA RawTail ==
  ASSUME NEW X, NEW q \in Seq(X), NEW last \in Nat, Raw(q, last), q # <<>>
  PROVE  Raw(Tail(q), last)
<1>1. Len(q) \in Nat /\ Len(q) >= 1
  OBVIOUS
<1>2. Tail(q) = SubSeq(q, 1 + 1, Len(q))
  OBVIOUS
<1>3. 1 \in 0 .. Len(q)
  BY <1>1
<1> QED
  BY <1>2, <1>3, RawRest

\* So a raw queue spells the text of its part of the source.
LEMMA RawSpells ==
  ASSUME NEW X, NEW q \in Seq(X), NEW last \in Nat, Raw(q, last), NEW n \in 1 .. Len(q)
  PROVE  LET p == last - Len(q) + 1 IN Spelled(q, n) = TextOf(p, p + n - 1)
<1> DEFINE p == last - Len(q) + 1
           r == [k \in 1 .. n |-> ScannedToken(p + k - 1)]
<1>1. Len(q) \in Nat /\ n \in Nat /\ n >= 1 /\ p \in Nat /\ (p + n - 1) - p + 1 = n
  BY DEF Raw
<1>2. \A k \in 1 .. n : q[k] = r[k]
  <2> SUFFICES ASSUME NEW k \in 1 .. n PROVE q[k] = r[k]
    OBVIOUS
  <2>1. k \in 1 .. Len(q) /\ p + k - 1 = last - Len(q) + k
    BY <1>1
  <2> QED
    BY <2>1 DEF Raw
<1>3. Spelled(q, n) = Spelled(r, n)
  <2> HIDE DEF r
  <2> QED
    BY <1>1, <1>2, SpelledSame
<1>4. TextOf(p, p + n - 1) = Spelled(r, n)
  BY <1>1 DEF TextOf
<1> QED
  BY <1>3, <1>4

-----------------------------------------------------------------------------
(* The steps.                                                              *)

\* All this is about the source, and the source never changes.
LEMMA SourceStays ==
  ASSUME source' = source
  PROVE  /\ \A p, k : TextOf(p, k)' = TextOf(p, k)
         /\ \A p : ScannedToken(p)' = ScannedToken(p)
         /\ \A p : Matches(p)' = Matches(p)
         /\ \A p : (Annotated(p)' <=> Annotated(p)) /\ (IsWord(p)' <=> IsWord(p))
<1>1. \A p : ScannedToken(p)' = ScannedToken(p)
  BY DEF ScannedToken
<1>2. \A p, k : TextOf(p, k)' = TextOf(p, k)
  BY <1>1 DEF TextOf
<1>3. \A p : Matches(p)' = Matches(p)
  BY <1>2 DEF Matches
<1>4. \A p : (Annotated(p)' <=> Annotated(p)) /\ (IsWord(p)' <=> IsWord(p))
  BY DEF Annotated, IsWord
<1> QED
  BY <1>1, <1>2, <1>3, <1>4

LEMMA RightStays ==
  ASSUME source' = source
  PROVE  /\ \A p : LastOf(p)' = LastOf(p)
         /\ \A p : IsMerged(p)' <=> IsMerged(p)
         /\ \A t : IsRight(t)' <=> IsRight(t)
         /\ \A q, n : Raw(q, n)' <=> Raw(q, n)
         /\ \A t, p : IsMatched(t, p)' <=> IsMatched(t, p)
         /\ \A b, f, p, n : Tried(b, f, p, n)' <=> Tried(b, f, p, n)
         /\ \A t, l, p, n : HasSpelled(t, l, p, n)' <=> HasSpelled(t, l, p, n)
<1>1. \A p : LongestOf(p)' = LongestOf(p)
  BY SourceStays DEF LongestOf
<1>2. \A p : IsMerged(p)' <=> IsMerged(p)
  <2> SUFFICES ASSUME NEW p PROVE IsMerged(p)' <=> IsMerged(p)
    OBVIOUS
  <2>1. PICK k : k = LongestOf(p)
    OBVIOUS
  <2>2. LongestOf(p)' = k /\ (Annotated(k)' <=> Annotated(k))
    BY <1>1, <2>1, SourceStays
  <2>3. Annotated(LongestOf(p))' <=> Annotated(k)
    BY <2>1, <2>2 DEF Annotated
  <2> QED
    BY <2>1, <2>3, SourceStays DEF IsMerged
<1>3. \A p : LastOf(p)' = LastOf(p)
  BY <1>1, <1>2 DEF LastOf
<1>4. \A p : IsKeyword(p)' <=> IsKeyword(p)
  <2> SUFFICES ASSUME NEW p PROVE IsKeyword(p)' <=> IsKeyword(p)
    OBVIOUS
  <2>1. PICK k : k = LastOf(p)
    OBVIOUS
  <2>2. LastOf(p)' = k /\ (IsMerged(p)' <=> IsMerged(p))
    BY <1>2, <1>3, <2>1
  <2>3. TextOf(p, LastOf(p))' = TextOf(p, k)
    BY <2>2, SourceStays DEF TextOf
  <2>4. Annotated(LastOf(p))' <=> Annotated(k)
    BY <2>2 DEF Annotated
  <2> QED
    BY <2>1, <2>2, <2>3, <2>4 DEF IsKeyword
<1>5. \A p : KindOf(p)' = KindOf(p)
  BY <1>2, <1>4 DEF KindOf
<1>6. \A t : IsRight(t)' <=> IsRight(t)
  BY <1>3, <1>5 DEF IsRight
<1>7. \A q, n : Raw(q, n)' <=> Raw(q, n)
  BY SourceStays DEF Raw
<1>8. \A t, p : IsMatched(t, p)' <=> IsMatched(t, p)
  BY <1>2, <1>3, SourceStays DEF IsMatched
<1>9. \A b, f, p, n : Tried(b, f, p, n)' <=> Tried(b, f, p, n)
  BY SourceStays DEF Tried
<1>10. \A t, l, p, n : HasSpelled(t, l, p, n)' <=> HasSpelled(t, l, p, n)
  BY SourceStays DEF HasSpelled
<1> QED
  BY <1>2, <1>3, <1>6, <1>7, <1>8, <1>9, <1>10

LEMMA SpellingStays ==
  ASSUME source' = source,
         NEW ph, NEW q, NEW last, NEW j, NEW t, NEW l, NEW b, NEW f, NEW out,
         ph = phase', q = queue', last = scanned', j = i', t = text', l = lastInt',
         b = best', f = found', out = pushed',
         Right(ph, q, last, j, t, l, b, f), AllRight(out)
  PROVE  Spelling'
<1>1. Right(ph, q, last, j, t, l, b, f)'
  <2>1. PICK p : p = last - Len(q) + 1
    OBVIOUS
  <2>2. PICK h : h = Head(q)
    OBVIOUS
  <2>3. PICK r : r = Tail(q)
    OBVIOUS
  <2> QED
    BY <2>1, <2>2, <2>3, SourceStays, RightStays DEF Right
<1>2. AllRight(out)'
  BY RightStays DEF AllRight
<1>3. Right(phase, queue, scanned, i, text, lastInt, best, found)'
  BY <1>1 DEF Right
<1>4. AllRight(pushed)'
  BY <1>2 DEF AllRight
<1> QED
  BY <1>3, <1>4 DEF Spelling

-----------------------------------------------------------------------------
LEMMA StateIs ==
  ASSUME Lexing, Spelling
  PROVE  /\ Right(phase, queue, scanned, i, text, lastInt, best, found) /\ AllRight(pushed)
         /\ \E X : queue \in Seq(X)
BY DEF Lexing, Spelling

LEMMA ScanHeadSpells ==
  ASSUME Lexing, Spelling, ScanHead
  PROVE  Spelling'
<1>1. PICK X : queue \in Seq(X)
  BY StateIs
<1>2. PICK q : q = Scan(queue)
  OBVIOUS
<1>3. Raw(q, scanned + 1)
  <2>1. Raw(queue, scanned)
    BY StateIs DEF ScanHead, Right
  <2> QED
    BY <1>1, <1>2, <2>1, RawGrows, TypesAre
<1>4. PICK n : n = scanned + 1
  OBVIOUS
<1>5. Right("head", q, n, i, text, lastInt, best, found)
  BY <1>3, <1>4 DEF Right
<1>6. /\ source' = source /\ phase' = "head" /\ queue' = q /\ scanned' = n /\ i' = i /\ text' = text
      /\ lastInt' = lastInt /\ best' = best /\ found' = found /\ pushed' = pushed
  BY <1>2, <1>4 DEF ScanHead, lookahead
<1>7. AllRight(pushed)
  BY StateIs
<1> QED
  BY <1>5, <1>6, <1>7, SpellingStays

\* A token that is no word is pushed as it was scanned.
LEMMA OthersAreRight ==
  ASSUME NEW p, p \in Nat, source[p].kind \notin {"symbol", "integer"}
  PROVE  IsRight(ScannedToken(p))
<1>1. ~IsMerged(p) /\ ~IsKeyword(p)
  BY DEF IsMerged, IsKeyword, IsWord
<1> QED
  BY <1>1, ScannedTokenIs DEF IsRight, LastOf, KindOf

LEMMA RawHead ==
  ASSUME Lexing, Raw(queue, scanned), queue # <<>>
  PROVE  LET p == scanned - Len(queue) + 1 IN
           /\ p \in 1 .. Len(source) /\ Head(queue) = ScannedToken(p)
           /\ Head(queue).kind = source[p].kind /\ Head(queue).text = <<source[p].word>>
           /\ Head(queue).from = p /\ Head(queue).to = p
<1>1. PICK X : queue \in Seq(X)
  BY DEF Lexing
<1>2. Len(queue) \in Nat /\ Len(queue) >= 1 /\ Head(queue) = queue[1]
  BY <1>1
<1>3. PICK p : p = scanned - Len(queue) + 1
  OBVIOUS
<1>4. p \in 1 .. Len(source)
  BY <1>2, <1>3, TypesAre DEF Raw
<1>5. queue[1] = ScannedToken(p)
  BY <1>2, <1>3 DEF Raw
<1>6. ScannedToken(p).text = <<source[p].word>>
  BY DEF ScannedToken
<1> QED
  BY <1>2, <1>3, <1>4, <1>5, <1>6, ScannedTokenIs

LEMMA StartAheadSpells ==
  ASSUME Lexing, Spelling, StartAhead
  PROVE  Spelling'
<1>1. PICK X : queue \in Seq(X)
  BY StateIs
<1>2. Raw(queue, scanned) /\ AllRight(pushed) /\ queue # <<>>
  BY StateIs DEF StartAhead, Right
<1>3. PICK p : p = scanned - Len(queue) + 1
  OBVIOUS
<1>4. /\ p \in 1 .. Len(source) /\ Head(queue) = ScannedToken(p)
      /\ Head(queue).kind = source[p].kind /\ Head(queue).text = <<source[p].word>>
  BY <1>2, <1>3, RawHead
<1>5. Len(source) \in Nat /\ p \in Nat /\ scanned \in Nat
  BY <1>4, TypesAre
<1>6. CASE Head(queue).kind \in {"integer", "symbol"}
  <2>1. /\ source' = source /\ phase' = "ahead" /\ queue' = queue /\ scanned' = scanned
        /\ i' = 1 /\ text' = Head(queue).text /\ lastInt' = FALSE /\ best' = 0 /\ found' = FALSE
        /\ pushed' = pushed
    BY <1>6 DEF StartAhead, EmptyResult
  <2>2. IsWord(p)
    BY <1>4, <1>6 DEF IsWord
  <2>3. Tried(0, FALSE, p, 1 - 1)
    BY DEF Tried
  <2>4. HasSpelled(Head(queue).text, FALSE, p, 1)
    <3>1. p + 1 - 1 = p
      BY <1>5
    <3> QED
      BY <1>4, <1>5, <3>1, TextOfOne DEF HasSpelled
  <2>5. PICK t : t = Head(queue).text
    OBVIOUS
  <2>6. Right("ahead", queue, scanned, 1, t, FALSE, 0, FALSE)
    BY <1>2, <1>3, <2>2, <2>3, <2>4, <2>5 DEF Right
  <2> QED
    BY <1>2, <2>1, <2>5, <2>6, SpellingStays
<1>7. CASE Head(queue).kind \notin {"integer", "symbol"}
  <2>1. /\ source' = source /\ phase' = "push" /\ queue' = queue /\ scanned' = scanned
        /\ i' = i /\ text' = text /\ lastInt' = lastInt /\ best' = best /\ found' = found
        /\ pushed' = pushed
    BY <1>7 DEF StartAhead, lookahead
  <2>2. IsRight(Head(queue))
    BY <1>4, <1>5, <1>7, OthersAreRight
  <2>3. Raw(Tail(queue), scanned)
    BY <1>1, <1>2, <1>5, RawTail
  <2>4. Right("push", queue, scanned, i, text, lastInt, best, found)
    BY <2>2, <2>3 DEF Right
  <2> QED
    BY <1>2, <2>1, <2>4, SpellingStays
<1> QED
  BY <1>6, <1>7

-----------------------------------------------------------------------------
\* One round of the loop: the text of i tokens has been tried.
LEMMA TriesOneMore ==
  ASSUME NEW p \in Nat, i \in Nat, i >= 1, Tried(best, found, p, i - 1), text = TextOf(p, p + i - 1)
  PROVE  /\ ~Annotated(p + i - 1) => Tried(Longest, Found, p, i)
         /\ Tried(Longest, Found /\ ~(Annotated(p + i - 1) /\ Longest = i), p, i)
<1>1. best \in 0 .. i - 1 /\ best \in Nat /\ best # i
  BY DEF Tried
<1>2. CASE text \in Commands
  <2>1. Longest = i /\ Found
    BY <1>2 DEF Longest, Found
  <2>2. \A k \in 1 .. i : ~(k > i)
    OBVIOUS
  <2> QED
    BY <1>2, <2>1, <2>2 DEF Tried
<1>3. CASE text \notin Commands
  <2>1. Longest = best /\ (Found <=> found)
    BY <1>3 DEF Longest, Found
  <2>2. \A k \in 1 .. i : k > best => TextOf(p, p + k - 1) \notin Commands
    <3> SUFFICES ASSUME NEW k \in 1 .. i, k > best
                 PROVE  TextOf(p, p + k - 1) \notin Commands
      OBVIOUS
    <3>1. CASE k = i
      BY <1>3, <3>1
    <3>2. CASE k # i
      <4>1. k \in 1 .. i - 1
        BY <3>2
      <4> QED
        BY <4>1 DEF Tried
    <3> QED
      BY <3>1, <3>2
  <2>3. best \in 0 .. i
    BY <1>1
  <2>4. /\ best # 0 => TextOf(p, p + best - 1) \in Commands
        /\ found <=> best # 0 /\ ~Annotated(p + best - 1)
    BY DEF Tried
  <2> QED
    BY <1>1, <2>1, <2>2, <2>3, <2>4 DEF Tried
<1> QED
  BY <1>2, <1>3

\* The token behind the text, and the queue it is in.
LEMMA RoundIs ==
  ASSUME Lexing, Lexing', Spelling, Round
  PROVE  LET p == scanned - Len(queue) + 1 IN
           /\ Raw(queue', scanned') /\ scanned' - Len(queue') + 1 = p
           /\ p \in 1 .. Len(source) /\ i \in Nat /\ i >= 1
           /\ p + i <= Len(source) /\ Behind = ScannedToken(p + i)
           /\ Tried(best, found, p, i - 1) /\ HasSpelled(text, lastInt, p, i) /\ IsWord(p)
           /\ source' = source /\ pushed' = pushed /\ best' = Longest
<1>1. PICK X : queue \in Seq(X)
  BY StateIs
<1>2. phase = "ahead" /\ queue' = Tokens /\ source' = source /\ pushed' = pushed /\ best' = Longest
      /\ scanned' = IF i = Len(queue) THEN scanned + 1 ELSE scanned
  BY DEF Round
<1>3. PICK p : p = scanned - Len(queue) + 1
  OBVIOUS
<1>4. Raw(queue, scanned) /\ IsWord(p) /\ Tried(best, found, p, i - 1) /\ HasSpelled(text, lastInt, p, i)
  BY <1>2, <1>3, StateIs DEF Right
<1>5. i \in 1 .. Len(queue) /\ Len(queue) \in Nat /\ scanned \in Nat /\ Len(source) \in Nat
  BY <1>2, TypesAre DEF Lexing, InPhase
<1>6. scanned' \in Nat /\ scanned' <= Len(source)
  <2>1. scanned' \in 0 .. Len(source')
    BY DEF Lexing
  <2> QED
    BY <1>2, <1>5, <2>1
<1>7. p \in Nat /\ p >= 1
  BY <1>3, <1>4, <1>5 DEF Raw
<1>8. CASE i = Len(queue)
  <2>1. PICK q : q = Scan(queue)
    OBVIOUS
  <2>2. queue' = q /\ scanned' = scanned + 1 /\ Behind = q[i + 1]
    BY <1>2, <1>8, <2>1 DEF Tokens, Behind
  <2>3. Raw(q, scanned + 1) /\ Len(q) = Len(queue) + 1 /\ q[Len(queue) + 1] = ScannedToken(scanned + 1)
    BY <1>1, <1>4, <1>5, <2>1, RawGrows, ScanIs
  <2>4. p + i = scanned + 1
    BY <1>3, <1>5, <1>8
  <2>5. scanned + 1 - Len(q) + 1 = p
    BY <1>3, <1>5, <2>3
  <2> QED
    BY <1>2, <1>3, <1>4, <1>5, <1>6, <1>7, <1>8, <2>2, <2>3, <2>4, <2>5
<1>9. CASE i # Len(queue)
  <2>1. queue' = queue /\ scanned' = scanned /\ Behind = queue[i + 1]
    BY <1>2, <1>9 DEF Tokens, Behind
  <2>2. i + 1 \in 1 .. Len(queue) /\ scanned - Len(queue) + (i + 1) = p + i
    BY <1>3, <1>5, <1>9
  <2>3. queue[i + 1] = ScannedToken(p + i)
    BY <1>4, <2>2 DEF Raw
  <2>4. p + i <= Len(source)
    BY <1>3, <1>5, <1>6, <2>1, <2>2
  <2> QED
    BY <1>2, <1>3, <1>4, <1>5, <1>7, <2>1, <2>3, <2>4
<1> QED
  BY <1>8, <1>9

-----------------------------------------------------------------------------
LEMMA AheadSpells ==
  ASSUME Lexing, Lexing', Spelling, Ahead
  PROVE  Spelling'
<1>1. PICK p : p = scanned - Len(queue) + 1
  OBVIOUS
<1>2. Round /\ Behind.kind # "end" /\ phase = "ahead"
  BY DEF Ahead, Round
<1>3. /\ Raw(queue', scanned') /\ scanned' - Len(queue') + 1 = p
      /\ p \in 1 .. Len(source) /\ i \in Nat /\ i >= 1
      /\ p + i <= Len(source) /\ Behind = ScannedToken(p + i)
      /\ Tried(best, found, p, i - 1) /\ HasSpelled(text, lastInt, p, i) /\ IsWord(p)
      /\ source' = source /\ pushed' = pushed /\ best' = Longest
  BY <1>1, <1>2, RoundIs
<1>4. p \in Nat /\ Len(source) \in Nat
  BY <1>3, TypesAre
<1>5. Behind.kind = source[p + i].kind /\ Behind.text = <<source[p + i].word>>
  BY <1>3 DEF ScannedToken
<1>6. (Behind.kind = "annotation") <=> Annotated(p + i - 1)
  <2>1. p + i - 1 + 1 = p + i
    BY <1>3, <1>4
  <2> QED
    BY <1>5, <2>1 DEF Annotated
<1>7. PICK f : f = found'
  OBVIOUS
<1>8. Tried(Longest, f, p, i)
  <2>1. f = (Found /\ ~(Behind.kind = "annotation" /\ Longest = i))
    BY <1>7 DEF Ahead
  <2>2. text = TextOf(p, p + i - 1)
    BY <1>3 DEF HasSpelled
  <2> QED
    BY <1>3, <1>4, <1>6, <2>1, <2>2, TriesOneMore
<1>9. PICK t : t = text'
  OBVIOUS
<1>10. PICK l : l = lastInt'
  OBVIOUS
<1>11. PICK j : j = i + 1
  OBVIOUS
<1>12. j - 1 = i /\ p + j - 1 = p + i /\ (j > 1) /\ j \in Nat
  BY <1>3, <1>4, <1>11
<1>13. HasSpelled(t, l, p, j)
  <2>1. text = TextOf(p, p + i - 1) /\ (lastInt <=> i > 1 /\ source[p + i - 1].kind = "integer")
    BY <1>3 DEF HasSpelled
  <2>2. t = text \o (IF lastInt \/ Behind.kind = "annotation" THEN <<>> ELSE <<Blank>>) \o Behind.text
    BY <1>9 DEF Ahead
  <2>3. TextOf(p, p + i) =
           TextOf(p, p + i - 1)
             \o (IF source[p + i].kind = "annotation" \/ (i > 1 /\ source[p + i - 1].kind = "integer")
                 THEN <<>> ELSE <<Blank>>)
             \o <<source[p + i].word>>
    BY <1>3, <1>4, TextOfMore
  <2>4. t = TextOf(p, p + i)
    BY <1>5, <2>1, <2>2, <2>3
  <2>5. l <=> source[p + i].kind = "integer"
    BY <1>5, <1>10 DEF Ahead
  <2> QED
    BY <1>12, <2>4, <2>5 DEF HasSpelled
<1>14. PICK q : q = queue'
  OBVIOUS
<1>15. PICK n : n = scanned'
  OBVIOUS
<1>16. PICK b : b = Longest
  OBVIOUS
<1>17. Right("ahead", q, n, j, t, l, b, f)
  BY <1>3, <1>8, <1>12, <1>13, <1>14, <1>15, <1>16 DEF Right
<1>18. phase' = "ahead" /\ i' = j
  BY <1>2, <1>11 DEF Ahead
<1>19. AllRight(pushed)
  BY StateIs
<1> QED
  BY <1>3, <1>7, <1>9, <1>10, <1>14, <1>15, <1>16, <1>17, <1>18, <1>19, SpellingStays

LEMMA AheadAtEndSpells ==
  ASSUME Lexing, Lexing', Spelling, AheadAtEnd
  PROVE  Spelling'
<1>1. PICK p : p = scanned - Len(queue) + 1
  OBVIOUS
<1>2. Round /\ Behind.kind = "end" /\ found' = Found /\ phase' = "merge"
      /\ i' = i /\ text' = text /\ lastInt' = lastInt
  BY DEF AheadAtEnd
<1>3. /\ Raw(queue', scanned') /\ scanned' - Len(queue') + 1 = p
      /\ p \in 1 .. Len(source) /\ i \in Nat /\ i >= 1
      /\ p + i <= Len(source) /\ Behind = ScannedToken(p + i)
      /\ Tried(best, found, p, i - 1) /\ HasSpelled(text, lastInt, p, i) /\ IsWord(p)
      /\ source' = source /\ pushed' = pushed /\ best' = Longest
  BY <1>1, <1>2, RoundIs
<1>4. p \in Nat /\ Len(source) \in Nat /\ source \in Sources
  BY <1>3, TypesAre
<1>5. source[p + i].kind = "end"
  BY <1>2, <1>3, ScannedTokenIs
<1>6. p + i = Len(source)
  <2>1. p + i \in 1 .. Len(source)
    BY <1>3, <1>4
  <2> QED
    BY <1>4, <1>5, <2>1, FileFacts
<1>7. ~Annotated(p + i - 1)
  <2>1. p + i - 1 + 1 = p + i
    BY <1>3, <1>4
  <2> QED
    BY <1>5, <2>1 DEF Annotated
<1>8. PICK f : f = found'
  OBVIOUS
<1>9. Tried(Longest, f, p, Len(source) - p)
  <2>1. Len(source) - p = i
    BY <1>3, <1>4, <1>6
  <2>2. text = TextOf(p, p + i - 1)
    BY <1>3 DEF HasSpelled
  <2>3. Tried(Longest, Found, p, i)
    BY <1>3, <1>4, <1>7, <2>2, TriesOneMore
  <2> QED
    BY <1>2, <1>8, <2>1, <2>3
<1>10. PICK q : q = queue'
  OBVIOUS
<1>11. PICK n : n = scanned'
  OBVIOUS
<1>12. PICK b : b = Longest
  OBVIOUS
<1>13. Right("merge", q, n, i, text, lastInt, b, f)
  BY <1>3, <1>9, <1>10, <1>11, <1>12 DEF Right
<1>14. AllRight(pushed)
  BY StateIs
<1> QED
  BY <1>2, <1>3, <1>8, <1>10, <1>11, <1>12, <1>13, <1>14, SpellingStays

\* Beyond the longest command there is nothing to find.
LEMMA AheadEndsSpells ==
  ASSUME Lexing, Spelling, AheadEnds
  PROVE  Spelling'
<1>1. PICK p : p = scanned - Len(queue) + 1
  OBVIOUS
<1>2. phase = "ahead" /\ Len(text) > LongestCommandLength
      /\ phase' = "merge" /\ source' = source /\ scanned' = scanned /\ queue' = queue /\ i' = i
      /\ text' = text /\ lastInt' = lastInt /\ best' = best /\ found' = found /\ pushed' = pushed
  BY DEF AheadEnds, lookahead
<1>3. Raw(queue, scanned) /\ IsWord(p) /\ Tried(best, found, p, i - 1) /\ HasSpelled(text, lastInt, p, i)
  BY <1>1, <1>2, StateIs DEF Right
<1>4. i \in 1 .. Len(queue) /\ Len(queue) \in Nat /\ scanned \in Nat /\ Len(source) \in Nat
      /\ scanned <= Len(source) /\ source \in Sources /\ \A k \in 1 .. i : queue[k].kind # "end"
  BY <1>2, TypesAre DEF Lexing, InPhase
<1>5. p \in 1 .. Len(source) /\ p + i - 1 <= Len(source) /\ p + i - 1 \in 1 .. Len(source)
  BY <1>1, <1>3, <1>4 DEF Raw
<1>6. queue[i] = ScannedToken(p + i - 1)
  <2>1. scanned - Len(queue) + i = p + i - 1
    BY <1>1, <1>4
  <2> QED
    BY <1>3, <1>4, <2>1 DEF Raw
<1>7. p + i - 1 < Len(source)
  <2>1. source[p + i - 1].kind # "end"
    BY <1>4, <1>6, ScannedTokenIs
  <2> QED
    BY <1>4, <1>5, <2>1, FileFacts
<1>8. ASSUME NEW k \in 1 .. Len(source) - p, k > best
      PROVE  TextOf(p, p + k - 1) \notin Commands
  <2>1. CASE k <= i - 1
    <3>1. k \in 1 .. i - 1
      BY <1>4, <2>1
    <3> QED
      BY <1>3, <1>8, <3>1 DEF Tried
  <2>2. CASE ~(k <= i - 1)
    <3>1. k - 1 \in Nat /\ i - 1 \in 0 .. k - 1 /\ p + (k - 1) = p + k - 1 /\ p + (i - 1) = p + i - 1
          /\ p + (k - 1) <= Len(source)
      BY <1>4, <1>5, <2>2
    <3>2. Len(TextOf(p, p + (i - 1))) <= Len(TextOf(p, p + (k - 1)))
      BY <1>4, <1>5, <3>1, TextsLengthen
    <3>3. Len(TextOf(p, p + k - 1)) \in Nat /\ Len(TextOf(p, p + i - 1)) \in Nat
      <4>1. i - 1 \in Nat /\ p + (i - 1) <= Len(source)
        BY <1>4, <1>5
      <4>2. TextOf(p, p + (k - 1)) \in Seq(Words) /\ TextOf(p, p + (i - 1)) \in Seq(Words)
        BY <1>4, <1>5, <3>1, <4>1, TextTyped
      <4> QED
        BY <3>1, <4>2
    <3>4. Len(TextOf(p, p + i - 1)) > LongestCommandLength
      BY <1>2, <1>3 DEF HasSpelled
    <3>5. LongestCommandLength \in Nat /\ \A c \in Commands : Len(c) <= LongestCommandLength
      BY LongestIs
    <3>6. ~(Len(TextOf(p, p + k - 1)) <= LongestCommandLength)
      BY <3>1, <3>2, <3>3, <3>4, <3>5
    <3> QED
      BY <3>5, <3>6
  <2> QED
    BY <2>1, <2>2
<1>9. Tried(best, found, p, Len(source) - p)
  <2>1. best \in 0 .. Len(source) - p
    <3>1. best \in 0 .. i - 1
      BY <1>3 DEF Tried
    <3> QED
      BY <1>4, <1>5, <1>7, <3>1
  <2> QED
    BY <1>3, <1>8, <2>1 DEF Tried
<1>10. Right("merge", queue, scanned, i, text, lastInt, best, found)
  BY <1>1, <1>3, <1>9 DEF Right
<1>11. AllRight(pushed)
  BY StateIs
<1> QED
  BY <1>2, <1>10, <1>11, SpellingStays

-----------------------------------------------------------------------------
\* What has been found when all has been tried is what the source says.
LEMMA FoundIsLongest ==
  ASSUME Len(source) \in Nat, NEW p \in 1 .. Len(source), IsWord(p),
         Tried(best, found, p, Len(source) - p)
  PROVE  /\ IsMerged(p) <=> found
         /\ LastOf(p) = IF found THEN p + best - 1 ELSE p
<1>1. best \in 0 .. Len(source) - p /\ p \in Nat
  BY DEF Tried
<1>2. ASSUME NEW k \in Matches(p)
      PROVE  best # 0 /\ k <= p + best - 1
  <2>1. k \in p .. Len(source) - 1 /\ TextOf(p, k) \in Commands
    BY <1>2 DEF Matches
  <2>2. PICK n \in Nat : n = k - p + 1
    BY <1>1, <2>1
  <2>3. n \in 1 .. Len(source) - p /\ p + n - 1 = k
    BY <1>1, <2>1, <2>2
  <2>4. ~(n > best)
    BY <2>1, <2>3 DEF Tried
  <2> QED
    BY <1>1, <2>2, <2>3, <2>4
<1>3. CASE best = 0
  <2>1. Matches(p) = {} /\ ~found
    BY <1>2, <1>3 DEF Tried
  <2> QED
    BY <2>1 DEF IsMerged, LastOf
<1>4. CASE best # 0
  <2>1. PICK m : m = p + best - 1
    OBVIOUS
  <2>2. m \in p .. Len(source) - 1 /\ m \in Nat
    BY <1>1, <1>4, <2>1
  <2>3. m \in Matches(p)
    BY <1>4, <2>1, <2>2 DEF Tried, Matches
  <2>4. \A k \in Matches(p) : k <= m
    BY <1>2, <2>1
  <2>5. \A k \in Matches(p) : k \in Nat
    BY <1>1 DEF Matches
  <2>6. \A k \in Matches(p) : (\A l \in Matches(p) : l <= k) => k = m
    BY <2>2, <2>3, <2>4, <2>5
  <2>7. LongestOf(p) = m
    BY <2>3, <2>4, <2>6 DEF LongestOf
  <2>8. IsMerged(p) <=> found
    BY <1>4, <2>1, <2>3, <2>7 DEF IsMerged, Tried
  <2> QED
    BY <2>1, <2>7, <2>8 DEF LastOf
<1> QED
  BY <1>3, <1>4

LEMMA MergeSpells ==
  ASSUME Lexing, Spelling, Merge
  PROVE  Spelling'
<1>1. PICK X : queue \in Seq(X)
  BY StateIs
<1>2. PICK p : p = scanned - Len(queue) + 1
  OBVIOUS
<1>3. /\ phase = "merge" /\ phase' = "keyword" /\ source' = source /\ scanned' = scanned
      /\ i' = i /\ text' = text /\ lastInt' = lastInt /\ best' = best /\ found' = found
      /\ pushed' = pushed
  BY DEF Merge, lookahead
<1>4. Raw(queue, scanned) /\ IsWord(p) /\ Tried(best, found, p, Len(source) - p) /\ AllRight(pushed)
  BY <1>2, <1>3, StateIs DEF Right
<1>5. queue # <<>> /\ (found => best \in 1 .. Len(queue))
  BY <1>3 DEF Lexing, InPhase
<1>6. /\ p \in 1 .. Len(source) /\ Head(queue) = ScannedToken(p)
      /\ Head(queue).kind = source[p].kind /\ Head(queue).text = <<source[p].word>>
      /\ Head(queue).from = p /\ Head(queue).to = p
  BY <1>2, <1>4, <1>5, RawHead
<1>7. Len(source) \in Nat /\ scanned \in Nat /\ p \in Nat /\ Len(queue) \in Nat
  BY <1>6, TypesAre
<1>8. /\ IsMerged(p) <=> found
      /\ LastOf(p) = IF found THEN p + best - 1 ELSE p
  BY <1>4, <1>6, <1>7, FoundIsLongest
<1>9. CASE found
  <2>1. PICK t : t = [kind |-> "command", text |-> Spelled(queue, best),
                      from |-> Head(queue).from, to |-> queue[best].to]
    OBVIOUS
  <2>2. PICK rest : rest = SubSeq(queue, best + 1, Len(queue))
    OBVIOUS
  <2>3. PICK q : q = <<t>> \o rest
    OBVIOUS
  <2>4. queue' = q
    BY <1>9, <2>1, <2>2, <2>3 DEF Merge, Unmerged
  <2>5. best \in 1 .. Len(queue)
    BY <1>5, <1>9
  <2>6. Raw(rest, scanned)
    BY <1>1, <1>4, <1>7, <2>2, <2>5, RawRest
  <2>7. rest \in Seq(X) /\ Len(rest) = Len(queue) - best
    BY <1>1, <2>2, <2>5
  <2>8. Tail(q) = rest /\ Head(q) = t /\ Len(q) = Len(queue) - best + 1
    <3>1. PICK Y : rest \in Seq(Y) /\ t \in Y
      <4>1. X \subseteq X \cup {t}
        OBVIOUS
      <4>2. rest \in Seq(X \cup {t})
        BY <2>7, <4>1, SeqMonotonic
      <4> QED
        BY <4>2
    <3> QED
      BY <2>3, <2>7, <3>1
  <2>9. queue[best] = ScannedToken(p + best - 1)
    <3>1. scanned - Len(queue) + best = p + best - 1
      BY <1>2, <1>7, <2>5
    <3> QED
      BY <1>4, <2>5, <3>1 DEF Raw
  <2>10. PICK x : x = scanned - Len(q) + 1
    OBVIOUS
  <2>11. x = p + best - 1
    BY <1>2, <1>7, <2>5, <2>8, <2>10
  <2>12. t.from = p /\ t.to = x /\ t.kind = "command" /\ t.text = Spelled(queue, best)
    BY <1>6, <2>1, <2>9, <2>11, ScannedTokenIs
  <2>13. t.text = TextOf(p, x)
    BY <1>1, <1>2, <1>4, <1>7, <2>5, <2>11, <2>12, RawSpells
  <2>14. IsMatched(t, x)
    BY <1>4, <1>6, <1>8, <1>9, <2>11, <2>12, <2>13 DEF IsMatched
  <2>15. Right("keyword", q, scanned, i, text, lastInt, best, found)
    BY <2>6, <2>8, <2>10, <2>14 DEF Right
  <2> QED
    BY <1>3, <1>4, <2>4, <2>15, SpellingStays
<1>10. CASE ~found
  <2>1. queue' = queue
    BY <1>10 DEF Merge
  <2>2. TextOf(p, p) = <<source[p].word>>
    BY <1>7, TextOfOne
  <2>3. PICK h : h = Head(queue)
    OBVIOUS
  <2>4. IsMatched(h, p)
    BY <1>4, <1>6, <1>8, <1>10, <2>2, <2>3 DEF IsMatched
  <2>5. Raw(Tail(queue), scanned)
    BY <1>1, <1>4, <1>5, <1>7, RawTail
  <2>6. Right("keyword", queue, scanned, i, text, lastInt, best, found)
    BY <1>2, <2>3, <2>4, <2>5 DEF Right
  <2> QED
    BY <1>3, <1>4, <2>1, <2>6, SpellingStays
<1> QED
  BY <1>9, <1>10

-----------------------------------------------------------------------------
\* The token behind the head decides with the text whether it is a keyword.
LEMMA LookedUp ==
  ASSUME NEW t, NEW p, IsMatched(t, p)
  PROVE  /\ t.kind = "integer" => IsRight(t)
         /\ t.kind \in {"symbol", "command"} =>
              (IsKeyword(t.from) <=> t.text \in Keywords /\ ~Annotated(p))
         /\ ~IsKeyword(t.from) => IsRight(t)
<1>1. /\ t.to = LastOf(t.from) /\ t.to = p /\ t.text = TextOf(t.from, p) /\ IsWord(t.from)
      /\ t.kind = IF IsMerged(t.from) THEN "command" ELSE source[t.from].kind
  BY DEF IsMatched
<1>2. ~IsKeyword(t.from) => IsRight(t)
  BY <1>1 DEF IsRight, KindOf
<1>3. t.kind = "integer" => ~IsKeyword(t.from)
  BY <1>1 DEF IsKeyword
<1>4. t.kind \in {"symbol", "command"} => IsMerged(t.from) \/ source[t.from].kind = "symbol"
  BY <1>1 DEF IsWord
<1> QED
  BY <1>1, <1>2, <1>3, <1>4 DEF IsKeyword

LEMMA TailIs ==
  ASSUME NEW X, NEW q \in Seq(X), q # <<>>
  PROVE  /\ Len(q) \in Nat /\ Len(q) >= 1 /\ Head(q) = q[1]
         /\ Tail(q) \in Seq(X) /\ Len(Tail(q)) = Len(q) - 1
         /\ \A k \in 1 .. Len(q) - 1 : Tail(q)[k] = q[k + 1]
OBVIOUS

LEMMA AppendIs ==
  ASSUME NEW X, NEW q \in Seq(X), NEW u
  PROVE  /\ Append(q, u) \in Seq(X \cup {u}) /\ Len(Append(q, u)) = Len(q) + 1
         /\ \A k \in 1 .. Len(q) : Append(q, u)[k] = q[k]
         /\ Append(q, u)[Len(q) + 1] = u
<1>1. PICK Y : Y = X \cup {u}
  OBVIOUS
<1>2. q \in Seq(Y) /\ u \in Y
  BY <1>1, SeqMonotonic
<1>3. Append(q, u) \in Seq(Y) /\ Len(Append(q, u)) = Len(q) + 1
  BY <1>2
<1> QED
  BY <1>1, <1>2, <1>3

LEMMA KeywordSpells ==
  ASSUME Lexing, Spelling, Keyword
  PROVE  Spelling'
<1>1. PICK X : queue \in Seq(X)
  BY StateIs
<1>2. PICK p : p = scanned - Len(queue) + 1
  OBVIOUS
<1>3. PICK head : head = Head(queue)
  OBVIOUS
<1>4. /\ phase = "keyword" /\ phase' = "push" /\ source' = source
      /\ i' = i /\ text' = text /\ lastInt' = lastInt /\ best' = best /\ found' = found
      /\ pushed' = pushed
  BY DEF Keyword, lookahead
<1>5. Raw(Tail(queue), scanned) /\ IsMatched(head, p) /\ AllRight(pushed) /\ queue # <<>>
  BY <1>2, <1>3, <1>4, StateIs DEF Right, Lexing, InPhase
<1>6. Len(queue) \in Nat /\ Len(queue) >= 1 /\ scanned \in Nat
  BY <1>1, <1>5, TypesAre
<1>7. CASE head.kind = "integer"
  <2>1. queue' = queue /\ scanned' = scanned
    BY <1>3, <1>7 DEF Keyword
  <2>2. IsRight(head)
    BY <1>5, <1>7, LookedUp
  <2>3. Right("push", queue, scanned, i, text, lastInt, best, found)
    BY <1>3, <1>5, <2>2 DEF Right
  <2> QED
    BY <1>4, <1>5, <2>1, <2>3, SpellingStays
<1>8. CASE head.kind \in {"symbol", "command"}
  <2>1. PICK tokens : tokens = IF Len(queue) < 2 THEN Scan(queue) ELSE queue
    OBVIOUS
  <2>2. PICK n : n = IF Len(queue) < 2 THEN scanned + 1 ELSE scanned
    OBVIOUS
  <2>3. scanned' = n
    BY <1>3, <1>8, <2>2 DEF Keyword
  <2>4. /\ \E Y : tokens \in Seq(Y)
        /\ Len(tokens) >= 2 /\ tokens[1] = head /\ tokens[2] = ScannedToken(p + 1)
        /\ Raw(Tail(tokens), n)
    <3>1. CASE Len(queue) < 2
      <4>0. PICK m \in Nat : m = Len(queue)
        BY <1>6
      <4>1. m = 1 /\ Len(queue) = 1 /\ p = scanned
        <5>1. m >= 1 /\ m < 2
          BY <1>6, <3>1, <4>0
        <5>2. m = 1
          BY <5>1
        <5>3. p = scanned - 1 + 1
          BY <1>2, <4>0, <5>2
        <5> QED
          BY <1>6, <4>0, <5>2, <5>3
      <4>2. queue[1] = head
        BY <1>1, <1>3, <1>5, TailIs
      <4>3. PICK u : u = ScannedToken(scanned + 1)
        OBVIOUS
      <4>4. tokens = Append(queue, u) /\ n = scanned + 1
        BY <2>1, <2>2, <3>1, <4>3 DEF Scan
      <4>5. /\ tokens \in Seq(X \cup {u}) /\ Len(tokens) = 1 + 1
            /\ \A k \in 1 .. 1 : tokens[k] = queue[k]
            /\ tokens[1 + 1] = u
        <5>1. /\ Append(queue, u) \in Seq(X \cup {u}) /\ Len(Append(queue, u)) = Len(queue) + 1
              /\ \A k \in 1 .. Len(queue) : Append(queue, u)[k] = queue[k]
              /\ Append(queue, u)[Len(queue) + 1] = u
          BY <1>1, AppendIs
        <5> QED
          BY <4>1, <4>4, <5>1, Zenon
      <4>6. Len(tokens) = 2 /\ tokens[1] = head /\ tokens[2] = u /\ tokens # <<>>
        BY <4>2, <4>5
      <4>7. PICK r : r = Tail(tokens)
        OBVIOUS
      <4>8. Len(r) = 1 /\ r[1] = u
        <5>1. Len(r) = Len(tokens) - 1 /\ \A k \in 1 .. Len(tokens) - 1 : r[k] = tokens[k + 1]
          BY <4>5, <4>6, <4>7, TailIs
        <5> QED
          BY <4>6, <5>1
      <4>9. Raw(r, n)
        <5>1. \A k \in 1 .. 1 : k = 1
          OBVIOUS
        <5>2. n - 1 + 1 = scanned + 1 /\ 1 <= n
          BY <1>6, <4>4
        <5> QED
          BY <4>3, <4>8, <5>1, <5>2 DEF Raw
      <4> QED
        BY <4>1, <4>3, <4>5, <4>6, <4>7, <4>9
    <3>2. CASE ~(Len(queue) < 2)
      <4>1. tokens = queue /\ n = scanned /\ Len(queue) >= 2 /\ queue[1] = head
        BY <1>1, <1>3, <1>5, <1>6, <2>1, <2>2, <3>2
      <4>2. PICK r : r = Tail(queue)
        OBVIOUS
      <4>3. Len(r) = Len(queue) - 1 /\ r[1] = queue[2] /\ 1 \in 1 .. Len(r)
        <5>1. Len(r) = Len(queue) - 1 /\ \A k \in 1 .. Len(queue) - 1 : r[k] = queue[k + 1]
          BY <1>1, <1>5, <4>2, TailIs
        <5> QED
          BY <1>6, <4>1, <5>1
      <4>4. scanned - Len(r) + 1 = p + 1
        BY <1>2, <1>6, <4>3
      <4>5. r[1] = ScannedToken(p + 1)
        BY <1>5, <4>2, <4>3, <4>4 DEF Raw
      <4> QED
        BY <1>1, <1>5, <4>1, <4>3, <4>5
    <3> QED
      BY <3>1, <3>2
  <2>5. (tokens[2].kind = "annotation") <=> Annotated(p)
    BY <2>4, ScannedTokenIs DEF Annotated
  <2>6. IsKeyword(head.from) <=> head.text \in Keywords /\ tokens[2].kind # "annotation"
    BY <1>5, <1>8, <2>5, LookedUp
  <2>7. CASE IsKeyword(head.from)
    <3>1. PICK t : t = [head EXCEPT !.kind = "keyword"]
      OBVIOUS
    <3>2. PICK q : q = <<t>> \o Tail(tokens)
      OBVIOUS
    <3>3. queue' = q
      BY <1>3, <1>8, <2>1, <2>6, <2>7, <3>1, <3>2 DEF Keyword
    <3>4. Head(q) = t /\ Tail(q) = Tail(tokens)
      <4>1. PICK Y : tokens \in Seq(Y)
        BY <2>4
      <4>2. tokens \in Seq(Y \cup {t}) /\ tokens # <<>>
        BY <2>4, <4>1, SeqMonotonic
      <4>3. PICK Z : Z = Y \cup {t}
        OBVIOUS
      <4>4. PICK r \in Seq(Z) : r = Tail(tokens)
        BY <4>2, <4>3, TailIs
      <4>5. t \in Z
        BY <4>3
      <4>6. Head(<<t>> \o r) = t /\ Tail(<<t>> \o r) = r
        BY <4>5
      <4> QED
        BY <3>2, <4>4, <4>6
    <3>5. IsRight(t)
      <4>1. PICK Y : queue \in Seq(TokenOf(Y))
        BY DEF Lexing
      <4>2. head \in TokenOf(Y)
        BY <1>3, <1>5, <4>1
      <4>3. t.kind = "keyword" /\ t.from = head.from /\ t.to = head.to
        BY <3>1, <4>2 DEF TokenOf
      <4> QED
        BY <1>5, <2>7, <4>3 DEF IsRight, IsMatched, KindOf
    <3>6. Right("push", q, n, i, text, lastInt, best, found)
      BY <2>4, <3>4, <3>5 DEF Right
    <3> QED
      BY <1>4, <1>5, <2>3, <3>3, <3>6, SpellingStays
  <2>8. CASE ~IsKeyword(head.from)
    <3>1. queue' = tokens
      BY <1>3, <1>8, <2>1, <2>6, <2>8 DEF Keyword
    <3>2. IsRight(head)
      BY <1>5, <2>8, LookedUp
    <3>3. Head(tokens) = head
      BY <2>4
    <3>4. Right("push", tokens, n, i, text, lastInt, best, found)
      BY <2>4, <3>2, <3>3 DEF Right
    <3> QED
      BY <1>4, <1>5, <2>3, <3>1, <3>4, SpellingStays
  <2> QED
    BY <2>7, <2>8
<1>9. head.kind = "integer" \/ head.kind \in {"symbol", "command"}
  BY <1>3 DEF Keyword
<1> QED
  BY <1>7, <1>8, <1>9

-----------------------------------------------------------------------------
LEMMA PushTokenSpells ==
  ASSUME Lexing, Spelling, PushToken
  PROVE  Spelling'
<1>1. /\ phase = "push" /\ phase' \in {"head", "cleanup"} /\ source' = source /\ scanned' = scanned
      /\ i' = i /\ text' = text /\ lastInt' = lastInt /\ best' = best /\ found' = found
      /\ pushed' = Append(pushed, Head(queue)) /\ queue' = Tail(queue)
  BY DEF PushToken, lookahead
<1>2. Raw(Tail(queue), scanned) /\ IsRight(Head(queue)) /\ AllRight(pushed)
  BY <1>1, StateIs DEF Right
<1>3. PICK q : q = Tail(queue)
  OBVIOUS
<1>4. PICK out : out = Append(pushed, Head(queue))
  OBVIOUS
<1>5. AllRight(out)
  <2>1. PICK X : pushed \in Seq(X)
    BY DEF Lexing
  <2>2. PICK h : h = Head(queue)
    OBVIOUS
  <2>3. pushed \in Seq(X \cup {h})
    BY <2>1, SeqMonotonic
  <2>4. /\ DOMAIN out = 1 .. Len(pushed) + 1 /\ out[Len(pushed) + 1] = h
        /\ \A k \in 1 .. Len(pushed) : out[k] = pushed[k]
    BY <1>4, <2>2, <2>3
  <2>5. Len(pushed) \in Nat /\ DOMAIN pushed = 1 .. Len(pushed)
    BY <2>1
  <2>6. \A k \in 1 .. Len(pushed) + 1 : k \in 1 .. Len(pushed) \/ k = Len(pushed) + 1
    BY <2>5
  <2> QED
    BY <1>2, <2>2, <2>4, <2>5, <2>6 DEF AllRight
<1>6. PICK ph : ph = phase'
  OBVIOUS
<1>7. Right(ph, q, scanned, i, text, lastInt, best, found)
  BY <1>1, <1>2, <1>3, <1>6 DEF Right
<1> QED
  BY <1>1, <1>3, <1>4, <1>5, <1>6, <1>7, SpellingStays

LEMMA CleanUpSpells ==
  ASSUME Lexing, Spelling, CleanUp
  PROVE  Spelling'
<1>1. /\ phase' = "done" /\ source' = source /\ scanned' = scanned /\ queue' = <<>>
      /\ i' = i /\ text' = text /\ lastInt' = lastInt /\ best' = best /\ found' = found
      /\ pushed' = pushed
  BY DEF CleanUp, lookahead
<1>2. Right("done", <<>>, scanned, i, text, lastInt, best, found)
  BY DEF Right
<1>3. AllRight(pushed)
  BY StateIs
<1> QED
  BY <1>1, <1>2, <1>3, SpellingStays

LEMMA SpellingStutters == ASSUME Spelling, UNCHANGED vars PROVE Spelling'
<1>1. /\ phase' = phase /\ source' = source /\ scanned' = scanned /\ queue' = queue
      /\ i' = i /\ text' = text /\ lastInt' = lastInt /\ best' = best /\ found' = found
      /\ pushed' = pushed
  BY DEF vars, lookahead
<1>2. Right(phase, queue, scanned, i, text, lastInt, best, found) /\ AllRight(pushed)
  BY DEF Spelling
<1> QED
  BY <1>1, <1>2, SpellingStays

LEMMA SpellingStarts == Init => Spelling
<1> SUFFICES ASSUME Init PROVE Spelling
  OBVIOUS
<1>1. phase = "head" /\ queue = <<>> /\ scanned = 0 /\ pushed = <<>>
  BY DEF Init
<1>2. Raw(<<>>, 0)
  BY DEF Raw
<1>3. Right(phase, queue, scanned, i, text, lastInt, best, found)
  BY <1>1, <1>2 DEF Right
<1>4. AllRight(pushed)
  BY <1>1 DEF AllRight
<1> QED
  BY <1>3, <1>4 DEF Spelling

-----------------------------------------------------------------------------
\* Whatever was scanned ahead for the tokens before, what doParse pushes depends
\* on the source alone: the longest command, if no annotation follows it, as a
\* keyword if it is one that none follows, or else the token that was scanned.
THEOREM PushesAsSpelled == Spec => []PushedAsSpelled
<1>1. Lexing /\ Lexing' /\ Spelling /\ [Next]_vars => Spelling'
  <2> SUFFICES ASSUME Lexing, Lexing', Spelling, [Next]_vars PROVE Spelling'
    OBVIOUS
  <2>1. CASE ScanHead
    BY <2>1, ScanHeadSpells
  <2>2. CASE StartAhead
    BY <2>2, StartAheadSpells
  <2>3. CASE Ahead
    BY <2>3, AheadSpells
  <2>4. CASE AheadAtEnd
    BY <2>4, AheadAtEndSpells
  <2>5. CASE AheadEnds
    BY <2>5, AheadEndsSpells
  <2>6. CASE Merge
    BY <2>6, MergeSpells
  <2>7. CASE Keyword
    BY <2>7, KeywordSpells
  <2>8. CASE PushToken
    BY <2>8, PushTokenSpells
  <2>9. CASE CleanUp
    BY <2>9, CleanUpSpells
  <2>10. CASE UNCHANGED vars
    BY <2>10, SpellingStutters
  <2> QED
    BY <2>1, <2>2, <2>3, <2>4, <2>5, <2>6, <2>7, <2>8, <2>9, <2>10 DEF Next
<1>2. Spelling => PushedAsSpelled
  <2> SUFFICES ASSUME Spelling PROVE PushedAsSpelled
    OBVIOUS
  <2>1. \A n \in DOMAIN pushed : IsRight(pushed[n])
    BY DEF Spelling, AllRight
  <2> QED
    BY <2>1, RightIsPushed, Zenon DEF PushedAsSpelled
<1> QED
  BY <1>1, <1>2, SpellingStarts, LexingHolds, PTL DEF Spec
=============================================================================
