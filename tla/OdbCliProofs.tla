--------------------------- MODULE OdbCliProofs ----------------------------
(***************************************************************************)
(* Theorems about ArgDispatch, the parser of the command line, for every   *)
(* table that argdefgen generates and every command line, and about        *)
(* OdbCli, what odbc's handlers do in it.  Dispatching is the inductive    *)
(* invariant of the parser: it says, one part for each property, what must *)
(* already be true of the handlers that are still queued.  Sessions is     *)
(* that of the handlers: it relates what the session holds to the handlers *)
(* that have run and to those that are queued.  Of ActionTableProofs the   *)
(* lemmas about graphs are used, which are about no table in particular.   *)
(***************************************************************************)
EXTENDS OdbCli, ActionTableProofs

Handlers == [action : DOMAIN actions, args : Nat, place : Nat]
ActionsOf(handlers) == {handlers[k].action : k \in DOMAIN handlers}
Taken == ActionsOf(queue) \cup ActionsOf(ran)
Parsing == status \in {"parse", "implicit", "help"}

Typed ==
  /\ actions \in Tables /\ argv \in Lines(actions) /\ pooled \in BOOLEAN
  /\ pos \in 1 .. Len(argv) + 1
  /\ {list, queue, ran} \subseteq Seq(Handlers)
  /\ status \in {"parse", "implicit", "help", "run", "ok", "failed", "crashed", "overflow"}
  /\ Parsing => queue = <<>> /\ ran = <<>>

\* What is started, or will be, brings its implicit actions along.
Complete(taken) == \A a \in taken : ImplicitBelow(a) \subseteq taken
ImplicitTaken ==
  /\ status = "help" => Complete(ActionsOf(list))
  /\ status # "overflow" => Complete(Taken)

\* Nothing that has run would have had to wait for what is queued, or for what
\* that may still start.
NothingTooEarly ==
  ResultsInTime =>
    \A j \in DOMAIN ran : \A k \in DOMAIN queue :
      \A r \in {queue[k].action} \cup ResultsOf[actions][queue[k].action] :
        ~RunsAfter(ran[j].action, r)

\* The list holds the options of the arguments parsed, and nothing is started
\* without what they require.
GivenBefore(n) == UNION {OptionsOf(argv[k]) : k \in {j \in DOMAIN argv : j < n}}
RequirementsMet ==
  /\ status = "parse" => ActionsOf(list) = GivenBefore(pos)
  /\ status \in {"implicit", "help", "run"} \/ ran # <<>> =>
       \A a \in Given : a \in DOMAIN actions /\ Children(Graph("requires"), a) \subseteq Given

\* Something meaningful has run or is still to run.
MeaningfulTaken ==
  /\ status = "run" /\ helpActionId # 0 =>
       \/ \E k \in DOMAIN queue : Meaningful(queue[k])
       \/ \E k \in DOMAIN ran : Meaningful(ran[k])

AllInRange(handlers) == \A k \in DOMAIN handlers : InRange(handlers[k].action, handlers[k].args)
TakenInRange ==
  NoShort /\ AddedTakeNone => AllInRange(list) /\ AllInRange(queue) /\ AllInRange(ran)

Dispatching ==
  /\ Typed
  /\ ImplicitTaken /\ ImplicitRunFirst
  /\ NothingTooEarly /\ OrderEnforcedInTime
  /\ RequirementsMet
  /\ MeaningfulTaken /\ SomethingMeaningful
  /\ TakenInRange

-----------------------------------------------------------------------------
(* The tables.                                                             *)

Runafter(t) == [a \in DOMAIN t |-> t[a].runafter]
Requires(t) == [a \in DOMAIN t |-> t[a].requires]

LEMMA TablesAreTyped ==
  ASSUME NEW t \in Tables
  PROVE  /\ IsFiniteSet(DOMAIN t) /\ DOMAIN t \subseteq Nat \ {0}
         /\ \A a \in DOMAIN t :
              /\ t[a].runafter \in Seq(DOMAIN t) /\ t[a].requires \in Seq(DOMAIN t)
              /\ t[a].metadeps \in Seq(DOMAIN t)
              /\ t[a].lo \in Nat /\ t[a].hi \in Nat \cup {Unlimited}
              /\ t[a].hi = Unlimited \/ t[a].lo <= t[a].hi
              /\ t[a].meta <=> t[a].metadeps # <<>>
         /\ Acyclic(Runafter(t))
         /\ \A a \in DOMAIN t : t[a].priority = Priorities(Runafter(t))[a]
<1>1. /\ Len(t) \in Nat /\ DOMAIN t = 1 .. Len(t)
      /\ \A a \in DOMAIN t :
              /\ t[a].runafter \in Seq(DOMAIN t) /\ t[a].requires \in Seq(DOMAIN t)
              /\ t[a].metadeps \in Seq(DOMAIN t)
              /\ t[a].lo \in Nat /\ t[a].hi \in Nat \cup {Unlimited}
              /\ t[a].hi = Unlimited \/ t[a].lo <= t[a].hi
              /\ t[a].meta <=> t[a].metadeps # <<>>
  BY TablesAreGenerated
<1>2. Acyclic(Runafter(t)) /\ [a \in DOMAIN t |-> t[a].priority] = Priorities(Runafter(t))
  BY TablesAreGenerated, Zenon DEF Runafter
<1>3. IsFiniteSet(DOMAIN t) /\ DOMAIN t \subseteq Nat \ {0}
  <2>1. PICK n \in Nat : n = Len(t) /\ DOMAIN t = 1 .. n
    BY <1>1
  <2>2. IsFiniteSet(1 .. n)
    BY FS_Interval
  <2>3. 1 .. n \subseteq Nat \ {0}
    OBVIOUS
  <2> QED
    BY <2>1, <2>2, <2>3, Zenon
<1>4. \A a \in DOMAIN t : t[a].priority = Priorities(Runafter(t))[a]
  <2>1. PICK p : p = Priorities(Runafter(t))
    OBVIOUS
  <2>2. [a \in DOMAIN t |-> t[a].priority] = p
    BY <1>2, <2>1
  <2>3. \A a \in DOMAIN t : t[a].priority = p[a]
    BY <2>2
  <2> QED
    BY <2>1, <2>3
<1> QED
  BY <1>1, <1>2, <1>3, <1>4

LEMMA TablesAreGraphs ==
  ASSUME NEW t \in Tables
  PROVE  /\ IsGraph(Runafter(t)) /\ DOMAIN Runafter(t) = DOMAIN t
         /\ IsGraph(Requires(t)) /\ DOMAIN Requires(t) = DOMAIN t
         /\ IsGraph(Started(t)) /\ DOMAIN Started(t) = DOMAIN t
         /\ IsGraph(Followed(t)) /\ DOMAIN Followed(t) = DOMAIN t
<1>1. \A a \in DOMAIN t : t[a].runafter \o t[a].metadeps \in Seq(DOMAIN t)
  BY TablesAreTyped
<1> QED
  BY <1>1, TablesAreTyped DEF IsGraph, Runafter, Requires, Started, Followed

LEMMA FollowedChildren ==
  ASSUME NEW t \in Tables, NEW a \in DOMAIN t
  PROVE  Children(Followed(t), a) = Children(Runafter(t), a) \cup Children(Started(t), a)
<1>1. PICK T : T = DOMAIN t
  OBVIOUS
<1>2. PICK r \in Seq(T) : r = t[a].runafter
  BY <1>1, TablesAreTyped
<1>3. PICK m \in Seq(T) : m = t[a].metadeps
  BY <1>1, TablesAreTyped
<1>4. {(r \o m)[k] : k \in DOMAIN (r \o m)} = {r[k] : k \in DOMAIN r} \cup {m[k] : k \in DOMAIN m}
  <2>1. PICK l \in Nat : l = Len(r) /\ DOMAIN r = 1 .. l
    OBVIOUS
  <2>2. PICK n \in Nat : n = Len(m) /\ DOMAIN m = 1 .. n
    OBVIOUS
  <2>3. PICK s : s = r \o m
    OBVIOUS
  <2>4. /\ DOMAIN s = 1 .. l + n
        /\ \A k \in 1 .. l + n : s[k] = IF k <= l THEN r[k] ELSE m[k - l]
    BY <2>1, <2>2, <2>3
  <2>5. \A k \in 1 .. l : k \in 1 .. l + n /\ s[k] = r[k]
    BY <2>4
  <2>6. \A k \in 1 .. n : k + l \in 1 .. l + n /\ s[k + l] = m[k]
    BY <2>4
  <2>7. \A k \in 1 .. l + n : k \in 1 .. l \/ (k - l \in 1 .. n /\ s[k] = m[k - l])
    BY <2>4
  <2>8. {s[k] : k \in DOMAIN s} = {r[k] : k \in DOMAIN r} \cup {m[k] : k \in DOMAIN m}
    <3>1. \A x : (\E k \in 1 .. l + n : x = s[k]) => (\E k \in 1 .. l : x = r[k]) \/ (\E k \in 1 .. n : x = m[k])
      BY <2>4, <2>7
    <3>2. \A x : (\E k \in 1 .. l : x = r[k]) => \E k \in 1 .. l + n : x = s[k]
      BY <2>5
    <3>3. \A x : (\E k \in 1 .. n : x = m[k]) => \E k \in 1 .. l + n : x = s[k]
      BY <2>6
    <3>4. DOMAIN s = 1 .. l + n
      BY <2>4
    <3>5. \A x : x \in {s[k] : k \in DOMAIN s} <=> \E k \in 1 .. l + n : x = s[k]
      BY ONLY <3>4
    <3>6. \A x : x \in {r[k] : k \in DOMAIN r} <=> \E k \in 1 .. l : x = r[k]
      BY ONLY <2>1
    <3>7. \A x : x \in {m[k] : k \in DOMAIN m} <=> \E k \in 1 .. n : x = m[k]
      BY ONLY <2>2
    <3> QED
      BY ONLY <3>1, <3>2, <3>3, <3>5, <3>6, <3>7
  <2> QED
    BY <2>3, <2>8
<1>5. /\ Children(Followed(t), a) = {(r \o m)[k] : k \in DOMAIN (r \o m)}
      /\ Children(Runafter(t), a) = {r[k] : k \in DOMAIN r}
      /\ Children(Started(t), a) = {m[k] : k \in DOMAIN m}
  <2>1. Followed(t)[a] = r \o m /\ Runafter(t)[a] = r /\ Started(t)[a] = m
    BY <1>2, <1>3 DEF Followed, Runafter, Started
  <2> QED
    BY <2>1, Zenon DEF Children
<1> QED
  BY <1>4, <1>5, Zenon

\* What leads where in a table.
LEMMA TableFacts ==
  ASSUME NEW t \in Tables, NEW a \in DOMAIN t
  PROVE  /\ t[a].priority \in Nat
         /\ Before[t][a] \subseteq DOMAIN t
         /\ \A b \in Before[t][a] : t[b].priority < t[a].priority
         /\ Before[t][a] \subseteq ReachedBy[t][a]
         /\ ReachedBy[t][a] \subseteq DOMAIN t
         /\ \A b \in ReachedBy[t][a] : ReachedBy[t][b] \subseteq ReachedBy[t][a]
         /\ ResultsOf[t][a] \subseteq DOMAIN t
         /\ \A b \in ResultsOf[t][a] : ResultsOf[t][b] \subseteq ResultsOf[t][a]
         /\ Children(Started(t), a) \subseteq ResultsOf[t][a]
         /\ Children(Started(t), a) \subseteq ReachedBy[t][a]
<1>1. PICK r, f, s : r = Runafter(t) /\ f = Followed(t) /\ s = Started(t)
  OBVIOUS
<1>2. /\ IsGraph(r) /\ DOMAIN r = DOMAIN t /\ IsGraph(f) /\ DOMAIN f = DOMAIN t
      /\ IsGraph(s) /\ DOMAIN s = DOMAIN t
  BY <1>1, TablesAreGraphs
<1>3. Before[t] = Reached(r) /\ ReachedBy[t] = Reached(f) /\ ResultsOf[t] = Reached(s)
  BY <1>1 DEF Before, Runafter, ReachedBy, ResultsOf
<1>4. \A b \in DOMAIN t : Children(f, b) = Children(r, b) \cup Children(s, b)
  BY <1>1, FollowedChildren
<1>5. Reached(r)[a] \subseteq Reached(f)[a]
  BY <1>2, <1>4, ReachedIsMonotone
<1>6. Acyclic(r) /\ \A b \in DOMAIN t : t[b].priority = Priorities(r)[b]
  BY <1>1, TablesAreTyped
<1>7. /\ Priorities(r)[a] \in Nat
      /\ \A b \in Reached(r)[a] : Priorities(r)[b] < Priorities(r)[a]
  BY <1>2, <1>6, PrioritiesAscend
<1>8. Reached(r)[a] \subseteq DOMAIN t /\ Reached(f)[a] \subseteq DOMAIN t /\ Reached(s)[a] \subseteq DOMAIN t
  BY <1>2, ReachedIsClosed
<1>9. Children(s, a) \subseteq Reached(s)[a] /\ Children(f, a) \subseteq Reached(f)[a]
  BY <1>2, ReachedIsClosed
<1>10. /\ \A b \in Reached(f)[a] : Reached(f)[b] \subseteq Reached(f)[a]
       /\ \A b \in Reached(s)[a] : Reached(s)[b] \subseteq Reached(s)[a]
  BY <1>2, ReachedIsTransitive
<1>11. t[a].priority \in Nat /\ \A b \in Reached(r)[a] : t[b].priority < t[a].priority
  BY <1>6, <1>7, <1>8
<1>12. Children(s, a) \subseteq Reached(f)[a]
  BY <1>4, <1>9
<1>13. PICK R, F, S : R = Before[t] /\ F = ReachedBy[t] /\ S = ResultsOf[t]
  OBVIOUS
<1>14. R = Reached(r) /\ F = Reached(f) /\ S = Reached(s)
  BY <1>3, <1>13
<1> QED
  BY <1>1, <1>5, <1>8, <1>9, <1>10, <1>11, <1>12, <1>13, <1>14

-----------------------------------------------------------------------------
(* Lists of handlers.                                                      *)

Removed(p, q, k) ==
  /\ \A j \in DOMAIN p : \E i \in DOMAIN q : i # k /\ p[j] = q[i]
  /\ \A i \in DOMAIN q : i # k => \E j \in DOMAIN p : p[j] = q[i]

\* Where the places behind k come from, among n.
LEMMA BehindTheGap ==
  ASSUME NEW j \in Nat, NEW k \in Nat, NEW n \in Nat, NEW i \in Nat,
         i = j - (k - 1), 1 <= i, j <= n - 1
  PROVE  i + k = j + 1 /\ i \in 1 .. n - k
<1>1. i + k = j + 1
  OBVIOUS
<1>2. i \in 1 .. n - k
  OBVIOUS
<1> QED
  BY <1>1, <1>2

LEMMA RemovedOne ==
  ASSUME NEW Q, NEW q \in Seq(Q), NEW k \in DOMAIN q
  PROVE  RemoveAt(q, k) \in Seq(Q) /\ Removed(RemoveAt(q, k), q, k)
<1>1. PICK n \in Nat : n = Len(q) /\ DOMAIN q = 1 .. n
  OBVIOUS
<1>2. PICK a \in Seq(Q) : a = SubSeq(q, 1, k - 1) /\ Len(a) = k - 1 /\ \A j \in 1 .. k - 1 : a[j] = q[j]
  <2>1. k \in 1 .. n
    BY <1>1
  <2>2. \A j \in 1 .. k - 1 : q[j] \in Q
    BY <1>1
  <2>3. /\ SubSeq(q, 1, k - 1) \in Seq(Q) /\ Len(SubSeq(q, 1, k - 1)) = k - 1
        /\ \A j \in 1 .. k - 1 : SubSeq(q, 1, k - 1)[j] = q[j]
    BY <1>1, <2>1, <2>2
  <2> QED
    BY <2>3
<1>3. PICK b \in Seq(Q) : b = SubSeq(q, k + 1, Len(q)) /\ Len(b) = n - k /\ \A j \in 1 .. n - k : b[j] = q[j + k]
  <2>1. k \in 1 .. n
    BY <1>1
  <2>2. \A j \in k + 1 .. n : q[j] \in Q
    BY <1>1
  <2>3. /\ SubSeq(q, k + 1, n) \in Seq(Q) /\ Len(SubSeq(q, k + 1, n)) = n - k
        /\ \A j \in 1 .. n - k : SubSeq(q, k + 1, n)[j] = q[j + k]
    BY <1>1, <2>1, <2>2
  <2> QED
    BY <1>1, <2>3
<1>4. PICK p \in Seq(Q) : p = RemoveAt(q, k) /\ p = a \o b
  <2>1. a \o b \in Seq(Q)
    OBVIOUS
  <2> QED
    BY <1>2, <1>3, <2>1, Zenon DEF RemoveAt
<1>5. /\ DOMAIN p = 1 .. n - 1
      /\ \A j \in 1 .. n - 1 : p[j] = IF j <= k - 1 THEN q[j] ELSE q[j + 1]
  <2>1. k \in 1 .. n
    BY <1>1
  <2>2. PICK l, m \in Nat : l = k - 1 /\ m = n - k
    BY <2>1
  <2>3. Len(a) = l /\ Len(b) = m
    BY <1>2, <1>3, <2>2
  <2>4. DOMAIN p = 1 .. l + m /\ \A j \in 1 .. l + m : p[j] = IF j <= l THEN a[j] ELSE b[j - l]
    <3>1. PICK s : s = a \o b
      OBVIOUS
    <3>2. /\ s \in Seq(Q) /\ Len(s) = Len(a) + Len(b)
          /\ \A j \in 1 .. Len(a) + Len(b) : s[j] = IF j <= Len(a) THEN a[j] ELSE b[j - Len(a)]
      BY <3>1, ConcatProperties, Zenon
    <3>3. DOMAIN s = 1 .. Len(a) + Len(b)
      BY <3>2
    <3> QED
      BY <1>4, <2>3, <3>1, <3>2, <3>3, Zenon
  <2>5. l + m = n - 1
    BY <2>1, <2>2
  <2>6. ASSUME NEW j \in 1 .. n - 1
        PROVE  p[j] = IF j <= k - 1 THEN q[j] ELSE q[j + 1]
    <3>1. j \in 1 .. l + m /\ j \in Nat /\ k \in Nat /\ n \in Nat
      BY <1>1, <2>1, <2>5
    <3>2. p[j] = IF j <= l THEN a[j] ELSE b[j - l]
      BY <2>4, <3>1, Zenon
    <3>3. CASE j <= l
      <4>1. j \in 1 .. k - 1
        BY <2>2, <3>1, <3>3
      <4> QED
        BY <1>2, <2>2, <3>2, <3>3, <4>1
    <3>4. CASE ~(j <= l)
      <4>1. PICK i \in Nat : i = j - l
        BY <2>2, <3>1, <3>4
      <4>2. i = j - (k - 1) /\ 1 <= i /\ j <= n - 1
        BY <2>2, <3>1, <3>4, <4>1
      <4>3. /\ j \in Nat /\ k \in Nat /\ n \in Nat /\ i \in Nat
            /\ i = j - (k - 1) /\ 1 <= i /\ j <= n - 1
        BY ONLY <3>1, <4>1, <4>2, Zenon
      <4>4. i + k = j + 1 /\ i \in 1 .. n - k
        BY ONLY <4>3, BehindTheGap
      <4>5. b[i] = q[j + 1]
        BY <1>3, <4>4
      <4> QED
        BY <2>2, <3>2, <3>4, <4>1, <4>5
    <3> QED
      BY <3>3, <3>4
  <2>7. \A j \in 1 .. n - 1 : p[j] = IF j <= k - 1 THEN q[j] ELSE q[j + 1]
    BY <2>6
  <2> QED
    BY <2>4, <2>5, <2>7
<1>6. \A j \in DOMAIN p : \E i \in DOMAIN q : i # k /\ p[j] = q[i]
  <2>1. SUFFICES ASSUME NEW j \in 1 .. n - 1
                 PROVE  \E i \in 1 .. n : i # k /\ p[j] = q[i]
    BY <1>1, <1>5
  <2>2. CASE j <= k - 1
    BY <1>1, <1>5, <2>2
  <2>3. CASE ~(j <= k - 1)
    BY <1>1, <1>5, <2>3
  <2> QED
    BY <2>2, <2>3
<1>7. \A i \in DOMAIN q : i # k => \E j \in DOMAIN p : p[j] = q[i]
  <2>1. SUFFICES ASSUME NEW i \in 1 .. n, i # k
                 PROVE  \E j \in 1 .. n - 1 : p[j] = q[i]
    BY <1>1, <1>5
  <2>2. k \in 1 .. n
    BY <1>1
  <2>3. CASE i < k
    <3>1. PICK m \in 1 .. n - 1 : m = i /\ m <= k - 1
      BY <1>1, <2>2, <2>3
    <3>2. p[m] = q[i]
      BY <1>5, <3>1
    <3> QED
      BY <3>1, <3>2
  <2>4. CASE k < i
    <3>1. PICK m \in 1 .. n - 1 : m = i - 1
      BY <2>2, <2>4
    <3>2. p[m] = q[i]
      BY <1>5, <2>2, <2>4, <3>1
    <3> QED
      BY <3>2
  <2> QED
    BY <2>1, <2>2, <2>3, <2>4
<1>8. Removed(p, q, k)
  BY <1>6, <1>7 DEF Removed
<1> QED
  BY <1>4, <1>8, Zenon

Appended(p, q, x) ==
  /\ \E n \in Nat : /\ DOMAIN q = 1 .. n /\ DOMAIN p = 1 .. n + 1
                   /\ p[n + 1] = x /\ \A j \in 1 .. n : p[j] = q[j]
  /\ \A j \in DOMAIN q : j \in DOMAIN p /\ p[j] = q[j]
  /\ \A j \in DOMAIN p : p[j] = x \/ (j \in DOMAIN q /\ p[j] = q[j])
  /\ \E j \in DOMAIN p : p[j] = x

LEMMA AppendedOne ==
  ASSUME NEW Q, NEW q \in Seq(Q), NEW x \in Q
  PROVE  Append(q, x) \in Seq(Q) /\ Appended(Append(q, x), q, x)
<1>1. PICK n \in Nat : n = Len(q) /\ DOMAIN q = 1 .. n
  OBVIOUS
<1>2. PICK p \in Seq(Q) : p = Append(q, x)
  <2>1. Append(q, x) \in Seq(Q)
    OBVIOUS
  <2> QED
    BY <2>1, Zenon
<1>3. Len(p) = n + 1 /\ DOMAIN p = 1 .. n + 1 /\ \A j \in 1 .. n + 1 : p[j] = IF j <= n THEN q[j] ELSE x
  BY <1>1, <1>2
<1>4. p[n + 1] = x /\ (\A j \in 1 .. n : j \in 1 .. n + 1 /\ p[j] = q[j])
  BY <1>3
<1>5. \A j \in 1 .. n + 1 : j = n + 1 \/ (j \in 1 .. n /\ p[j] = q[j])
  BY <1>3
<1>6. n + 1 \in 1 .. n + 1
  OBVIOUS
<1>7. Appended(p, q, x)
  BY <1>1, <1>3, <1>4, <1>5, <1>6 DEF Appended
<1> QED
  BY <1>2, <1>7, Zenon

Joined(p, q, r) ==
  /\ \A j \in DOMAIN q : j \in DOMAIN p /\ p[j] = q[j]
  /\ \A j \in DOMAIN r : \E i \in DOMAIN p : p[i] = r[j]
  /\ \A j \in DOMAIN p : (j \in DOMAIN q /\ p[j] = q[j]) \/ \E i \in DOMAIN r : p[j] = r[i]

LEMMA Concatenated ==
  ASSUME NEW Q, NEW q \in Seq(Q), NEW r \in Seq(Q)
  PROVE  q \o r \in Seq(Q) /\ Joined(q \o r, q, r)
<1>1. PICK m \in Nat : m = Len(q) /\ DOMAIN q = 1 .. m
  OBVIOUS
<1>2. PICK n \in Nat : n = Len(r) /\ DOMAIN r = 1 .. n
  OBVIOUS
<1>3. q \o r \in Seq(Q)
  OBVIOUS
<1>4. PICK p \in Seq(Q) : p = q \o r
  BY <1>3
<1>5. DOMAIN p = 1 .. m + n /\ \A j \in 1 .. m + n : p[j] = IF j <= m THEN q[j] ELSE r[j - m]
  BY <1>1, <1>2, <1>4
<1>6. \A j \in 1 .. m : j \in 1 .. m + n /\ p[j] = q[j]
  BY <1>5
<1>7. \A j \in 1 .. n : j + m \in 1 .. m + n /\ p[j + m] = r[j]
  BY <1>5
<1>8. \A j \in 1 .. m + n : (j \in 1 .. m /\ p[j] = q[j]) \/ (j - m \in 1 .. n /\ p[j] = r[j - m])
  BY <1>5
<1>9. \A j \in DOMAIN r : \E i \in DOMAIN p : p[i] = r[j]
  BY <1>2, <1>5, <1>7
<1>10. \A j \in DOMAIN p : (j \in DOMAIN q /\ p[j] = q[j]) \/ \E i \in DOMAIN r : p[j] = r[i]
  BY <1>1, <1>2, <1>5, <1>8
<1>11. Joined(p, q, r)
  BY <1>1, <1>5, <1>6, <1>9, <1>10 DEF Joined
<1> QED
  BY <1>4, <1>11, Zenon

LEMMA SetToSeqLists ==
  ASSUME NEW S, IsFiniteSet(S)
  PROVE  /\ SetToSeq(S) \in Seq(S)
         /\ \A x \in S : \E k \in DOMAIN SetToSeq(S) : SetToSeq(S)[k] = x
<1>1. PICK n \in Nat : n = Cardinality(S)
  BY FS_CardinalityType
<1>2. \E f \in [1 .. n -> S] : IsInjective(f)
  <2>1. ExistsBijection(1 .. Cardinality(S), S)
    BY FS_CardinalityType
  <2>2. PICK f \in Bijection(1 .. n, S) : TRUE
    BY <1>1, <2>1 DEF ExistsBijection
  <2> QED
    BY <2>2 DEF Bijection, Injection
<1>3. PICK f \in [1 .. n -> S] : f = SetToSeq(S) /\ IsInjective(f)
  BY <1>1, <1>2, Zenon DEF SetToSeq
<1>4. f \in Seq(S)
  OBVIOUS
<1>5. f \in Surjection(1 .. n, S)
  <2>1. f \in Injection(1 .. n, S)
    BY <1>3, Zenon DEF Injection
  <2>2. Cardinality(1 .. n) = Cardinality(S)
    BY <1>1, FS_Interval
  <2>3. PICK I : I = 1 .. n
    OBVIOUS
  <2> QED
    BY <2>1, <2>2, <2>3, FS_Injection
<1>6. \A x \in S : \E k \in 1 .. n : f[k] = x
  BY <1>5 DEF Surjection
<1> QED
  BY <1>3, <1>4, <1>6

-----------------------------------------------------------------------------
(* What the preparation makes of the list.                                 *)

\* WithImplicit keeps the handlers and adds implicit actions, without arguments,
\* until all that are below a handler are there.
Extended(handlers, more) ==
  /\ more \in Seq(Handlers)
  /\ \A k \in DOMAIN handlers : k \in DOMAIN more /\ more[k] = handlers[k]
  /\ \A k \in DOMAIN more :
       \/ k \in DOMAIN handlers /\ more[k] = handlers[k]
       \/ actions[more[k].action].implicit /\ more[k].args = 0
  /\ Complete(ActionsOf(more))

LEMMA WithImplicitExtends ==
  ASSUME actions \in Tables, NEW handlers \in Seq(Handlers)
  PROVE  Extended(handlers, WithImplicit(handlers))
<1>1. PICK H : H = Handlers
  OBVIOUS
<1>2. PICK below : below = UNION {ImplicitBelow(handlers[k].action) : k \in DOMAIN handlers}
  OBVIOUS
<1>3. PICK S : S = {a \in below : ~actionIsInList(handlers, a)}
  OBVIOUS
<1>4. \A k \in DOMAIN handlers : handlers[k] \in Handlers /\ handlers[k].action \in DOMAIN actions
  <2>1. \A k \in DOMAIN handlers : handlers[k] \in Handlers
    OBVIOUS
  <2>2. \A h \in Handlers : h.action \in DOMAIN actions
    BY DEF Handlers
  <2> QED
    BY <2>1, <2>2, Zenon
<1>5. \A a \in DOMAIN actions : \A b \in ImplicitBelow(a) :
        b \in DOMAIN actions /\ actions[b].implicit /\ ImplicitBelow(b) \subseteq ImplicitBelow(a)
  <2>1. SUFFICES ASSUME NEW a \in DOMAIN actions, NEW b \in ImplicitBelow(a)
                 PROVE  b \in DOMAIN actions /\ actions[b].implicit /\ ImplicitBelow(b) \subseteq ImplicitBelow(a)
    OBVIOUS
  <2>2. ReachedBy[actions][a] \subseteq DOMAIN actions /\ \A c \in ReachedBy[actions][a] : ReachedBy[actions][c] \subseteq ReachedBy[actions][a]
    BY TableFacts
  <2> QED
    BY <2>2 DEF ImplicitBelow
<1>6. S \subseteq DOMAIN actions /\ \A a \in S : actions[a].implicit
  BY <1>2, <1>3, <1>4, <1>5
<1>7. IsFiniteSet(S)
  BY <1>6, TablesAreTyped, FS_Subset
<1>8. PICK added \in Seq(S) : added = SetToSeq(S) /\ \A x \in S : \E k \in DOMAIN added : added[k] = x
  BY <1>7, SetToSeqLists
<1>9. PICK new : new = [k \in DOMAIN added |-> Handler(added[k], 0, Len(handlers) + k)]
  OBVIOUS
<1>10. /\ \A k \in DOMAIN added : new[k] \in H /\ new[k].action = added[k] /\ new[k].args = 0
  <2>1. SUFFICES ASSUME NEW k \in DOMAIN added
                 PROVE  new[k] \in H /\ new[k].action = added[k] /\ new[k].args = 0
    OBVIOUS
  <2>2. added[k] \in DOMAIN actions /\ k \in Nat
    BY <1>6
  <2>3. PICK n \in Nat : n = Len(handlers) + k
    BY <2>2
  <2>4. new[k] = Handler(added[k], 0, n)
    BY <1>9, <2>3
  <2>5. new[k] = [action |-> added[k], args |-> 0, place |-> n]
    BY <2>4, Zenon DEF Handler
  <2> QED
    BY <1>1, <2>2, <2>5 DEF Handlers
<1>11. new \in Seq(H) /\ DOMAIN new = DOMAIN added
  <2>1. PICK n \in Nat : DOMAIN added = 1 .. n
    OBVIOUS
  <2>2. new \in [1 .. n -> H]
    BY <1>9, <1>10, <2>1
  <2> QED
    BY <2>1, <2>2
<1>12. handlers \in Seq(H)
  BY <1>1
<1>13. PICK more \in Seq(H) : more = handlers \o new /\ Joined(more, handlers, new)
  BY <1>11, <1>12, Concatenated, Zenon
<1>14. WithImplicit(handlers) = more
  <2>1. WithImplicit(handlers) = handlers \o [k \in DOMAIN added |-> Handler(added[k], 0, Len(handlers) + k)]
    BY <1>2, <1>3, <1>8, Zenon DEF WithImplicit
  <2> QED
    BY <1>9, <1>13, <2>1, Zenon
<1>15. \A j \in DOMAIN more :
        \/ j \in DOMAIN handlers /\ more[j] = handlers[j]
        \/ more[j].action \in S /\ more[j].args = 0
  BY <1>8, <1>10, <1>11, <1>13 DEF Joined
<1>16. Complete(ActionsOf(more))
  <2>1. SUFFICES ASSUME NEW j \in DOMAIN more, NEW b \in ImplicitBelow(more[j].action)
                 PROVE  \E i \in DOMAIN more : b = more[i].action
    BY DEF Complete, ActionsOf
  <2>2. b \in below
    <3>1. CASE j \in DOMAIN handlers /\ more[j] = handlers[j]
      BY <1>2, <2>1, <3>1
    <3>2. CASE more[j].action \in S
      <4>1. PICK k \in DOMAIN handlers : more[j].action \in ImplicitBelow(handlers[k].action)
        BY <1>2, <1>3, <3>2
      <4>2. b \in ImplicitBelow(handlers[k].action)
        BY <1>4, <1>5, <2>1, <4>1
      <4> QED
        BY <1>2, <4>2
    <3> QED
      BY <1>15, <3>1, <3>2
  <2>3. CASE b \in S
    <3>1. PICK k \in DOMAIN new : new[k].action = b
      BY <1>8, <1>10, <1>11, <2>3
    <3>2. PICK i \in DOMAIN more : more[i] = new[k]
      BY <1>13 DEF Joined
    <3> QED
      BY <3>1, <3>2
  <2>4. CASE b \notin S
    <3>1. PICK k \in DOMAIN handlers : handlers[k].action = b
      BY <1>3, <2>2, <2>4 DEF actionIsInList
    <3> QED
      BY <1>13, <3>1 DEF Joined
  <2> QED
    BY <2>3, <2>4
<1>17. Extended(handlers, more)
  <2>1. \A k \in DOMAIN handlers : k \in DOMAIN more /\ more[k] = handlers[k]
    BY <1>13 DEF Joined
  <2>2. \A k \in DOMAIN more :
          \/ k \in DOMAIN handlers /\ more[k] = handlers[k]
          \/ actions[more[k].action].implicit /\ more[k].args = 0
    BY <1>6, <1>15
  <2> QED
    BY <1>1, <1>16, <2>1, <2>2 DEF Extended
<1> QED
  BY <1>14, <1>17, Zenon

-----------------------------------------------------------------------------
(* The arguments.                                                          *)

LEMMA LeastIsLeast ==
  ASSUME NEW S \in SUBSET Nat, S # {}
  PROVE  Least(S) \in S /\ \A y \in S : Least(S) <= y
<1>1. \E x \in S : \A y \in S : x <= y
  BY LeastOf, Zenon
<1> QED
  BY <1>1 DEF Least

LEMMA OptionsAreActions ==
  ASSUME actions \in Tables
  PROVE  /\ \A name : fromFullOption(name) \in {0} \cup DOMAIN actions
         /\ \A letter : fromShortOption(letter) \in {0} \cup DOMAIN actions
         /\ helpActionId # 0 => helpActionId \in DOMAIN actions /\ actions[helpActionId].help
<1>1. DOMAIN actions \subseteq Nat \ {0}
  BY TablesAreTyped
<1>2. \A S \in SUBSET DOMAIN actions : S # {} => Least(S) \in S
  <2>1. SUFFICES ASSUME NEW S \in SUBSET DOMAIN actions, S # {}
                 PROVE  Least(S) \in S
    OBVIOUS
  <2>2. S \in SUBSET Nat
    BY <1>1
  <2> QED
    BY <2>1, <2>2, LeastIsLeast
<1>3. ASSUME NEW name
      PROVE  fromFullOption(name) \in {0} \cup DOMAIN actions
  BY <1>2 DEF fromFullOption
<1>4. ASSUME NEW letter
      PROVE  fromShortOption(letter) \in {0} \cup DOMAIN actions
  BY <1>2 DEF fromShortOption
<1>5. helpActionId # 0 => helpActionId \in DOMAIN actions /\ actions[helpActionId].help
  BY <1>2 DEF helpActionId
<1> QED
  BY <1>3, <1>4, <1>5

LEMMA ArgumentsAreTyped ==
  ASSUME actions \in Tables, argv \in Lines(actions)
  PROVE  /\ argv \in Seq(Argument)
         /\ \A k \in DOMAIN argv :
              /\ argv[k] \in Argument
              /\ argv[k].names \in Seq(Nat) /\ argv[k].args \in Nat
              /\ argv[k].kind \in {"full", "assign"} => Len(argv[k].names) = 1
              /\ argv[k].kind = "assign" => argv[k].args >= 1
              /\ argv[k].kind = "short" => argv[k].names # <<>>
              /\ argv[k].kind \in {"word", "dash"} => argv[k].names = <<>>
<1>1. /\ argv \in Seq(Argument)
      /\ \A k \in DOMAIN argv :
              /\ argv[k].kind \in {"full", "assign"} => Len(argv[k].names) = 1
              /\ argv[k].kind = "assign" => argv[k].args >= 1
              /\ argv[k].kind = "short" => argv[k].names # <<>>
              /\ argv[k].kind \in {"word", "dash"} => argv[k].names = <<>>
  BY LinesAreArguments, Zenon
<1>2. \A k \in DOMAIN argv : argv[k] \in Argument
  BY <1>1
<1>3. \A x \in Argument : x.names \in Seq(Nat) /\ x.args \in Nat
  BY DEF Argument
<1> QED
  BY <1>1, <1>2, <1>3

\* The words behind an option are words, and none of them is missing.
LEMMA WordsAreThere ==
  ASSUME argv \in Seq(Argument), pos \in 1 .. Len(argv), NEW limit \in Nat \cup {Unlimited}
  PROVE  /\ WordsBehind(limit) \in 0 .. Len(argv) - pos
         /\ \A k \in 1 .. WordsBehind(limit) : argv[pos + k].kind = "word"
<1>1. PICK B \in Nat : B = Len(argv) - pos
  OBVIOUS
<1>2. PICK words : words = {n \in 0 .. Len(argv) - pos : \A k \in 1 .. n : argv[pos + k].kind = "word"}
  OBVIOUS
<1>3. words \in SUBSET Nat /\ 0 \in words /\ \A x \in words : x <= B
  BY <1>1, <1>2
<1>4. MaxOf(words) \in words
  BY <1>3, MaxOfIsGreatest
<1>5. PICK most \in Nat : most = MaxOf(words) /\ most \in words
  BY <1>3, <1>4
<1>6. WordsBehind(limit) = IF limit >= 0 /\ most > limit THEN limit ELSE most
  BY <1>2, <1>5, Zenon DEF WordsBehind
<1>7. most \in 0 .. Len(argv) - pos /\ \A k \in 1 .. most : argv[pos + k].kind = "word"
  BY <1>2, <1>5
<1>8. CASE limit >= 0 /\ most > limit
  <2>1. limit \in Nat /\ limit <= most
    BY <1>8 DEF Unlimited
  <2>2. limit \in 0 .. Len(argv) - pos /\ \A k \in 1 .. limit : k \in 1 .. most
    BY <1>7, <2>1
  <2> QED
    BY <1>6, <1>7, <1>8, <2>2
<1>9. CASE ~(limit >= 0 /\ most > limit)
  BY <1>6, <1>7, <1>9
<1> QED
  BY <1>8, <1>9

\* If an option may have words, and has none, then none are there.
LEMMA NoWordsAreThere ==
  ASSUME argv \in Seq(Argument), pos \in 1 .. Len(argv), NEW limit \in Nat \cup {Unlimited},
         limit # 0, WordsBehind(limit) = 0
  PROVE  WithoutWord(pos)
<1>1. PICK words : words = {n \in 0 .. Len(argv) - pos : \A k \in 1 .. n : argv[pos + k].kind = "word"}
  OBVIOUS
<1>2. words \in SUBSET Nat /\ 0 \in words /\ \A x \in words : x <= Len(argv) - pos
  BY <1>1
<1>3. PICK most \in Nat : most = MaxOf(words) /\ most \in words /\ \A x \in words : x <= most
  <2>1. PICK B \in Nat : B = Len(argv) - pos
    OBVIOUS
  <2> QED
    BY <1>2, <2>1, MaxOfIsGreatest
<1>4. WordsBehind(limit) = IF limit >= 0 /\ most > limit THEN limit ELSE most
  BY <1>1, <1>3, Zenon DEF WordsBehind
<1>5. most = 0
  BY <1>4
<1>6. ASSUME pos # Len(argv), argv[pos + 1].kind = "word"
      PROVE  FALSE
  <2>1. 1 \in 0 .. Len(argv) - pos /\ \A k \in 1 .. 1 : k = 1
    BY <1>6
  <2>2. 1 \in words
    BY <1>1, <1>6, <2>1
  <2> QED
    BY <1>3, <1>5, <2>2
<1> QED
  BY <1>6 DEF WithoutWord

\* One option, or several in one argument, go to the list.  One that gets no
\* argument has no word behind it, unless it is a letter that has to have none,
\* or may have none.
Filled(h) ==
  h.args = 0 =>
    \/ argv[pos].kind = "short" /\ actions[h.action].lo = 0
    \/ actions[h.action].hi = 0
    \/ WithoutWord(pos)
Parses(handlers, n) ==
  /\ handlers \in Seq(Handlers)
  /\ n \in Nat /\ n >= 1 /\ pos + n <= Len(argv) + 1
  /\ \A k \in 1 .. n - 1 : argv[pos + k].kind = "word"
  /\ ActionsOf(handlers) = OptionsOf(argv[pos])
  /\ argv[pos].kind # "short" => AllInRange(handlers)
  /\ \A k \in DOMAIN handlers : Filled(handlers[k])

LEMMA FullOptionParses ==
  ASSUME Typed, ParseFullOption, status' = "parse"
  PROVE  \E handlers, n : Parses(handlers, n) /\ Listed(handlers) /\ Parsed(n)
<1>1. actions \in Tables /\ argv \in Lines(actions) /\ pos \in 1 .. Len(argv) + 1
  BY DEF Typed
<1>2. AtArg("full") \/ AtArg("assign")
  BY DEF ParseFullOption
<1>3. argv \in Seq(Argument) /\ pos \in 1 .. Len(argv) /\ pos \in DOMAIN argv /\ pos <= Len(argv)
  BY <1>1, <1>2, ArgumentsAreTyped DEF AtArg
<1>4. argv[pos].names \in Seq(Nat) /\ Len(argv[pos].names) = 1 /\ argv[pos].args \in Nat /\ argv[pos].kind \in {"full", "assign"}
  BY <1>1, <1>2, <1>3, ArgumentsAreTyped DEF AtArg, Arg
<1>5. PICK a : a = fromFullOption(argv[pos].names[1])
  OBVIOUS
<1>6. PICK args : args = IF argv[pos].kind = "assign" THEN argv[pos].args ELSE WordsBehind(actions[a].hi)
  OBVIOUS
<1>7. PICK n : n = IF argv[pos].kind = "assign" THEN 1 ELSE args + 1
  OBVIOUS
<1>8. PICK handlers : handlers = <<Handler(a, args, Len(list) + 1)>>
  OBVIOUS
<1>9. a # 0 /\ InRange(a, args) /\ Listed(handlers) /\ Parsed(n)
  BY <1>5, <1>6, <1>7, <1>8 DEF ParseFullOption, Fail, Arg
<1>10. a \in DOMAIN actions
  BY <1>1, <1>5, <1>9, OptionsAreActions
<1>11. /\ args \in Nat /\ n \in Nat /\ n >= 1 /\ pos + n <= Len(argv) + 1
       /\ \A k \in 1 .. n - 1 : argv[pos + k].kind = "word"
  <2>1. CASE argv[pos].kind = "assign"
    BY <1>3, <1>4, <1>6, <1>7, <2>1
  <2>2. CASE argv[pos].kind # "assign"
    <3>1. PICK limit : limit = actions[a].hi
      OBVIOUS
    <3>2. limit \in Nat \cup {Unlimited}
      BY <1>1, <1>10, <3>1, TablesAreTyped
    <3>3. args \in 0 .. Len(argv) - pos /\ \A k \in 1 .. args : argv[pos + k].kind = "word"
      BY <1>3, <1>6, <2>2, <3>1, <3>2, WordsAreThere
    <3>4. n = args + 1 /\ n - 1 = args
      BY <1>7, <2>2, <3>3
    <3> QED
      BY <1>3, <3>3, <3>4
  <2> QED
    BY <2>1, <2>2
<1>12. PICK h \in Handlers : h = Handler(a, args, Len(list) + 1) /\ h.action = a /\ h.args = args
  <2>1. PICK p \in Nat : p = Len(list) + 1
    BY DEF Typed
  <2>2. Handler(a, args, p) = [action |-> a, args |-> args, place |-> p]
    BY DEF Handler
  <2> QED
    BY <1>10, <1>11, <2>1, <2>2 DEF Handlers
<1>13. handlers = <<h>>
  BY <1>8, <1>12, Zenon
<1>14. handlers \in Seq(Handlers) /\ DOMAIN handlers = {1} /\ handlers[1] = h
  BY <1>13
<1>15. ActionsOf(handlers) = {a}
  BY <1>12, <1>14 DEF ActionsOf
<1>16. OptionsOf(argv[pos]) = {a}
  <2>1. PICK names : names = argv[pos].names
    OBVIOUS
  <2>2. DOMAIN names = {1}
    BY <1>4, <2>1
  <2>3. PICK options : options = [k \in DOMAIN names |-> IF argv[pos].kind = "short" THEN fromShortOption(names[k])
                                                         ELSE fromFullOption(names[k])]
    OBVIOUS
  <2>4. DOMAIN options = {1} /\ options[1] = a
    BY <1>4, <1>5, <2>1, <2>2, <2>3
  <2>5. OptionsOf(argv[pos]) =
          {options[k] : k \in {j \in DOMAIN options : \A i \in 1 .. j - 1 :
                                 argv[pos].kind = "short" => ~TakesRest(options[i])}}
    BY <2>1, <2>3, Zenon DEF OptionsOf
  <2>6. {j \in DOMAIN options : \A i \in 1 .. j - 1 :
                                 argv[pos].kind = "short" => ~TakesRest(options[i])} = {1}
    BY <1>4, <2>4
  <2> QED
    BY <2>4, <2>5, <2>6
<1>17. AllInRange(handlers)
  BY <1>9, <1>12, <1>14 DEF AllInRange
<1>18. ASSUME h.args = 0, actions[a].hi # 0
       PROVE  WithoutWord(pos)
  <2>1. argv[pos].kind # "assign"
    <3>1. argv[pos].kind = "assign" => argv[pos].args >= 1
      BY <1>1, <1>3, ArgumentsAreTyped
    <3> QED
      BY <1>6, <1>12, <1>18, <3>1
  <2>2. PICK limit \in Nat \cup {Unlimited} : limit = actions[a].hi /\ limit # 0
    BY <1>1, <1>10, <1>18, TablesAreTyped
  <2>3. WordsBehind(limit) = 0
    BY <1>6, <1>12, <1>18, <2>1, <2>2
  <2> QED
    BY <1>3, <2>2, <2>3, NoWordsAreThere
<1>19. \A k \in DOMAIN handlers : Filled(handlers[k])
  BY <1>12, <1>14, <1>18 DEF Filled
<1> QED
  BY <1>9, <1>11, <1>14, <1>15, <1>16, <1>17, <1>19, Zenon DEF Parses

\* A function on the numbers up to m is a sequence.
LEMMA FunctionIsSequence ==
  ASSUME NEW T, NEW m \in Nat, NEW f \in [1 .. m -> T]
  PROVE  f \in Seq(T) /\ DOMAIN f = 1 .. m
<1>1. DOMAIN f = 1 .. m
  OBVIOUS
<1>2. f \in Seq(T)
  OBVIOUS
<1> QED
  BY <1>1, <1>2

\* The letters that are parsed, and which of them the others are words of.
LEMMA ShortOptionsArePrefix ==
  ASSUME actions \in Tables, argv \in Lines(actions), pos \in DOMAIN argv, argv[pos].kind = "short"
  PROVE  /\ ShortOptions \in Seq({0} \cup DOMAIN actions)
         /\ ShortOptions # <<>>
         /\ {ShortOptions[k] : k \in DOMAIN ShortOptions} = OptionsOf(argv[pos])
         /\ \A k \in DOMAIN ShortOptions : k # Len(ShortOptions) => ~TakesRest(ShortOptions[k])
<1>1. PICK names \in Seq(Nat) : names = argv[pos].names /\ names # <<>>
  BY ArgumentsAreTyped
<1>2. PICK n \in Nat : DOMAIN names = 1 .. n /\ n = Len(names) /\ n >= 1
  <2>1. Len(names) \in Nat /\ DOMAIN names = 1 .. Len(names) /\ Len(names) # 0
    BY <1>1, EmptySeq
  <2>2. PICK n \in Nat : n = Len(names) /\ n # 0
    BY <2>1
  <2>3. n >= 1
    BY <2>2
  <2> QED
    BY <2>1, <2>2, <2>3
<1>3. PICK T : T = {0} \cup DOMAIN actions
  OBVIOUS
<1>4. PICK all \in [1 .. n -> T] : all = ShortActions /\ \A k \in 1 .. n : all[k] = fromShortOption(names[k])
  <2>1. ShortActions = [k \in 1 .. n |-> fromShortOption(names[k])]
    BY <1>1, <1>2, Zenon DEF ShortActions, Arg
  <2>2. \A k \in 1 .. n : fromShortOption(names[k]) \in T
    BY <1>3, OptionsAreActions
  <2> QED
    BY <2>1, <2>2
<1>5. PICK last : last = {k \in 1 .. n : TakesRest(all[k])}
  OBVIOUS
<1>6. ShortOptions = IF last = {} THEN all ELSE SubSeq(all, 1, Least(last))
  BY <1>4, <1>5, Zenon DEF ShortOptions
<1>7. PICK m \in 1 .. n : /\ ShortOptions = [k \in 1 .. m |-> all[k]]
                          /\ \A k \in 1 .. n : k <= m <=> \A i \in 1 .. k - 1 : ~TakesRest(all[i])
  <2>1. CASE last = {}
    <3>1. ShortOptions = [k \in 1 .. n |-> all[k]]
      BY <1>6, <2>1
    <3>2. \A k \in 1 .. n : \A i \in 1 .. k - 1 : i \in 1 .. n /\ ~TakesRest(all[i])
      BY <1>5, <2>1
    <3>3. n \in 1 .. n /\ \A k \in 1 .. n : k <= n
      BY <1>2
    <3>4. \A k \in 1 .. n : k <= n <=> \A i \in 1 .. k - 1 : ~TakesRest(all[i])
      BY <3>2, <3>3
    <3> QED
      BY <3>1, <3>3, <3>4
  <2>2. CASE last # {}
    <3>1. last \in SUBSET Nat
      BY <1>5
    <3>2. PICK m \in Nat : m = Least(last) /\ m \in last /\ \A y \in last : m <= y
      BY <2>2, <3>1, LeastIsLeast
    <3>3. m \in 1 .. n /\ TakesRest(all[m])
      BY <1>5, <3>2
    <3>4. ShortOptions = SubSeq(all, 1, m)
      BY <1>6, <2>2, <3>2
    <3>5. SubSeq(all, 1, m) = [k \in 1 .. m |-> all[k]]
      BY <1>4, <3>3
    <3>6. ASSUME NEW k \in 1 .. n
          PROVE  k <= m <=> \A i \in 1 .. k - 1 : ~TakesRest(all[i])
      <4>1. CASE k <= m
        <5>1. \A i \in 1 .. k - 1 : i \in 1 .. n /\ ~(m <= i)
          BY <3>3, <4>1
        <5>2. \A i \in 1 .. k - 1 : ~TakesRest(all[i])
          BY <1>5, <3>2, <5>1
        <5> QED
          BY <4>1, <5>2
      <4>2. CASE ~(k <= m)
        <5>1. m \in 1 .. k - 1
          BY <3>3, <4>2
        <5> QED
          BY <3>3, <4>2, <5>1
      <4> QED
        BY <4>1, <4>2
    <3> QED
      BY <3>3, <3>4, <3>5, <3>6
  <2> QED
    BY <2>1, <2>2
<1>8. ShortOptions \in [1 .. m -> T] /\ 1 \in 1 .. m
  BY <1>7
<1>9. ShortOptions \in Seq(T) /\ DOMAIN ShortOptions = 1 .. m
  <2>1. PICK f : f = ShortOptions
    OBVIOUS
  <2>2. f \in [1 .. m -> T] /\ m \in Nat
    BY <1>8, <2>1
  <2>3. f \in Seq(T) /\ DOMAIN f = 1 .. m
    BY <2>2, FunctionIsSequence
  <2> QED
    BY <2>1, <2>3
<1>10. ShortOptions # <<>>
  BY <1>8, <1>9
<1>11. OptionsOf(argv[pos]) = {all[k] : k \in {j \in 1 .. n : \A i \in 1 .. j - 1 : ~TakesRest(all[i])}}
  <2>1. PICK form : form = argv[pos].kind /\ form = "short"
    OBVIOUS
  <2>2. PICK options : options = [k \in DOMAIN names |-> IF form = "short" THEN fromShortOption(names[k])
                                                         ELSE fromFullOption(names[k])]
    OBVIOUS
  <2>3. options = all
    BY <1>2, <1>4, <2>1, <2>2
  <2>4. OptionsOf(argv[pos]) =
          {options[k] : k \in {j \in DOMAIN options : \A i \in 1 .. j - 1 :
                                 form = "short" => ~TakesRest(options[i])}}
    BY <1>1, <2>1, <2>2, Zenon DEF OptionsOf
  <2>5. {j \in DOMAIN options : \A i \in 1 .. j - 1 : form = "short" => ~TakesRest(options[i])}
          = {j \in 1 .. n : \A i \in 1 .. j - 1 : ~TakesRest(all[i])}
    BY <1>4, <2>1, <2>3
  <2> QED
    BY <2>3, <2>4, <2>5, Zenon
<1>12. {ShortOptions[k] : k \in DOMAIN ShortOptions} = {all[k] : k \in 1 .. m}
  BY <1>7, <1>9
<1>13. {j \in 1 .. n : \A i \in 1 .. j - 1 : ~TakesRest(all[i])} = 1 .. m
  <2>1. \A j \in 1 .. n : j \in 1 .. m <=> j <= m
    OBVIOUS
  <2>2. \A j \in 1 .. m : j \in 1 .. n
    OBVIOUS
  <2> QED
    BY <1>7, <2>1, <2>2
<1>14. ASSUME NEW k \in 1 .. m, k # m
       PROVE  ~TakesRest(ShortOptions[k])
  <2>1. m \in 1 .. n /\ m <= m /\ k \in 1 .. m - 1
    BY <1>14
  <2>2. ~TakesRest(all[k])
    BY <1>7, <2>1
  <2> QED
    BY <1>7, <2>2
<1>15. \A k \in DOMAIN ShortOptions : k # Len(ShortOptions) => ~TakesRest(ShortOptions[k])
  <2>1. Len(ShortOptions) = m
    BY <1>8, <1>9
  <2> QED
    BY <1>9, <1>14, <2>1
<1> QED
  BY <1>3, <1>9, <1>10, <1>11, <1>12, <1>13, <1>15, Zenon

LEMMA ShortOptionsParse ==
  ASSUME Typed, ParseShortOptions, status' = "parse"
  PROVE  \E handlers, n : Parses(handlers, n) /\ Listed(handlers) /\ Parsed(n)
<1>1. actions \in Tables /\ argv \in Lines(actions) /\ pos \in 1 .. Len(argv) + 1 /\ list \in Seq(Handlers)
  BY DEF Typed
<1>2. AtArg("short")
  BY DEF ParseShortOptions
<1>3. argv \in Seq(Argument) /\ pos \in 1 .. Len(argv) /\ pos \in DOMAIN argv /\ pos <= Len(argv)
  BY <1>1, <1>2, ArgumentsAreTyped DEF AtArg
<1>4. argv[pos].kind = "short"
  BY <1>2 DEF AtArg, Arg
<1>5. PICK T : T = {0} \cup DOMAIN actions
  OBVIOUS
<1>6. PICK options \in Seq(T) : /\ options = ShortOptions /\ options # <<>>
                                /\ {options[k] : k \in DOMAIN options} = OptionsOf(argv[pos])
                                /\ \A k \in DOMAIN options : k # Len(options) => ~TakesRest(options[k])
  BY <1>1, <1>3, <1>4, <1>5, ShortOptionsArePrefix
<1>7. PICK taker : taker = options[Len(options)]
  OBVIOUS
<1>8. PICK rest \in {0, 1} : rest = IF Len(options) < Len(Arg.names) THEN 1 ELSE 0
  OBVIOUS
<1>9. PICK words : words = IF ~TakesRest(taker) THEN 0
               ELSE WordsBehind(IF actions[taker].hi = Unlimited THEN Unlimited
                                ELSE actions[taker].hi - rest)
  OBVIOUS
<1>10. PICK n : n = words + 1
  OBVIOUS
<1>11. PICK handlers : handlers = [k \in DOMAIN options |->
                          Handler(options[k], IF k = Len(options) THEN rest + words ELSE 0, Len(list) + k)]
  OBVIOUS
<1>12. (\A k \in DOMAIN options : options[k] # 0) /\ Listed(handlers) /\ Parsed(n)
  <2>1. Parsed(Processed(rest, words)) = Parsed(n)
    BY <1>10, Zenon DEF Processed
  <2>2. ~Fail
    BY DEF Fail
  <2> QED
    BY <1>6, <1>7, <1>8, <1>9, <1>11, <2>1, <2>2, Zenon DEF ParseShortOptions
<1>13. \A k \in DOMAIN options : options[k] \in DOMAIN actions
  BY <1>5, <1>12
<1>14. taker \in DOMAIN actions
  <2>1. Len(options) \in Nat /\ DOMAIN options = 1 .. Len(options) /\ Len(options) # 0
    BY <1>6, EmptySeq
  <2>2. Len(options) \in DOMAIN options
    BY <2>1
  <2> QED
    BY <1>7, <1>13, <2>2
<1>15. words \in 0 .. Len(argv) - pos /\ \A k \in 1 .. words : argv[pos + k].kind = "word"
  <2>1. CASE ~TakesRest(taker)
    BY <1>3, <1>9, <2>1
  <2>2. CASE TakesRest(taker)
    <3>1. PICK lo, hi : lo = actions[taker].lo /\ hi = actions[taker].hi
      OBVIOUS
    <3>2. lo \in Nat /\ hi \in Nat \cup {Unlimited} /\ (hi = Unlimited \/ lo <= hi)
      BY <1>1, <1>14, <3>1, TablesAreTyped
    <3>3. lo > 0
      BY <2>2, <3>1 DEF TakesRest
    <3>4. PICK limit : limit = IF hi = Unlimited THEN Unlimited ELSE hi - rest
      OBVIOUS
    <3>5. limit \in Nat \cup {Unlimited}
      BY <3>2, <3>3, <3>4
    <3>6. words = WordsBehind(limit)
      BY <1>9, <2>2, <3>1, <3>4
    <3> QED
      BY <1>3, <3>5, <3>6, WordsAreThere
  <2> QED
    BY <2>1, <2>2
<1>16. n \in Nat /\ n >= 1 /\ pos + n <= Len(argv) + 1 /\ \A k \in 1 .. n - 1 : argv[pos + k].kind = "word"
  BY <1>3, <1>10, <1>15
<1>17. PICK H : H = Handlers
  OBVIOUS
<1>18. ASSUME NEW k \in DOMAIN options
       PROVE  handlers[k] \in H /\ handlers[k].action = options[k]
  <2>1. PICK args \in Nat : args = IF k = Len(options) THEN rest + words ELSE 0
    BY <1>15
  <2>2. PICK place \in Nat : place = Len(list) + k
    BY <1>1
  <2>3. handlers[k] = Handler(options[k], args, place)
    BY <1>11, <2>1, <2>2
  <2>4. handlers[k] = [action |-> options[k], args |-> args, place |-> place]
    BY <2>3, Zenon DEF Handler
  <2> QED
    BY <1>13, <1>17, <2>4 DEF Handlers
<1>19. handlers \in Seq(H) /\ DOMAIN handlers = DOMAIN options
  <2>1. PICK l \in Nat : DOMAIN options = 1 .. l
    OBVIOUS
  <2>2. handlers \in [1 .. l -> H]
    BY <1>11, <1>18, <2>1
  <2> QED
    BY <2>1, <2>2
<1>20. ActionsOf(handlers) = {options[k] : k \in DOMAIN options}
  BY <1>18, <1>19 DEF ActionsOf
<1>22. ASSUME NEW k \in DOMAIN options, handlers[k].args = 0, actions[options[k]].lo # 0, actions[options[k]].hi # 0
       PROVE  WithoutWord(pos)
  <2>1. PICK lo, hi : lo = actions[options[k]].lo /\ hi = actions[options[k]].hi
    OBVIOUS
  <2>2. lo \in Nat /\ hi \in Nat \cup {Unlimited} /\ lo # 0 /\ hi # 0
    BY <1>1, <1>13, <1>22, <2>1, TablesAreTyped
  <2>3. TakesRest(options[k])
    BY <1>12, <2>1, <2>2 DEF TakesRest
  <2>4. k = Len(options) /\ taker = options[k]
    BY <1>6, <1>7, <1>22, <2>3
  <2>5. handlers[k].args = rest + words
    <3>1. handlers[k] = Handler(options[k], rest + words, Len(list) + k)
      BY <1>11, <2>4
    <3> QED
      BY <3>1 DEF Handler
  <2>6. rest = 0 /\ words = 0
    BY <1>15, <1>22, <2>5
  <2>7. words = WordsBehind(hi)
    BY <1>9, <2>1, <2>2, <2>3, <2>4, <2>6
  <2> QED
    BY <1>3, <2>2, <2>6, <2>7, NoWordsAreThere
<1>23. \A k \in DOMAIN handlers : Filled(handlers[k])
  BY <1>4, <1>18, <1>19, <1>22 DEF Filled
<1>21. Parses(handlers, n)
  BY <1>4, <1>6, <1>16, <1>17, <1>19, <1>20, <1>23, Zenon DEF Parses
<1> QED
  BY <1>12, <1>21

-----------------------------------------------------------------------------
(* The table and the command line do not change, nor does what is said of  *)
(* them alone.                                                             *)

LEMMA SameTable ==
  ASSUME UNCHANGED input
  PROVE  /\ Handlers' = Handlers
         /\ \A a : ImplicitBelow(a)' = ImplicitBelow(a)
         /\ \A a, args : InRange(a, args)' <=> InRange(a, args)
         /\ \A a, b : RunsAfter(a, b)' <=> RunsAfter(a, b)
         /\ ResultsInTime' <=> ResultsInTime
         /\ AddedTakeNone' <=> AddedTakeNone
         /\ NoShort' <=> NoShort
         /\ \A a : Children(Graph("requires"), a)' = Children(Graph("requires"), a)
<1>1. actions' = actions /\ argv' = argv
  BY DEF input
<1>2. Handlers' = Handlers
  BY <1>1 DEF Handlers
<1>3. \A a : ImplicitBelow(a)' = ImplicitBelow(a)
  BY <1>1 DEF ImplicitBelow
<1>4. \A a, args : InRange(a, args)' <=> InRange(a, args)
  BY <1>1 DEF InRange
<1>5. \A a, b : RunsAfter(a, b)' <=> RunsAfter(a, b)
  BY <1>1 DEF RunsAfter
<1>6. ResultsInTime' <=> ResultsInTime
  BY <1>1, <1>5 DEF ResultsInTime
<1>7. AddedTakeNone' <=> AddedTakeNone
  BY <1>1 DEF AddedTakeNone
<1>8. NoShort' <=> NoShort
  BY <1>1 DEF NoShort
<1>9. \A a : Children(Graph("requires"), a)' = Children(Graph("requires"), a)
  <2>1. Graph("requires")' = Graph("requires")
    BY <1>1 DEF Graph
  <2> QED
    BY <2>1 DEF Children
<1> QED
  BY <1>2, <1>3, <1>4, <1>5, <1>6, <1>7, <1>8, <1>9

LEMMA SameHelp ==
  ASSUME UNCHANGED input
  PROVE  /\ helpActionId' = helpActionId
         /\ \A h : Meaningful(h)' <=> Meaningful(h)
<1>1. actions' = actions /\ pooled' = pooled
  BY DEF input
<1>2. helpActionId' = helpActionId
  BY <1>1 DEF helpActionId
<1>3. \A h : Meaningful(h)' <=> Meaningful(h)
  BY <1>1, <1>2 DEF Meaningful, Is, PriorityOf
<1> QED
  BY <1>2, <1>3

LEMMA SameOptions ==
  ASSUME UNCHANGED input
  PROVE  /\ \A arg : OptionsOf(arg)' = OptionsOf(arg)
         /\ \A n : GivenBefore(n)' = GivenBefore(n)
         /\ Given' = Given
<1>1. actions' = actions /\ argv' = argv
  BY DEF input
<1>2. \A a : LongOption(a)' = LongOption(a)
  BY <1>1 DEF LongOption
<1>3. \A name : fromFullOption(name)' = fromFullOption(name)
  BY <1>1, <1>2 DEF fromFullOption
<1>4. \A letter : fromShortOption(letter)' = fromShortOption(letter)
  BY <1>1 DEF fromShortOption
<1>5. \A a : TakesRest(a)' <=> TakesRest(a)
  BY <1>1 DEF TakesRest
<1>6. \A arg : OptionsOf(arg)' = OptionsOf(arg)
  BY <1>3, <1>4, <1>5 DEF OptionsOf
<1>7. \A n : GivenBefore(n)' = GivenBefore(n)
  BY <1>1, <1>6 DEF GivenBefore
<1>8. Given' = Given
  BY <1>1, <1>6 DEF Given
<1> QED
  BY <1>6, <1>7, <1>8

-----------------------------------------------------------------------------
(* The steps before the first handler runs.                                *)

\* As long as nothing has run, half of the invariant says nothing.
LEMMA NothingRan ==
  ASSUME ran = <<>>, status # "ok"
  PROVE  ImplicitRunFirst /\ NothingTooEarly /\ OrderEnforcedInTime /\ SomethingMeaningful
<1>1. DOMAIN ran = {}
  OBVIOUS
<1> QED
  BY <1>1 DEF ImplicitRunFirst, NothingTooEarly, OrderEnforcedInTime, OrderEnforced, SomethingMeaningful

LEMMA NothingRanNext ==
  ASSUME ran' = <<>>, status' # "ok"
  PROVE  ImplicitRunFirst' /\ NothingTooEarly' /\ OrderEnforcedInTime' /\ SomethingMeaningful'
<1>1. DOMAIN ran' = {}
  OBVIOUS
<1> QED
  BY <1>1 DEF ImplicitRunFirst, NothingTooEarly, OrderEnforcedInTime, OrderEnforced, SomethingMeaningful

LEMMA NothingTaken ==
  ASSUME ran' = <<>>, queue' = <<>>
  PROVE  Complete(Taken)' /\ AllInRange(queue)' /\ AllInRange(ran)'
<1>1. DOMAIN ran' = {} /\ DOMAIN queue' = {}
  OBVIOUS
<1> QED
  BY <1>1 DEF Complete, Taken, ActionsOf, AllInRange

LEMMA InitDispatching == Init => Dispatching
<1> SUFFICES ASSUME Init
             PROVE  Dispatching
  OBVIOUS
<1>1. DOMAIN <<>> = {} /\ <<>> \in Seq(Handlers)
  OBVIOUS
<1>2. actions \in Tables /\ argv \in Lines(actions) /\ pooled \in BOOLEAN /\ pos = 1 /\ list = <<>>
      /\ queue = <<>> /\ ran = <<>> /\ status = "parse"
  BY Zenon DEF Init
<1>3. Typed
  <2>1. Len(argv) \in Nat
    BY <1>2, ArgumentsAreTyped
  <2>2. pos \in 1 .. Len(argv) + 1
    BY <1>2, <2>1
  <2> QED
    BY <1>1, <1>2, <2>2 DEF Typed, Parsing
<1>4. ImplicitTaken
  BY <1>1, <1>2 DEF ImplicitTaken, Complete, Taken, ActionsOf
<1>5. RequirementsMet
  <2>1. GivenBefore(pos) = {}
    <3>1. \A j \in DOMAIN argv : ~(j < 1)
      BY <1>2, ArgumentsAreTyped
    <3> QED
      BY <1>2, <3>1 DEF GivenBefore
  <2> QED
    BY <1>1, <1>2, <2>1 DEF RequirementsMet, ActionsOf
<1>6. MeaningfulTaken
  BY <1>2 DEF MeaningfulTaken
<1>7. TakenInRange
  BY <1>1, <1>2 DEF TakenInRange, AllInRange
<1> QED
  BY <1>2, <1>3, <1>4, <1>5, <1>6, <1>7, NothingRan DEF Dispatching

\* An argument that is parsed adds its options to those given.
LEMMA GivenGrows ==
  ASSUME Typed, NEW handlers, NEW n, Parses(handlers, n)
  PROVE  GivenBefore(pos + n) = GivenBefore(pos) \cup OptionsOf(argv[pos])
<1>1. argv \in Seq(Argument) /\ pos \in 1 .. Len(argv) + 1 /\ actions \in Tables /\ argv \in Lines(actions)
  BY ArgumentsAreTyped DEF Typed
<1>2. n \in Nat /\ n >= 1 /\ pos + n <= Len(argv) + 1 /\ \A k \in 1 .. n - 1 : argv[pos + k].kind = "word"
  BY DEF Parses
<1>3. PICK l \in Nat : l = Len(argv) /\ DOMAIN argv = 1 .. l
  BY <1>1
<1>4. pos \in 1 .. l /\ pos + n <= l + 1
  BY <1>1, <1>2, <1>3
<1>5. ASSUME NEW j \in 1 .. l, j > pos, j < pos + n
      PROVE  OptionsOf(argv[j]) = {}
  <2>1. j - pos \in 1 .. n - 1 /\ pos + (j - pos) = j
    BY <1>2, <1>4, <1>5
  <2>2. argv[j].kind = "word"
    BY <1>2, <2>1
  <2>3. argv[j].names = <<>>
    BY <1>1, <1>3, <2>2, ArgumentsAreTyped
  <2>4. DOMAIN argv[j].names = {}
    BY <2>3
  <2> QED
    BY <2>4 DEF OptionsOf
<1>6. \A j \in 1 .. l : j < pos + n <=> j < pos \/ j = pos \/ (j > pos /\ j < pos + n)
  BY <1>2, <1>4
<1> QED
  BY <1>3, <1>4, <1>5, <1>6 DEF GivenBefore

LEMMA ParseStep ==
  ASSUME Dispatching, status = "parse", NEW handlers, NEW n,
         Parses(handlers, n), Listed(handlers), Parsed(n)
  PROVE  Dispatching'
<1>1. /\ UNCHANGED input /\ queue' = queue /\ ran' = ran /\ status' = "parse"
      /\ pos' = pos + n /\ list' = list \o handlers
  BY DEF Listed, Parsed
<1>2. Typed /\ queue = <<>> /\ ran = <<>> /\ list \in Seq(Handlers)
  BY DEF Dispatching, Typed, Parsing
<1>3. handlers \in Seq(Handlers) /\ n \in Nat /\ n >= 1 /\ pos + n <= Len(argv) + 1
  BY DEF Parses
<1>4. PICK H : H = Handlers
  OBVIOUS
<1>5. PICK l \in Seq(H) : l = list \o handlers /\ Joined(l, list, handlers)
  BY <1>2, <1>3, <1>4, Concatenated, Zenon
<1>6. list' = l
  BY <1>1, <1>5
<1>7. Typed'
  <2>1. pos' \in 1 .. Len(argv)' + 1
    <3>1. argv' = argv /\ pos \in 1 .. Len(argv) + 1
      BY <1>1, <1>2 DEF Typed, input
    <3>2. Len(argv) \in Nat
      BY <1>2, ArgumentsAreTyped DEF Typed
    <3> QED
      BY <1>1, <1>3, <3>1, <3>2
  <2>2. {list, queue, ran}' \subseteq Seq(Handlers)'
    <3>1. Handlers' = H
      BY <1>1, <1>4, SameTable
    <3>2. <<>> \in Seq(H)
      OBVIOUS
    <3> QED
      BY <1>1, <1>2, <1>5, <1>6, <3>1, <3>2
  <2>3. (actions \in Tables /\ argv \in Lines(actions) /\ pooled \in BOOLEAN)'
    BY <1>1, <1>2 DEF Typed, input
  <2> QED
    BY <1>1, <1>2, <2>1, <2>2, <2>3 DEF Typed, Parsing
<1>8. Complete(Taken)' /\ AllInRange(queue)' /\ AllInRange(ran)'
  BY <1>1, <1>2, NothingTaken
<1>9. ImplicitTaken'
  BY <1>1, <1>8 DEF ImplicitTaken
<1>10. RequirementsMet'
  <2>1. ActionsOf(list) = GivenBefore(pos)
    BY DEF Dispatching, RequirementsMet
  <2>2. ActionsOf(handlers) = OptionsOf(argv[pos])
    BY DEF Parses
  <2>3. ActionsOf(l) = ActionsOf(list) \cup ActionsOf(handlers)
    <3>1. \A j \in DOMAIN list : j \in DOMAIN l /\ l[j] = list[j]
      BY <1>5 DEF Joined
    <3>2. \A j \in DOMAIN handlers : \E i \in DOMAIN l : l[i] = handlers[j]
      BY <1>5 DEF Joined
    <3>3. \A j \in DOMAIN l : (j \in DOMAIN list /\ l[j] = list[j]) \/ \E i \in DOMAIN handlers : l[j] = handlers[i]
      BY <1>5 DEF Joined
    <3> QED
      BY <3>1, <3>2, <3>3 DEF ActionsOf
  <2>4. ActionsOf(l) = GivenBefore(pos + n)
    BY <1>2, <2>1, <2>2, <2>3, GivenGrows
  <2>5. ActionsOf(list)' = ActionsOf(l)
    BY <1>6 DEF ActionsOf
  <2>6. GivenBefore(pos)' = GivenBefore(pos + n)
    <3>1. argv' = argv /\ \A arg : OptionsOf(arg)' = OptionsOf(arg)
      BY <1>1, SameOptions DEF input
    <3> QED
      BY <1>1, <3>1 DEF GivenBefore
  <2> QED
    BY <1>1, <1>2, <2>4, <2>5, <2>6 DEF RequirementsMet
<1>11. MeaningfulTaken'
  BY <1>1 DEF MeaningfulTaken
<1>12. TakenInRange'
  <2>1. SUFFICES ASSUME NoShort, AddedTakeNone
                 PROVE  AllInRange(list)'
    BY <1>1, <1>8, SameTable DEF TakenInRange
  <2>2. AllInRange(list)
    BY <2>1 DEF Dispatching, TakenInRange
  <2>3. argv[pos].kind # "short"
    <3>1. Len(argv) \in Nat /\ DOMAIN argv = 1 .. Len(argv) /\ pos \in Nat /\ pos >= 1
      BY <1>2, ArgumentsAreTyped DEF Typed
    <3>2. pos \in DOMAIN argv
      BY <1>3, <3>1
    <3> QED
      BY <2>1, <3>2 DEF NoShort
  <2>4. AllInRange(handlers)
    BY <2>3 DEF Parses
  <2>5. \A j \in DOMAIN l : InRange(l[j].action, l[j].args)
    BY <1>5, <2>2, <2>4 DEF AllInRange, Joined
  <2>6. \A j \in DOMAIN l : InRange(l[j].action, l[j].args)'
    BY <1>1, <2>5, SameTable
  <2> QED
    BY <1>6, <2>6 DEF AllInRange
<1> QED
  BY <1>1, <1>2, <1>7, <1>9, <1>10, <1>11, <1>12, NothingRanNext DEF Dispatching

\* A step that changes the status alone.
LEMMA SameState ==
  ASSUME UNCHANGED <<input, pos, list, queue, ran>>
  PROVE  /\ Handlers' = Handlers
         /\ Complete(ActionsOf(list))' <=> Complete(ActionsOf(list))
         /\ Complete(Taken)' <=> Complete(Taken)
         /\ ImplicitRunFirst' <=> ImplicitRunFirst
         /\ NothingTooEarly' <=> NothingTooEarly
         /\ OrderEnforcedInTime' <=> OrderEnforcedInTime
         /\ ActionsOf(list)' = ActionsOf(list)
         /\ TakenInRange' <=> TakenInRange
<1>1. /\ actions' = actions /\ argv' = argv /\ UNCHANGED input
      /\ list' = list /\ queue' = queue /\ ran' = ran /\ pos' = pos
  BY DEF input
<1>2. ActionsOf(list)' = ActionsOf(list) /\ ActionsOf(queue)' = ActionsOf(queue) /\ ActionsOf(ran)' = ActionsOf(ran)
  BY <1>1 DEF ActionsOf
<1>3. Taken' = Taken
  BY <1>2 DEF Taken
<1>4. \A a : ImplicitBelow(a)' = ImplicitBelow(a)
  BY <1>1, SameTable
<1>5. Complete(Taken)' <=> Complete(Taken)
  BY <1>3, <1>4 DEF Complete
<1>6. Complete(ActionsOf(list))' <=> Complete(ActionsOf(list))
  BY <1>2, <1>4 DEF Complete
<1>7. \A a, b : RunsAfter(a, b)' <=> RunsAfter(a, b)
  BY <1>1, SameTable
<1>8. ImplicitRunFirst' <=> ImplicitRunFirst
  BY <1>1, <1>7 DEF ImplicitRunFirst
<1>9. ResultsInTime' <=> ResultsInTime
  BY <1>1, SameTable
<1>10. NothingTooEarly' <=> NothingTooEarly
  BY <1>1, <1>7, <1>9 DEF NothingTooEarly
<1>11. OrderEnforcedInTime' <=> OrderEnforcedInTime
  BY <1>1, <1>7, <1>9 DEF OrderEnforcedInTime, OrderEnforced
<1>12. Handlers' = Handlers
  BY <1>1, SameTable
<1>13. TakenInRange' <=> TakenInRange
  <2>1. \A a, args : InRange(a, args)' <=> InRange(a, args)
    BY <1>1, SameTable
  <2>2. (AllInRange(list)' <=> AllInRange(list)) /\ (AllInRange(queue)' <=> AllInRange(queue)) /\ (AllInRange(ran)' <=> AllInRange(ran))
    BY <1>1, <2>1 DEF AllInRange
  <2>3. (NoShort' <=> NoShort) /\ (AddedTakeNone' <=> AddedTakeNone)
    BY <1>1, SameTable
  <2> QED
    BY <2>2, <2>3 DEF TakenInRange
<1> QED
  BY <1>2, <1>5, <1>6, <1>8, <1>10, <1>11, <1>12, <1>13

LEMMA SameTyped ==
  ASSUME Typed, UNCHANGED <<input, pos, list, queue, ran>>,
         status' \in {"parse", "implicit", "help", "run", "ok", "failed", "crashed", "overflow"},
         Parsing' => Parsing
  PROVE  Typed'
<1>1. actions' = actions /\ argv' = argv /\ pooled' = pooled /\ list' = list /\ queue' = queue /\ ran' = ran /\ pos' = pos
  BY DEF input
<1>2. Handlers' = Handlers
  BY SameTable
<1>3. (actions \in Tables /\ argv \in Lines(actions) /\ pooled \in BOOLEAN)'
  BY <1>1 DEF Typed
<1>4. (pos \in 1 .. Len(argv) + 1)'
  BY <1>1 DEF Typed
<1>5. ({list, queue, ran} \subseteq Seq(Handlers))'
  BY <1>1, <1>2 DEF Typed
<1>6. Parsing' => queue' = <<>> /\ ran' = <<>>
  BY <1>1 DEF Typed
<1> QED
  BY <1>3, <1>4, <1>5, <1>6 DEF Typed

LEMMA FailStep ==
  ASSUME Dispatching, Parsing, Fail
  PROVE  Dispatching'
<1>1. UNCHANGED <<input, pos, list, queue, ran>> /\ status' = "failed"
  BY DEF Fail
<1>2. Typed /\ ran' = <<>>
  BY <1>1 DEF Dispatching, Typed
<1>3. Typed'
  BY <1>1, <1>2, SameTyped DEF Parsing
<1>4. ImplicitTaken' /\ RequirementsMet' /\ MeaningfulTaken' /\ TakenInRange'
  BY <1>1, <1>2, SameState DEF Dispatching, ImplicitTaken, RequirementsMet, MeaningfulTaken, Parsing
<1> QED
  BY <1>1, <1>2, <1>3, <1>4, NothingRanNext DEF Dispatching

LEMMA RequiresStep ==
  ASSUME Dispatching, CheckRequires
  PROVE  Dispatching'
<1>1. CASE Fail
  BY <1>1, FailStep DEF CheckRequires, Parsing
<1>2. CASE ~Fail
  <2>1. /\ status = "parse" /\ pos > Len(argv) /\ RequiresHold /\ status' = "implicit"
        /\ UNCHANGED <<input, pos, list, queue, ran>>
    BY <1>2 DEF CheckRequires
  <2>2. Typed /\ ran' = <<>>
    BY <2>1 DEF Dispatching, Typed, Parsing
  <2>3. Typed'
    BY <2>1, <2>2, SameTyped DEF Parsing
  <2>4. Given = ActionsOf(list)
    <3>1. ActionsOf(list) = GivenBefore(pos)
      BY <2>1 DEF Dispatching, RequirementsMet
    <3>2. Len(argv) \in Nat /\ DOMAIN argv = 1 .. Len(argv) /\ pos \in Nat
      BY <2>2, ArgumentsAreTyped DEF Typed
    <3>3. \A j \in DOMAIN argv : j < pos
      BY <2>1, <3>2
    <3> QED
      BY <3>1, <3>3 DEF GivenBefore, Given
  <2>5. \A a \in Given : a \in DOMAIN actions /\ Children(Graph("requires"), a) \subseteq Given
    <3>1. SUFFICES ASSUME NEW k \in DOMAIN list
                   PROVE  list[k].action \in DOMAIN actions /\ Children(Graph("requires"), list[k].action) \subseteq Given
      BY <2>4 DEF ActionsOf
    <3>2. list[k] \in Handlers
      BY <2>2 DEF Typed
    <3>3. list[k].action \in DOMAIN actions
      BY <3>2 DEF Handlers
    <3>4. \A a \in Children(Graph("requires"), list[k].action) : a \in ActionsOf(list)
      BY <2>1 DEF RequiresHold, actionIsInList, ActionsOf
    <3> QED
      BY <2>4, <3>3, <3>4
  <2>6. RequirementsMet'
    <3>1. Given' = Given /\ DOMAIN actions' = DOMAIN actions /\ \A a : Children(Graph("requires"), a)' = Children(Graph("requires"), a)
      BY <2>1, SameTable, SameOptions DEF input
    <3> QED
      BY <2>1, <2>5, <3>1 DEF RequirementsMet
  <2>7. ImplicitTaken' /\ MeaningfulTaken' /\ TakenInRange'
    BY <2>1, <2>2, SameState DEF Dispatching, ImplicitTaken, MeaningfulTaken
  <2> QED
    BY <2>1, <2>2, <2>3, <2>6, <2>7, NothingRanNext DEF Dispatching
<1> QED
  BY <1>1, <1>2

\* What the parser adds by itself has enough arguments without any.
LEMMA NoneAreEnough ==
  ASSUME actions \in Tables, NEW a \in DOMAIN actions, actions[a].lo = 0
  PROVE  InRange(a, 0)
<1>1. PICK lo, hi : lo = actions[a].lo /\ hi = actions[a].hi
  OBVIOUS
<1>2. lo = 0 /\ (hi = Unlimited \/ lo <= hi)
  BY <1>1, TablesAreTyped
<1> QED
  BY <1>1, <1>2 DEF InRange

LEMMA ExtendedInRange ==
  ASSUME actions \in Tables, AddedTakeNone, NEW handlers, AllInRange(handlers),
         NEW more, Extended(handlers, more)
  PROVE  AllInRange(more)
<1>1. SUFFICES ASSUME NEW k \in DOMAIN more
               PROVE  InRange(more[k].action, more[k].args)
  BY DEF AllInRange
<1>2. CASE k \in DOMAIN handlers /\ more[k] = handlers[k]
  BY <1>2 DEF AllInRange
<1>3. CASE actions[more[k].action].implicit /\ more[k].args = 0
  <2>1. more[k] \in Handlers
    BY DEF Extended
  <2>2. more[k].action \in DOMAIN actions
    BY <2>1 DEF Handlers
  <2>3. InRange(more[k].action, 0)
    BY <1>3, <2>2, NoneAreEnough DEF AddedTakeNone
  <2> QED
    BY <1>3, <2>3
<1> QED
  BY <1>2, <1>3 DEF Extended

LEMMA ParsingStep ==
  ASSUME Dispatching, ParseFullOption \/ ParseShortOptions \/ ParseUnrecognized
  PROVE  Dispatching'
<1>1. status = "parse" /\ Parsing /\ Typed
  BY DEF ParseFullOption, ParseShortOptions, ParseUnrecognized, AtArg, Parsing, Dispatching
<1>2. CASE Fail
  BY <1>1, <1>2, FailStep
<1>3. CASE ~Fail
  <2>1. (ParseFullOption \/ ParseShortOptions) /\ status' = "parse"
    BY <1>1, <1>3 DEF ParseFullOption, ParseShortOptions, ParseUnrecognized, Parsed
  <2>2. PICK handlers, n : Parses(handlers, n) /\ Listed(handlers) /\ Parsed(n)
    BY <1>1, <2>1, FullOptionParses, ShortOptionsParse
  <2> QED
    BY <1>1, <2>2, ParseStep
<1> QED
  BY <1>2, <1>3

\* The list is replaced by one that is complete, and perhaps queued.
LEMMA PreparedStep ==
  ASSUME Dispatching, status \in {"implicit", "help"}, NEW more, more \in Seq(Handlers),
         Complete(ActionsOf(more)), NoShort /\ AddedTakeNone => AllInRange(more),
         UNCHANGED <<input, pos, ran>>, list' = more,
         \/ status' = "help" /\ queue' = queue
         \/ /\ status' \in {"run", "overflow"} /\ queue' = more
            /\ helpActionId # 0 => \E k \in DOMAIN more : Meaningful(more[k])
  PROVE  Dispatching'
<1>1. actions' = actions /\ argv' = argv /\ pooled' = pooled /\ pos' = pos /\ ran' = ran /\ UNCHANGED input
  BY DEF input
<1>2. Typed /\ queue = <<>> /\ ran = <<>>
  BY DEF Dispatching, Typed, Parsing
<1>3. PICK H : H = Handlers
  OBVIOUS
<1>4. Handlers' = H /\ <<>> \in Seq(H) /\ more \in Seq(H)
  BY <1>1, <1>3, SameTable
<1>5. Typed'
  <2>1. (actions \in Tables /\ argv \in Lines(actions) /\ pooled \in BOOLEAN /\ pos \in 1 .. Len(argv) + 1)'
    BY <1>1, <1>2 DEF Typed
  <2>2. queue' \in Seq(H) /\ list' \in Seq(H) /\ ran' \in Seq(H)
    BY <1>2, <1>4
  <2>3. ({list, queue, ran} \subseteq Seq(Handlers))'
    BY <1>4, <2>2
  <2> QED
    BY <1>2, <2>1, <2>3 DEF Typed, Parsing
<1>6. Complete(ActionsOf(list))'
  <2>1. ActionsOf(list)' = ActionsOf(more)
    BY DEF ActionsOf
  <2>2. \A a : ImplicitBelow(a)' = ImplicitBelow(a)
    BY <1>1, SameTable
  <2> QED
    BY <2>1, <2>2 DEF Complete
<1>7. DOMAIN ran' = {} /\ DOMAIN <<>> = {}
  BY <1>2
<1>8. Complete(Taken)'
  <2>1. ActionsOf(ran)' = {}
    BY <1>7 DEF ActionsOf
  <2>2. CASE queue' = more
    <3>1. ActionsOf(queue)' = ActionsOf(list)'
      BY <2>2 DEF ActionsOf
    <3>2. Taken' = ActionsOf(list)'
      BY <2>1, <3>1 DEF Taken
    <3> QED
      BY <1>6, <3>2 DEF Complete
  <2>3. CASE queue' = <<>>
    BY <1>2, <2>3, NothingTaken
  <2> QED
    BY <1>2, <2>2, <2>3
<1>9. ImplicitTaken'
  BY <1>6, <1>8 DEF ImplicitTaken
<1>10. RequirementsMet'
  <2>1. \A a \in Given : a \in DOMAIN actions /\ Children(Graph("requires"), a) \subseteq Given
    BY DEF Dispatching, RequirementsMet
  <2>2. Given' = Given /\ DOMAIN actions' = DOMAIN actions /\ \A a : Children(Graph("requires"), a)' = Children(Graph("requires"), a)
    BY <1>1, SameTable, SameOptions
  <2> QED
    BY <2>1, <2>2 DEF RequirementsMet
<1>11. MeaningfulTaken'
  <2>1. helpActionId' = helpActionId /\ \A h : Meaningful(h)' <=> Meaningful(h)
    BY <1>1, SameHelp
  <2> QED
    BY <2>1 DEF MeaningfulTaken
<1>12. TakenInRange'
  <2>1. SUFFICES ASSUME NoShort, AddedTakeNone
                 PROVE  AllInRange(list)' /\ AllInRange(queue)' /\ AllInRange(ran)'
    BY <1>1, SameTable DEF TakenInRange
  <2>2. \A k \in DOMAIN more : InRange(more[k].action, more[k].args)'
    BY <1>1, <2>1, SameTable DEF AllInRange
  <2> QED
    BY <1>2, <1>7, <2>2 DEF AllInRange
<1> QED
  BY <1>1, <1>2, <1>5, <1>9, <1>10, <1>11, <1>12, NothingRanNext DEF Dispatching

LEMMA ImplicitStep ==
  ASSUME Dispatching, AddImplicit
  PROVE  Dispatching'
<1>1. status = "implicit" /\ UNCHANGED <<input, pos, queue, ran>> /\ Typed
  BY DEF AddImplicit, Dispatching
<1>2. ran = <<>> /\ list \in Seq(Handlers) /\ actions \in Tables
  BY <1>1 DEF Typed, Parsing
<1>3. CASE Overflows(list)
  <2>1. status' = "overflow" /\ UNCHANGED <<input, pos, list, queue, ran>>
    BY <1>1, <1>3 DEF AddImplicit
  <2>2. Typed'
    BY <1>1, <2>1, SameTyped DEF Parsing
  <2>3. ImplicitTaken' /\ RequirementsMet' /\ MeaningfulTaken' /\ TakenInRange'
    BY <1>2, <2>1, SameState DEF Dispatching, ImplicitTaken, RequirementsMet, MeaningfulTaken
  <2> QED
    BY <1>2, <2>1, <2>2, <2>3, NothingRanNext DEF Dispatching
<1>4. CASE ~Overflows(list)
  <2>1. status' = "help" /\ list' = WithImplicit(list)
    BY <1>4 DEF AddImplicit
  <2>2. PICK more : more = WithImplicit(list) /\ Extended(list, more)
    BY <1>2, WithImplicitExtends
  <2>3. more \in Seq(Handlers) /\ Complete(ActionsOf(more))
    BY <2>2 DEF Extended
  <2>4. NoShort /\ AddedTakeNone => AllInRange(more)
    BY <1>2, <2>2, ExtendedInRange DEF Dispatching, TakenInRange
  <2> QED
    BY <1>1, <2>1, <2>2, <2>3, <2>4, PreparedStep
<1> QED
  BY <1>3, <1>4

LEMMA HelpStep ==
  ASSUME Dispatching, TryToHelp
  PROVE  Dispatching'
<1>1. /\ status = "help" /\ UNCHANGED <<input, pos, ran>> /\ Typed
      /\ list' = Helped(list) /\ queue' = list' /\ status' \in {"run", "overflow"}
  BY DEF TryToHelp, Dispatching
<1>2. list \in Seq(Handlers) /\ actions \in Tables
  BY <1>1 DEF Typed
<1>3. NoShort /\ AddedTakeNone => AllInRange(list)
  BY DEF Dispatching, TakenInRange
<1>4. CASE ~(NeedsHelp /\ helpActionId # 0)
  <2>1. list' = list
    BY <1>1, <1>4 DEF Helped
  <2>2. Complete(ActionsOf(list))
    BY <1>1 DEF Dispatching, ImplicitTaken
  <2>3. helpActionId # 0 => \E k \in DOMAIN list : Meaningful(list[k])
    BY <1>4 DEF NeedsHelp
  <2>4. PICK more : more = list
    OBVIOUS
  <2> QED
    BY <1>1, <1>2, <1>3, <2>1, <2>2, <2>3, <2>4, PreparedStep
<1>5. CASE NeedsHelp /\ helpActionId # 0
  <2>1. PICK a \in DOMAIN actions : a = helpActionId /\ actions[a].help
    BY <1>2, <1>5, OptionsAreActions
  <2>2. PICK h \in Handlers : h = Handler(helpActionId, 0, Len(list) + 1) /\ h.action = a /\ h.args = 0
    <3>1. PICK place \in Nat : place = Len(list) + 1
      BY <1>2
    <3>2. Handler(helpActionId, 0, place) = [action |-> a, args |-> 0, place |-> place]
      BY <2>1, Zenon DEF Handler
    <3>3. [action |-> a, args |-> 0, place |-> place] \in Handlers
      BY DEF Handlers
    <3> QED
      BY <3>1, <3>2, <3>3
  <2>3. PICK H : H = Handlers
    OBVIOUS
  <2>4. PICK handlers \in Seq(H) : handlers = Append(list, h) /\ Appended(handlers, list, h)
    BY <1>2, <2>2, <2>3, AppendedOne, Zenon
  <2>5. PICK more : more = WithImplicit(handlers) /\ Extended(handlers, more)
    BY <1>2, <2>3, <2>4, WithImplicitExtends
  <2>6. list' = more
    <3>1. list' = WithImplicit(Append(list, Handler(helpActionId, 0, Len(list) + 1)))
      BY <1>1, <1>5, Zenon DEF Helped
    <3> QED
      BY <2>2, <2>4, <2>5, <3>1, Zenon
  <2>7. more \in Seq(Handlers) /\ Complete(ActionsOf(more))
    BY <2>5 DEF Extended
  <2>8. NoShort /\ AddedTakeNone => AllInRange(more)
    <3>1. SUFFICES ASSUME NoShort, AddedTakeNone
                   PROVE  AllInRange(more)
      OBVIOUS
    <3>2. InRange(a, 0)
      BY <1>2, <2>1, <3>1, NoneAreEnough DEF AddedTakeNone
    <3>3. \A j \in DOMAIN list : InRange(list[j].action, list[j].args)
      BY <1>3, <3>1 DEF AllInRange
    <3>4. \A j \in DOMAIN handlers : handlers[j] = h \/ (j \in DOMAIN list /\ handlers[j] = list[j])
      BY <2>4 DEF Appended
    <3>5. AllInRange(handlers)
      BY <2>2, <3>2, <3>3, <3>4 DEF AllInRange
    <3> QED
      BY <1>2, <2>5, <3>1, <3>5, ExtendedInRange
  <2>9. \E k \in DOMAIN more : Meaningful(more[k])
    <3>1. PICK k \in DOMAIN handlers : handlers[k] = h
      BY <2>4 DEF Appended
    <3>2. k \in DOMAIN more /\ more[k] = h
      BY <2>5, <3>1 DEF Extended
    <3>3. Meaningful(h)
      <4>1. PICK p \in Nat : p = actions[a].priority
        BY <1>2, <2>1, TableFacts
      <4>2. Is(h, "priority") = p
        BY <2>2, <4>1 DEF Is
      <4>3. PriorityOf(helpActionId) = p
        BY <1>5, <2>1, <4>1 DEF PriorityOf
      <4>4. Is(h, "priority") >= PriorityOf(helpActionId)
        BY <4>2, <4>3
      <4> QED
        BY <4>4 DEF Meaningful
    <3> QED
      BY <3>2, <3>3
  <2> QED
    BY <1>1, <2>6, <2>7, <2>8, <2>9, PreparedStep
<1> QED
  BY <1>4, <1>5

-----------------------------------------------------------------------------
(* The handlers.                                                           *)

\* A handler is taken from the queue, and at most results of it come in.
Replaces(p, k) ==
  /\ p \in Seq(Handlers)
  /\ \A j \in DOMAIN queue : j # k => \E i \in DOMAIN p : p[i] = queue[j]
  /\ \A i \in DOMAIN p :
       \/ \E j \in DOMAIN queue : j # k /\ p[i] = queue[j]
       \/ /\ p[i].action \in Children(Started(actions), queue[k].action)
          /\ InRange(p[i].action, p[i].args)

\* Nothing that is queued is run before one that has to be run after it.
LEMMA TopRunsFirst ==
  ASSUME Typed, NEW k \in Tops, NEW j \in DOMAIN queue
  PROVE  /\ queue[k].action \in DOMAIN actions /\ queue[j].action \in DOMAIN actions
         /\ ~(actions[queue[k].action].priority > actions[queue[j].action].priority)
         /\ ~RunsAfter(queue[k].action, queue[j].action)
<1>1. actions \in Tables /\ k \in DOMAIN queue /\ queue \in Seq(Handlers)
  BY DEF Typed, Tops
<1>2. queue[k] \in Handlers /\ queue[j] \in Handlers
  BY <1>1
<1>3. PICK a, b : a = queue[k].action /\ b = queue[j].action
  OBVIOUS
<1>4. a \in DOMAIN actions /\ b \in DOMAIN actions
  BY <1>2, <1>3 DEF Handlers
<1>5. PICK x, y \in Nat : x = actions[a].priority /\ y = actions[b].priority
  BY <1>1, <1>4, TableFacts
<1>6. x <= y
  BY <1>3, <1>5 DEF Tops, Is
<1>7. b \in Before[actions][a] => y < x
  BY <1>1, <1>4, <1>5, TableFacts
<1> QED
  BY <1>3, <1>4, <1>5, <1>6, <1>7 DEF RunsAfter

LEMMA PopStep ==
  ASSUME Dispatching, status = "run", NEW k \in Tops, NEW p, Replaces(p, k),
         UNCHANGED <<input, pos, list>>, queue' = p, ran' = Append(ran, queue[k]),
         status' \in {"run", "failed", "crashed"}
  PROVE  Dispatching'
<1>1. actions' = actions /\ argv' = argv /\ pooled' = pooled /\ pos' = pos /\ list' = list /\ UNCHANGED input
  BY DEF input
<1>2. /\ Typed /\ actions \in Tables /\ queue \in Seq(Handlers) /\ ran \in Seq(Handlers) /\ list \in Seq(Handlers)
      /\ k \in DOMAIN queue
  BY DEF Dispatching, Typed, Tops
<1>3. PICK H : H = Handlers
  OBVIOUS
<1>4. PICK h \in H : h = queue[k]
  BY <1>2, <1>3
<1>5. PICK done \in Seq(H) : done = Append(ran, h) /\ Appended(done, ran, h)
  BY <1>2, <1>3, AppendedOne, Zenon
<1>6. ran' = done
  BY <1>4, <1>5
<1>7. PICK n \in Nat : /\ DOMAIN ran = 1 .. n /\ DOMAIN done = 1 .. n + 1
                       /\ done[n + 1] = h /\ \A j \in 1 .. n : done[j] = ran[j]
  BY <1>5 DEF Appended
<1>8. PICK a \in DOMAIN actions : a = h.action
  BY <1>3, <1>4 DEF Handlers
<1>10. /\ p \in Seq(H)
       /\ \A j \in DOMAIN queue : j # k => \E i \in DOMAIN p : p[i] = queue[j]
       /\ \A i \in DOMAIN p :
            \/ \E j \in DOMAIN queue : j # k /\ p[i] = queue[j]
            \/ /\ p[i].action \in Children(Started(actions), a)
               /\ InRange(p[i].action, p[i].args)
  BY <1>3, <1>4, <1>8, Zenon DEF Replaces
<1>11. Typed'
  <2>1. (actions \in Tables /\ argv \in Lines(actions) /\ pooled \in BOOLEAN /\ pos \in 1 .. Len(argv) + 1)'
    BY <1>1, <1>2 DEF Typed
  <2>2. Handlers' = H
    BY <1>1, <1>3, SameTable
  <2>3. ({list, queue, ran} \subseteq Seq(Handlers))'
    BY <1>1, <1>2, <1>3, <1>5, <1>6, <1>10, <2>2
  <2> QED
    BY <2>1, <2>3 DEF Typed, Parsing
<1>12. Complete(Taken)
  BY DEF Dispatching, ImplicitTaken
<1>13. a \in Taken
  BY <1>2, <1>4, <1>8 DEF Taken, ActionsOf
<1>14. \A j \in DOMAIN queue : queue[j].action \in DOMAIN actions
  BY <1>2, TopRunsFirst
<1>15. Complete(Taken)'
  <2>1. \A b \in Taken : b \in Taken'
    <3>1. ASSUME NEW j \in DOMAIN queue
          PROVE  (\E i \in DOMAIN p : p[i].action = queue[j].action) \/ queue[j].action = done[n + 1].action
      BY <1>4, <1>7, <1>10
    <3>2. \A j \in DOMAIN ran : j \in DOMAIN done /\ done[j] = ran[j]
      BY <1>5 DEF Appended
    <3>3. n + 1 \in DOMAIN done
      BY <1>7
    <3> QED
      BY <1>6, <3>1, <3>2, <3>3 DEF Taken, ActionsOf
  <2>2. \A b \in Taken' : b \in Taken \/ b \in Children(Started(actions), a)
    <3>1. \A i \in DOMAIN p : p[i].action \in ActionsOf(queue) \/ p[i].action \in Children(Started(actions), a)
      BY <1>10 DEF ActionsOf
    <3>2. \A i \in DOMAIN done : done[i] = h \/ (i \in DOMAIN ran /\ done[i] = ran[i])
      BY <1>5 DEF Appended
    <3>3. \A i \in DOMAIN done : done[i].action = a \/ done[i].action \in ActionsOf(ran)
      BY <1>8, <3>2 DEF ActionsOf
    <3>4. Taken' = ActionsOf(p) \cup ActionsOf(done)
      BY <1>6 DEF Taken, ActionsOf
    <3> QED
      BY <1>13, <3>1, <3>3, <3>4 DEF Taken, ActionsOf
  <2>3. \A c \in Children(Started(actions), a) : ImplicitBelow(c) \subseteq ImplicitBelow(a)
    <3>1. \A c \in Children(Started(actions), a) : ReachedBy[actions][c] \subseteq ReachedBy[actions][a]
      BY <1>2, TableFacts
    <3> QED
      BY <3>1 DEF ImplicitBelow
  <2>4. \A b \in Taken' : ImplicitBelow(b) \subseteq Taken
    BY <1>12, <1>13, <2>2, <2>3 DEF Complete
  <2>5. \A b : ImplicitBelow(b)' = ImplicitBelow(b)
    BY <1>1, SameTable
  <2> QED
    BY <2>1, <2>4, <2>5 DEF Complete
<1>16. \A b, c : RunsAfter(b, c)' <=> RunsAfter(b, c)
  BY <1>1, SameTable
<1>17. ImplicitRunFirst'
  <2>1. ASSUME NEW b \in DOMAIN actions, RunsAfter(a, b), actions[b].implicit
        PROVE  \E j \in 1 .. n : ran[j].action = b
    <3>1. b \in ImplicitBelow(a)
      BY <1>2, <2>1, TableFacts DEF RunsAfter, ImplicitBelow
    <3>2. b \in Taken
      BY <1>12, <1>13, <3>1 DEF Complete
    <3>3. \A j \in DOMAIN queue : queue[j].action # b
      BY <1>2, <1>4, <1>8, <2>1, TopRunsFirst
    <3> QED
      BY <1>7, <3>2, <3>3 DEF Taken, ActionsOf
  <2>2. ASSUME NEW i \in 1 .. n + 1, NEW b \in DOMAIN actions, RunsAfter(done[i].action, b), actions[b].implicit
        PROVE  \E j \in 1 .. i - 1 : done[j].action = b
    <3>1. CASE i = n + 1
      <4>1. done[i] = h
        BY <1>7, <3>1
      <4>2. PICK j \in 1 .. n : ran[j].action = b
        BY <1>8, <2>1, <2>2, <4>1
      <4>3. j \in 1 .. i - 1
        BY <3>1
      <4> QED
        BY <1>7, <4>2, <4>3
    <3>2. CASE i # n + 1
      <4>1. i \in 1 .. n
        BY <3>2
      <4>2. PICK j \in 1 .. i - 1 : ran[j].action = b
        BY <1>7, <2>2, <4>1 DEF Dispatching, ImplicitRunFirst
      <4>3. j \in 1 .. n
        BY <4>1
      <4> QED
        BY <1>7, <4>2, <4>3
    <3> QED
      BY <3>1, <3>2
  <2> QED
    BY <1>1, <1>6, <1>7, <1>16, <2>2 DEF ImplicitRunFirst
<1>18. ResultsInTime' <=> ResultsInTime
  BY <1>1, SameTable
<1>19. NothingTooEarly'
  <2>1. SUFFICES ASSUME ResultsInTime, NEW j \in DOMAIN done, NEW i \in DOMAIN p,
                        NEW r \in {p[i].action} \cup ResultsOf[actions][p[i].action]
                 PROVE  ~RunsAfter(done[j].action, r)
    BY <1>1, <1>6, <1>16, <1>18 DEF NothingTooEarly
  <2>2. \/ \E m \in DOMAIN queue : /\ r \in {queue[m].action} \cup ResultsOf[actions][queue[m].action]
                                  /\ m # k
        \/ r \in ResultsOf[actions][a]
    <3>1. CASE \E m \in DOMAIN queue : m # k /\ p[i] = queue[m]
      BY <2>1, <3>1
    <3>2. CASE p[i].action \in Children(Started(actions), a)
      BY <1>2, <2>1, <3>2, TableFacts
    <3> QED
      BY <1>10, <3>1, <3>2
  <2>3. PICK m \in DOMAIN queue : /\ r \in {queue[m].action} \cup ResultsOf[actions][queue[m].action]
                                  /\ r \in ResultsOf[actions][queue[m].action] \/ m # k
    BY <1>2, <1>4, <1>8, <2>2
  <2>4. CASE j \in DOMAIN ran /\ done[j] = ran[j]
    BY <2>1, <2>3, <2>4 DEF Dispatching, NothingTooEarly
  <2>5. CASE done[j] = h
    <3>1. CASE r = queue[m].action
      BY <1>2, <1>4, <2>5, <3>1, TopRunsFirst
    <3>2. CASE r \in ResultsOf[actions][queue[m].action]
      <4>1. queue[m].action \in DOMAIN actions
        BY <1>14
      <4>2. RunsAfter(a, r) => actions[a].priority > actions[queue[m].action].priority
        BY <2>1, <3>2, <4>1 DEF ResultsInTime
      <4>3. ~(actions[a].priority > actions[queue[m].action].priority)
        BY <1>2, <1>4, <1>8, TopRunsFirst
      <4> QED
        BY <1>8, <2>5, <4>2, <4>3
    <3> QED
      BY <2>3, <3>1, <3>2
  <2> QED
    BY <1>5, <2>4, <2>5 DEF Appended
<1>20. OrderEnforcedInTime'
  <2>1. SUFFICES ASSUME ResultsInTime, NEW i \in 1 .. n + 1, NEW j \in 1 .. n + 1, i < j
                 PROVE  ~RunsAfter(done[i].action, done[j].action)
    BY <1>6, <1>7, <1>16, <1>18 DEF OrderEnforcedInTime, OrderEnforced
  <2>2. i \in 1 .. n
    BY <2>1
  <2>3. CASE j = n + 1
    <3>1. done[j] = queue[k] /\ done[i] = ran[i] /\ i \in DOMAIN ran
      BY <1>4, <1>7, <2>2, <2>3
    <3> QED
      BY <1>2, <2>1, <3>1 DEF Dispatching, NothingTooEarly
  <2>4. CASE j # n + 1
    <3>1. j \in 1 .. n
      BY <2>4
    <3> QED
      BY <1>7, <2>1, <2>2, <3>1 DEF Dispatching, OrderEnforcedInTime, OrderEnforced
  <2> QED
    BY <2>3, <2>4
<1>21. RequirementsMet'
  <2>1. \A b \in Given : b \in DOMAIN actions /\ Children(Graph("requires"), b) \subseteq Given
    BY DEF Dispatching, RequirementsMet
  <2>2. Given' = Given /\ DOMAIN actions' = DOMAIN actions /\ \A b : Children(Graph("requires"), b)' = Children(Graph("requires"), b)
    BY <1>1, SameTable, SameOptions
  <2> QED
    BY <2>1, <2>2 DEF RequirementsMet
<1>22. MeaningfulTaken'
  <2>1. helpActionId' = helpActionId /\ \A g : Meaningful(g)' <=> Meaningful(g)
    BY <1>1, SameHelp
  <2>2. SUFFICES ASSUME helpActionId # 0
                 PROVE  (\E i \in DOMAIN p : Meaningful(p[i])) \/ (\E i \in DOMAIN done : Meaningful(done[i]))
    BY <1>6, <2>1 DEF MeaningfulTaken
  <2>3. (\E i \in DOMAIN queue : Meaningful(queue[i])) \/ (\E i \in DOMAIN ran : Meaningful(ran[i]))
    BY <2>2 DEF Dispatching, MeaningfulTaken
  <2>4. ASSUME NEW j \in DOMAIN queue
        PROVE  (\E i \in DOMAIN p : p[i] = queue[j]) \/ (\E i \in DOMAIN done : done[i] = queue[j])
    <3>1. \E i \in DOMAIN done : done[i] = queue[k]
      BY <1>4, <1>5 DEF Appended
    <3> QED
      BY <1>10, <3>1
  <2>5. \A j \in DOMAIN ran : j \in DOMAIN done /\ done[j] = ran[j]
    BY <1>5 DEF Appended
  <2> QED
    BY <2>3, <2>4, <2>5
<1>23. TakenInRange'
  <2>1. SUFFICES ASSUME NoShort, AddedTakeNone
                 PROVE  AllInRange(list)' /\ AllInRange(queue)' /\ AllInRange(ran)'
    BY <1>1, SameTable DEF TakenInRange
  <2>2. AllInRange(list) /\ AllInRange(queue) /\ AllInRange(ran)
    BY <2>1 DEF Dispatching, TakenInRange
  <2>3. \A b, args : InRange(b, args)' <=> InRange(b, args)
    BY <1>1, SameTable
  <2>4. \A i \in DOMAIN p : InRange(p[i].action, p[i].args)
    BY <1>10, <2>2 DEF AllInRange
  <2>5. InRange(h.action, h.args)
    BY <1>2, <1>4, <2>2 DEF AllInRange
  <2>6. \A i \in DOMAIN done : InRange(done[i].action, done[i].args)
    BY <1>5, <2>2, <2>5 DEF AllInRange, Appended
  <2> QED
    BY <1>1, <1>6, <2>2, <2>3, <2>4, <2>6 DEF AllInRange
<1>24. ImplicitTaken' /\ SomethingMeaningful'
  BY <1>15 DEF ImplicitTaken, SomethingMeaningful
<1> QED
  BY <1>11, <1>17, <1>19, <1>20, <1>21, <1>22, <1>23, <1>24 DEF Dispatching

LEMMA PoppedReplaces ==
  ASSUME Typed, NEW k \in DOMAIN queue
  PROVE  Replaces(Popped(k), k)
<1>1. PICK H : H = Handlers
  OBVIOUS
<1>2. queue \in Seq(H)
  BY <1>1 DEF Typed
<1>3. PICK p \in Seq(H) : p = RemoveAt(queue, k) /\ Removed(p, queue, k)
  BY <1>2, RemovedOne, Zenon
<1>4. Replaces(p, k)
  BY <1>1, <1>3 DEF Replaces, Removed
<1> QED
  BY <1>3, <1>4, Zenon DEF Popped

LEMMA AppendedReplaces ==
  ASSUME Typed, NEW k \in DOMAIN queue, NEW result \in AnyResult, Allowed(queue[k], result)
  PROVE  Replaces(Append(Popped(k), result), k)
<1>1. PICK H : H = Handlers
  OBVIOUS
<1>2. PICK q \in Seq(H) : q = Popped(k) /\ Replaces(q, k)
  BY <1>1, PoppedReplaces DEF Replaces
<1>3. /\ result.action \in Children(Started(actions), queue[k].action)
      /\ InRange(result.action, result.args)
  <2>1. Graph("metadeps") = Started(actions)
    BY DEF Graph, Started
  <2> QED
    BY <2>1 DEF Allowed
<1>4. result \in H
  <2>1. actions \in Tables /\ queue[k] \in Handlers
    BY DEF Typed
  <2>2. queue[k].action \in DOMAIN actions
    BY <2>1 DEF Handlers
  <2>3. Children(Started(actions), queue[k].action) \subseteq DOMAIN actions
    BY <2>1, <2>2, TableFacts
  <2>4. result.action \in DOMAIN actions
    BY <1>3, <2>3
  <2>5. 0 .. MaxMetaArgs \subseteq Nat
    BY MetaArgsAreBounded
  <2>6. result \in [action : DOMAIN actions, args : Nat, place : Nat]
    BY <2>4, <2>5 DEF AnyResult
  <2> QED
    BY <1>1, <2>6 DEF Handlers
<1>5. PICK p \in Seq(H) : p = Append(q, result) /\ Appended(p, q, result)
  BY <1>2, <1>4, AppendedOne, Zenon
<1>6. Replaces(p, k)
  <2>1. \A j \in DOMAIN queue : j # k => \E i \in DOMAIN q : q[i] = queue[j]
    BY <1>2 DEF Replaces
  <2>2. \A i \in DOMAIN q :
       \/ \E j \in DOMAIN queue : j # k /\ q[i] = queue[j]
       \/ /\ q[i].action \in Children(Started(actions), queue[k].action)
          /\ InRange(q[i].action, q[i].args)
    BY <1>2 DEF Replaces
  <2>3. /\ \A i \in DOMAIN q : i \in DOMAIN p /\ p[i] = q[i]
        /\ \A i \in DOMAIN p : p[i] = result \/ (i \in DOMAIN q /\ p[i] = q[i])
    BY <1>5 DEF Appended
  <2>4. \A j \in DOMAIN queue : j # k => \E i \in DOMAIN p : p[i] = queue[j]
    BY <2>1, <2>3
  <2>5. \A i \in DOMAIN p :
       \/ \E j \in DOMAIN queue : j # k /\ p[i] = queue[j]
       \/ /\ p[i].action \in Children(Started(actions), queue[k].action)
          /\ InRange(p[i].action, p[i].args)
    BY <1>3, <2>2, <2>3
  <2> QED
    BY <1>1, <2>4, <2>5 DEF Replaces
<1> QED
  BY <1>2, <1>5, <1>6, Zenon

LEMMA HandlerStep ==
  ASSUME Dispatching, NEW k \in DOMAIN queue,
         \/ \E outcome \in {"run", "failed", "crashed"} : RunStandard(k, outcome)
         \/ \E result \in AnyResult : RunMeta(k, result)
         \/ CrashMeta(k)
  PROVE  Dispatching'
<1>1. Typed
  BY DEF Dispatching
<1>2. CASE \E outcome \in {"run", "failed", "crashed"} : RunStandard(k, outcome)
  <2>1. /\ status = "run" /\ k \in Tops /\ UNCHANGED <<input, pos, list>> /\ queue' = Popped(k)
        /\ ran' = Append(ran, queue[k]) /\ status' \in {"run", "failed", "crashed"}
    BY <1>2 DEF RunStandard
  <2> QED
    BY <1>1, <2>1, PoppedReplaces, PopStep
<1>3. ASSUME NEW result \in AnyResult, RunMeta(k, result)
      PROVE  Dispatching'
  <2>1. /\ status = "run" /\ k \in Tops /\ UNCHANGED <<input, pos, list>>
        /\ ran' = Append(ran, queue[k]) /\ status' \in {"run", "failed", "crashed"}
    BY <1>3 DEF RunMeta
  <2>2. CASE Allowed(queue[k], result)
    <3>1. queue' = Append(Popped(k), result)
      BY <1>3, <2>2 DEF RunMeta
    <3> QED
      BY <1>1, <2>1, <2>2, <3>1, AppendedReplaces, PopStep
  <2>3. CASE ~Allowed(queue[k], result)
    <3>1. queue' = Popped(k)
      BY <1>3, <2>3 DEF RunMeta
    <3> QED
      BY <1>1, <2>1, <3>1, PoppedReplaces, PopStep
  <2> QED
    BY <2>2, <2>3
<1>4. CASE CrashMeta(k)
  <2>1. /\ status = "run" /\ k \in Tops /\ UNCHANGED <<input, pos, list>> /\ queue' = Popped(k)
        /\ ran' = Append(ran, queue[k]) /\ status' \in {"run", "failed", "crashed"}
    BY <1>4 DEF CrashMeta
  <2> QED
    BY <1>1, <2>1, PoppedReplaces, PopStep
<1> QED
  BY <1>2, <1>3, <1>4

LEMMA ReturnStep ==
  ASSUME Dispatching, Return
  PROVE  Dispatching'
<1>1. /\ status = "run" /\ queue = <<>> /\ status' = "ok"
      /\ UNCHANGED <<input, pos, list, queue, ran>> /\ UNCHANGED input /\ Typed
  BY DEF Return, Dispatching
<1>2. Typed'
  BY <1>1, SameTyped DEF Parsing
<1>3. ImplicitTaken' /\ ImplicitRunFirst' /\ NothingTooEarly' /\ OrderEnforcedInTime' /\ TakenInRange'
  BY <1>1, SameState DEF Dispatching, ImplicitTaken
<1>4. RequirementsMet'
  <2>1. \A b \in Given : b \in DOMAIN actions /\ Children(Graph("requires"), b) \subseteq Given
    BY <1>1 DEF Dispatching, RequirementsMet
  <2>2. Given' = Given /\ DOMAIN actions' = DOMAIN actions /\ \A b : Children(Graph("requires"), b)' = Children(Graph("requires"), b)
    BY <1>1, SameTable, SameOptions DEF input
  <2> QED
    BY <1>1, <2>1, <2>2 DEF RequirementsMet
<1>5. MeaningfulTaken' /\ SomethingMeaningful'
  <2>1. helpActionId' = helpActionId /\ \A g : Meaningful(g)' <=> Meaningful(g)
    BY <1>1, SameHelp
  <2>2. DOMAIN queue = {}
    BY <1>1
  <2>3. helpActionId # 0 => \E k \in DOMAIN ran : Meaningful(ran[k])
    BY <1>1, <2>2 DEF Dispatching, MeaningfulTaken
  <2> QED
    BY <1>1, <2>1, <2>3 DEF MeaningfulTaken, SomethingMeaningful
<1> QED
  BY <1>2, <1>3, <1>4, <1>5 DEF Dispatching

LEMMA StutterStep ==
  ASSUME Dispatching, UNCHANGED vars
  PROVE  Dispatching'
<1>1. UNCHANGED <<input, pos, list, queue, ran>> /\ UNCHANGED input /\ status' = status /\ Typed
  BY DEF vars, Dispatching
<1>2. Typed'
  <2>1. status' \in {"parse", "implicit", "help", "run", "ok", "failed", "crashed", "overflow"}
    BY <1>1 DEF Typed
  <2> QED
    BY <1>1, <2>1, SameTyped DEF Parsing
<1>3. ImplicitTaken' /\ ImplicitRunFirst' /\ NothingTooEarly' /\ OrderEnforcedInTime' /\ TakenInRange'
  BY <1>1, SameState DEF Dispatching, ImplicitTaken
<1>4. RequirementsMet'
  <2>1. /\ Given' = Given /\ DOMAIN actions' = DOMAIN actions
        /\ \A b : Children(Graph("requires"), b)' = Children(Graph("requires"), b)
        /\ GivenBefore(pos)' = GivenBefore(pos)
    <3>1. actions' = actions /\ argv' = argv /\ \A arg : OptionsOf(arg)' = OptionsOf(arg)
      BY <1>1, SameOptions DEF input
    <3>2. GivenBefore(pos)' = GivenBefore(pos)
      BY <1>1, <3>1 DEF GivenBefore
    <3> QED
      BY <1>1, <3>1, <3>2, SameTable, SameOptions
  <2>2. ActionsOf(list)' = ActionsOf(list)
    BY <1>1, SameState
  <2> QED
    BY <1>1, <2>1, <2>2 DEF Dispatching, RequirementsMet
<1>5. MeaningfulTaken' /\ SomethingMeaningful'
  <2>1. helpActionId' = helpActionId /\ \A g : Meaningful(g)' <=> Meaningful(g)
    BY <1>1, SameHelp
  <2> QED
    BY <1>1, <2>1 DEF Dispatching, MeaningfulTaken, SomethingMeaningful
<1> QED
  BY <1>2, <1>3, <1>4, <1>5 DEF Dispatching

LEMMA NextDispatching ==
  ASSUME Dispatching, [Next]_vars
  PROVE  Dispatching'
<1>1. CASE Prepare
  BY <1>1, ParsingStep, RequiresStep, ImplicitStep, HelpStep DEF Prepare
<1>2. ASSUME NEW k \in DOMAIN queue,
             \/ \E outcome \in {"run", "failed", "crashed"} : RunStandard(k, outcome)
             \/ \E result \in AnyResult : RunMeta(k, result)
             \/ CrashMeta(k)
      PROVE  Dispatching'
  BY <1>2, HandlerStep
<1>3. CASE Return
  BY <1>3, ReturnStep
<1>4. CASE UNCHANGED vars
  BY <1>4, StutterStep
<1> QED
  BY <1>1, <1>2, <1>3, <1>4 DEF Next

\* What the options require, also through others, is met once what each of them
\* requires is.
LEMMA RequirementsReach == Dispatching => RequiredAreGiven
<1> SUFFICES ASSUME Dispatching, ran # <<>>, NEW a \in Given
             PROVE  Reached(Graph("requires"))[a] \subseteq Given
  BY DEF RequiredAreGiven
<1>1. actions \in Tables
  BY DEF Dispatching, Typed
<1>2. PICK X : X = Given
  OBVIOUS
<1>3. \A b \in X : b \in DOMAIN actions /\ Children(Graph("requires"), b) \subseteq X
  BY <1>2 DEF Dispatching, RequirementsMet
<1>4. PICK g : g = Graph("requires") /\ IsGraph(g) /\ DOMAIN g = DOMAIN actions
  <2>1. Graph("requires") = Requires(actions)
    BY DEF Graph, Requires
  <2> QED
    BY <1>1, <2>1, TablesAreGraphs
<1>5. Children(g, a) \subseteq X /\ \A b \in X : Children(g, b) \subseteq X
  BY <1>2, <1>3, <1>4
<1>6. Reached(g)[a] \subseteq X
  BY <1>2, <1>3, <1>4, <1>5, ReachedIsLeast
<1> QED
  BY <1>2, <1>4, <1>6

-----------------------------------------------------------------------------
(* odbc: its handlers are some of those that the parser expects.           *)

LEMMA OutcomesAreStatuses ==
  ASSUME NEW h, NEW s, NEW o \in Outcomes(h, s)
  PROVE  o.status \in {"run", "failed", "crashed"}
<1>1. /\ \A t : \A d \in Done(t) : d.status = "run"
      /\ \A t : \A d \in FailedWith(t) : d.status = "failed"
      /\ \A t : \A d \in CrashedWith(t) : d.status = "crashed"
  BY DEF Done, FailedWith, CrashedWith
<1> DEFINE Fine(S) == \A d \in S : d.status \in {"run", "failed", "crashed"}
<1>2. Fine(setSDKRootDir(h, s)) /\ Fine(setSDKType(h, s)) /\ Fine(setAdditionalPluginsDir(h, s)) /\ Fine(initSDK(h, s))
  <2>1. Fine(setSDKRootDir(h, s))
    BY <1>1 DEF setSDKRootDir
  <2>2. Fine(setSDKType(h, s))
    <3>1. ASSUME NEW d \in setSDKType(h, s)
          PROVE  d \in FailedWith(s) \/ \E type : d \in Done([s EXCEPT !.sdkType = type])
      BY DEF setSDKType
    <3> QED
      BY <1>1, <3>1
  <2>3. Fine(setAdditionalPluginsDir(h, s))
    BY <1>1 DEF setAdditionalPluginsDir
  <2>4. Fine(initSDK(h, s))
    BY <1>1 DEF initSDK
  <2> QED
    BY <2>1, <2>2, <2>3, <2>4
<1>3. Fine(loadCommands(h, s)) /\ Fine(initCommandMatcher(h, s))
  <2>1. loadCommands(h, s) \subseteq FailedWith(s) \cup CrashedWith(s) \cup Done([s EXCEPT !.cmdIndex = <<SdkSettings(s)>>])
    BY DEF loadCommands
  <2>2. Fine(loadCommands(h, s))
    BY <1>1, <2>1
  <2>3. Fine(initCommandMatcher(h, s))
    BY <1>1 DEF initCommandMatcher
  <2> QED
    BY <2>2, <2>3
<1>4. Fine(parseDBA(h, s))
  <2>1. ASSUME NEW d \in parseDBA(h, s)
        PROVE  d.status \in {"run", "failed", "crashed"}
    <3>1. \E n \in 0 .. h.args : \E t : d = [status |-> IF n = h.args THEN "run" ELSE "failed", session |-> t]
      BY DEF parseDBA
    <3> QED
      BY <3>1
  <2> QED
    BY <2>1
<1>5. Fine(dumpASTDOT(h, s)) /\ Fine(dumpASTJSON(h, s))
  BY <1>1 DEF dumpASTDOT, dumpASTJSON
<1>6. Fine(setOutputType(h, s)) /\ Fine(setArch(h, s)) /\ Fine(setPlatform(h, s))
  BY <1>1 DEF setOutputType, setArch, setPlatform
<1>7. Fine(output(h, s))
  <2>1. PICK target : target = WithTarget(s)
    OBVIOUS
  <2>2. PICK written : written = [target EXCEPT !.written = Append(@, Written(target))]
    OBVIOUS
  <2>3. output(h, s) \subseteq CrashedWith(s) \cup FailedWith(s) \cup CrashedWith(target) \cup FailedWith(target) \cup Done(written)
    BY <2>1, <2>2 DEF output
  <2> QED
    BY <1>1, <2>3
<1>8. Fine(Done(s)) /\ Fine(Done(s) \cup FailedWith(s)) /\ Fine(printHelp(h, s))
  BY <1>1 DEF printHelp
<1> HIDE DEF Fine
<1>9. Fine(Outcomes(h, s))
  BY <1>2, <1>3, <1>4, <1>5, <1>6, <1>7, <1>8, Zenon DEF Outcomes
<1> QED
  BY <1>9 DEF Fine

LEMMA ResultsAreResults ==
  ASSUME NEW h, NEW result \in Results(h)
  PROVE  result \in AnyResult
<1>1. 0 \in 0 .. MaxMetaArgs /\ 1 \in 0 .. MaxMetaArgs
  BY MetaArgsAreBounded, OneIsReturned
<1>2. NoAction \in AnyResult
  BY <1>1 DEF NoAction, Handler, AnyResult
<1>3. ASSUME NEW a \in DOMAIN actions
      PROVE  Handler(a, 1, 0) \in AnyResult
  BY <1>1 DEF Handler, AnyResult
<1>4. Results(h) \subseteq {NoAction} \cup {Handler(a, 1, 0) : a \in DOMAIN actions} \cup AnyResult
  <2>1. CASE actions[h.action].func = "warn"
    <3>1. Results(h) = {NoAction} \cup {Handler(a, 1, 0) : a \in {b \in DOMAIN actions : actions[b].func = "warnTest"}}
      BY <2>1 DEF Results
    <3> QED
      BY <3>1
  <2>2. CASE actions[h.action].func # "warn"
    <3>1. Results(h) \in {{NoAction}, AnyResult}
      BY <2>2 DEF Results
    <3> QED
      BY <3>1
  <2> QED
    BY <2>1, <2>2
<1> QED
  BY <1>2, <1>3, <1>4

\* What odbc does is what a program may do that has its handlers run by the
\* generated parser: in each step, or the step changes nothing of the parser's.
THEOREM CliRunsTheParser == CliSpec => Init /\ [][Next]_vars
<1>1. CliInit => Init
  BY DEF CliInit
<1>2. ASSUME [CliNext]_cliVars
      PROVE  [Next]_vars
  <2>1. CASE Prepare \/ Return
    BY <2>1 DEF Next
  <2>2. ASSUME NEW k \in DOMAIN queue, NEW o \in Outcomes(queue[k], session), RunStandard(k, o.status)
        PROVE  Next
    <3>1. o.status \in {"run", "failed", "crashed"}
      BY <2>2, OutcomesAreStatuses
    <3> QED
      BY <2>2, <3>1 DEF Next
  <2>3. ASSUME NEW k \in DOMAIN queue, NEW result \in Results(queue[k]), RunMeta(k, result)
        PROVE  Next
    <3>1. result \in AnyResult
      BY <2>3, ResultsAreResults
    <3> QED
      BY <2>3, <3>1 DEF Next
  <2>4. ASSUME NEW k \in DOMAIN queue, CrashMeta(k)
        PROVE  Next
    BY <2>4 DEF Next
  <2>5. CASE UNCHANGED cliVars
    BY <2>5 DEF cliVars
  <2> QED
    BY <1>2, <2>1, <2>2, <2>3, <2>4, <2>5 DEF CliNext
<1> QED
  BY <1>1, <1>2, PTL DEF CliSpec

-----------------------------------------------------------------------------
(* The theorems: of the parser with any handlers, and of odbc.             *)

LEMMA Invariance == Init /\ [][Next]_vars => []Dispatching
<1>1. Init => Dispatching
  BY InitDispatching
<1>2. Dispatching /\ [Next]_vars => Dispatching'
  BY NextDispatching
<1> QED
  BY <1>1, <1>2, PTL

\* The inductive invariant holds.
THEOREM DispatchingHolds == (Spec => []Dispatching) /\ (CliSpec => []Dispatching)
<1>1. Spec => Init /\ [][Next]_vars
  BY PTL DEF Spec
<1> QED
  BY <1>1, Invariance, CliRunsTheParser, PTL

\* An implicit action has run before everything that runs after it, also if the
\* result of the result of a meta action brings it in.
THEOREM ImplicitFirst == (Spec => []ImplicitRunFirst) /\ (CliSpec => []ImplicitRunFirst)
<1>1. Dispatching => ImplicitRunFirst
  BY DEF Dispatching
<1> QED
  BY <1>1, DispatchingHolds, PTL

\* In a table in which the results of meta actions come in time, no handler runs
\* before one that it has to run after.
THEOREM OrderIsKept == (Spec => []OrderEnforcedInTime) /\ (CliSpec => []OrderEnforcedInTime)
<1>1. Dispatching => OrderEnforcedInTime
  BY DEF Dispatching
<1> QED
  BY <1>1, DispatchingHolds, PTL

\* Nothing runs before everything that the options require, also through others,
\* is known to be on the command line.
THEOREM RequirementsFirst == (Spec => []RequiredAreGiven) /\ (CliSpec => []RequiredAreGiven)
<1>1. Dispatching => RequiredAreGiven
  BY RequirementsReach
<1> QED
  BY <1>1, DispatchingHolds, PTL

\* A parse succeeds only if something meaningful has run, or the help.
THEOREM HelpIsShown == (Spec => []SomethingMeaningful) /\ (CliSpec => []SomethingMeaningful)
<1>1. Dispatching => SomethingMeaningful
  BY DEF Dispatching
<1> QED
  BY <1>1, DispatchingHolds, PTL

\* Without short options, no handler is called with a number of arguments that
\* its declaration excludes, whether an option, the parser or a meta action
\* started it.
THEOREM ArgumentsFit == (Spec => []ArgumentsInRangeButShort) /\ (CliSpec => []ArgumentsInRangeButShort)
<1>1. Dispatching => ArgumentsInRangeButShort
  BY DEF Dispatching, TakenInRange, AllInRange, ArgumentsInRangeButShort, ArgumentsInRange
<1> QED
  BY <1>1, DispatchingHolds, PTL

-----------------------------------------------------------------------------
FuncOf(h) == actions[h.action].func
Ran(func) == \E j \in DOMAIN ran : FuncOf(ran[j]) = func
Loaded(s) == <<SdkSettings(s)>>
Writing(ast, s) ==
  [ast |-> ast, sdk |-> SdkSettings(s), type |-> s.outputType, arch |-> s.arch, platform |-> s.platform]

\* The fields of the session, its tree and what has been written.
Files == Nat \X Nat
IsSession(s) ==
  /\ DOMAIN s = DOMAIN InitialSession
  /\ s.ast \in Seq(Files)
  /\ \E S : s.written \in Seq(S)

\* What has run did not have to wait for a setting that is still queued.
SettersAreDone ==
  \A j \in DOMAIN ran : \A k \in DOMAIN queue :
    FuncOf(queue[k]) \in SdkHandlers \cup TargetHandlers =>
      ~(Is(ran[j], "priority") > Is(queue[k], "priority"))

\* The commands were loaded with the settings that there are now, and the matcher
\* knows them.
CommandsInTime ==
  /\ session.cmdIndex \in {Unset, Loaded(session)}
  /\ session.cmdIndex # Unset => Ran("loadCommands")
  /\ status = "run" /\ Ran("loadCommands") => session.cmdIndex # Unset
  /\ status = "run" /\ Ran("initCommandMatcher") =>
       session.cmdMatcher = Loaded(session) /\ Ran("loadCommands")
  /\ session.parsedWith \subseteq {Loaded(session)}
  /\ session.parsedWith # {} => Ran("loadCommands")

\* Once something has been written, the target is chosen.
OutputInTime ==
  /\ session.written # <<>> => Ran("output") /\ session.arch # "" /\ session.platform # ""
  /\ \A k \in DOMAIN session.written :
       session.written[k] = Writing(session.written[k].ast, session)

\* A handler that reads an argument has one, or an option of the command line
\* explains why not.
Excused(handlers) ==
  \A k \in DOMAIN handlers :
    /\ FuncOf(handlers[k]) = "parseDBA" => handlers[k].args # 0
    /\ FuncOf(handlers[k]) \in {"output", "warn"} /\ handlers[k].args = 0 =>
         \E n \in DOMAIN argv : ReadsNothing(n)

\* A file that is given has been parsed, or still will be.
FilesAreParsed ==
  /\ status \in {"implicit", "help"} => Given \subseteq ActionsOf(list)
  /\ status = "run" /\ "parseDBA" \in GivenFuncs =>
       session.ast # <<>> \/ \E k \in DOMAIN queue : FuncOf(queue[k]) = "parseDBA"

Sessions ==
  /\ IsSession(session)
  /\ Parsing => session = InitialSession
  /\ SettersAreDone
  /\ CommandsInTime
  /\ OutputInTime
  /\ Excused(list) /\ Excused(queue)
  /\ FilesAreParsed
  /\ CrashesForCause

-----------------------------------------------------------------------------
(* The handlers.                                                           *)

\* What a handler of the function f, with args arguments, makes of the session s:
\* the session t and the result, or the outcome o.
SettingsEffect(f, s, t) ==
  /\ f \notin SdkHandlers => SdkSettings(t) = SdkSettings(s)
  /\ f \notin TargetHandlers \cup {"output"} =>
       t.outputType = s.outputType /\ t.arch = s.arch /\ t.platform = s.platform
CommandsEffect(f, s, t, result) ==
  /\ f # "loadCommands" => t.cmdIndex = s.cmdIndex
  /\ f = "loadCommands" =>
       (result # "run" /\ t.cmdIndex = s.cmdIndex) \/ t.cmdIndex = Loaded(s)
  /\ f # "initCommandMatcher" => t.cmdMatcher = s.cmdMatcher
  /\ f = "initCommandMatcher" => t.cmdMatcher = s.cmdIndex
  /\ f # "parseDBA" => t.parsedWith = s.parsedWith
  /\ f = "parseDBA" => t.parsedWith = s.parsedWith \cup {s.cmdMatcher}
FilesEffect(f, args, s, t, result) ==
  /\ s.ast # <<>> => t.ast # <<>>
  /\ f = "parseDBA" /\ result = "run" /\ args # 0 => t.ast # <<>>
OutputEffect(f, s, t) ==
  /\ f # "output" => t.written = s.written
  /\ f = "output" =>
       /\ t.outputType = s.outputType
       /\ s.arch # "" => t.arch = s.arch
       /\ s.platform # "" => t.platform = s.platform
       /\ \/ t.written = s.written
          \/ /\ t.written = Append(s.written, Writing(s.ast, t))
             /\ t.arch # "" /\ t.platform # ""
Works(f, args, s, t, result) ==
  /\ IsSession(t)
  /\ SettingsEffect(f, s, t)
  /\ CommandsEffect(f, s, t, result)
  /\ FilesEffect(f, args, s, t, result)
  /\ OutputEffect(f, s, t)
\* What the loaders or the compiler do not survive.
Fatal(s) == SdkSettings(s) \in FatalSettings \/ Program(s) \in FatalPrograms
Effect(f, args, s, o) ==
  /\ Works(f, args, s, o.session, o.status)
  /\ o.status = "crashed" => (f = "output" /\ (args = 0 \/ s.ast = <<>>)) \/ Fatal(o.session)

\* A handler may leave the session as it is, unless it works for others.
LEMMA NothingDone ==
  ASSUME NEW s, IsSession(s), NEW f, f \notin {"loadCommands", "initCommandMatcher", "parseDBA"},
         NEW args, NEW result
  PROVE  Works(f, args, s, s, result)
BY DEF Works, SettingsEffect, CommandsEffect, FilesEffect, OutputEffect

\* The fields of the session by name.
LEMMA SessionFields ==
  DOMAIN InitialSession = {"sdkRoot", "sdkType", "pluginDirs", "cmdIndex", "cmdMatcher", "ast",
                           "parsedWith", "outputType", "arch", "platform", "written"}
BY DEF InitialSession

\* The SDK's handlers change its settings, and nothing else.
LEMMA SettingChanged ==
  ASSUME NEW s, IsSession(s), NEW f \in SdkHandlers, NEW args, NEW o, o.status = "run", NEW v,
         \/ o.session = [s EXCEPT !.sdkRoot = v]
         \/ o.session = [s EXCEPT !.sdkType = v]
         \/ o.session = [s EXCEPT !.pluginDirs = v]
  PROVE  Effect(f, args, s, o)
<1>1. f \notin {"loadCommands", "initCommandMatcher", "parseDBA", "output"} \cup TargetHandlers
  BY DEF SdkHandlers, TargetHandlers
<1>2. PICK t : t = o.session
  OBVIOUS
<1>3. /\ DOMAIN t = DOMAIN s /\ t.cmdIndex = s.cmdIndex /\ t.cmdMatcher = s.cmdMatcher
      /\ t.ast = s.ast /\ t.parsedWith = s.parsedWith /\ t.outputType = s.outputType
      /\ t.arch = s.arch /\ t.platform = s.platform /\ t.written = s.written
  <2>1. CASE t = [s EXCEPT !.sdkRoot = v]
    BY <2>1, SessionFields DEF IsSession
  <2>2. CASE t = [s EXCEPT !.sdkType = v]
    BY <2>2, SessionFields DEF IsSession
  <2>3. CASE t = [s EXCEPT !.pluginDirs = v]
    BY <2>3, SessionFields DEF IsSession
  <2> QED
    BY <1>2, <2>1, <2>2, <2>3
<1>4. IsSession(t)
  BY <1>3 DEF IsSession
<1>5. SettingsEffect(f, s, t)
  BY <1>3 DEF SettingsEffect
<1>6. CommandsEffect(f, s, t, o.status) /\ FilesEffect(f, args, s, t, o.status) /\ OutputEffect(f, s, t)
  BY <1>1, <1>3 DEF CommandsEffect, FilesEffect, OutputEffect
<1> QED
  BY <1>2, <1>4, <1>5, <1>6 DEF Effect, Works

\* So do the handlers of the target with its settings.
LEMMA TargetChanged ==
  ASSUME NEW s, IsSession(s), NEW f \in TargetHandlers, NEW args, NEW o, o.status = "run", NEW v,
         \/ o.session = [s EXCEPT !.outputType = v]
         \/ o.session = [s EXCEPT !.arch = v]
         \/ o.session = [s EXCEPT !.platform = v]
  PROVE  Effect(f, args, s, o)
<1>1. f \notin {"loadCommands", "initCommandMatcher", "parseDBA", "output"}
  BY DEF TargetHandlers
<1>2. PICK t : t = o.session
  OBVIOUS
<1>3. /\ DOMAIN t = DOMAIN s /\ t.cmdIndex = s.cmdIndex /\ t.cmdMatcher = s.cmdMatcher
      /\ t.ast = s.ast /\ t.parsedWith = s.parsedWith /\ t.sdkRoot = s.sdkRoot
      /\ t.sdkType = s.sdkType /\ t.pluginDirs = s.pluginDirs /\ t.written = s.written
  <2>1. CASE t = [s EXCEPT !.outputType = v]
    BY <2>1, SessionFields DEF IsSession
  <2>2. CASE t = [s EXCEPT !.arch = v]
    BY <2>2, SessionFields DEF IsSession
  <2>3. CASE t = [s EXCEPT !.platform = v]
    BY <2>3, SessionFields DEF IsSession
  <2> QED
    BY <1>2, <2>1, <2>2, <2>3
<1>4. IsSession(t)
  BY <1>3 DEF IsSession
<1>5. SettingsEffect(f, s, t)
  BY <1>3 DEF SettingsEffect, SdkSettings
<1>6. CommandsEffect(f, s, t, o.status) /\ FilesEffect(f, args, s, t, o.status) /\ OutputEffect(f, s, t)
  BY <1>1, <1>3 DEF CommandsEffect, FilesEffect, OutputEffect
<1> QED
  BY <1>2, <1>4, <1>5, <1>6 DEF Effect, Works

\* Commands are loaded with the settings of the session, or not at all.
LEMMA CommandsLoaded ==
  ASSUME NEW s, IsSession(s), NEW h, NEW args, NEW o \in loadCommands(h, s)
  PROVE  Effect("loadCommands", args, s, o)
<1>1. PICK t : t = o.session
  OBVIOUS
<1>2. \/ t = s /\ o.status = "failed"
      \/ t = s /\ o.status = "crashed" /\ SdkSettings(s) \in FatalSettings
      \/ t = [s EXCEPT !.cmdIndex = Loaded(s)] /\ o.status = "run"
  <2>1. CASE SdkSettings(s) \in FatalSettings
    BY <1>1, <2>1 DEF loadCommands, FailedWith, CrashedWith
  <2>2. CASE SdkSettings(s) \notin FatalSettings
    BY <1>1, <2>2 DEF loadCommands, Done, FailedWith, Loaded
  <2> QED
    BY <2>1, <2>2
<1>3. /\ DOMAIN t = DOMAIN s /\ t.cmdMatcher = s.cmdMatcher
      /\ t.ast = s.ast /\ t.parsedWith = s.parsedWith /\ t.sdkRoot = s.sdkRoot
      /\ t.sdkType = s.sdkType /\ t.pluginDirs = s.pluginDirs /\ t.written = s.written
      /\ t.outputType = s.outputType /\ t.arch = s.arch /\ t.platform = s.platform
      /\ (o.status # "run" /\ t.cmdIndex = s.cmdIndex) \/ t.cmdIndex = Loaded(s)
  BY <1>2, SessionFields DEF IsSession
<1>4. IsSession(t) /\ SettingsEffect("loadCommands", s, t)
  BY <1>3 DEF IsSession, SettingsEffect, SdkSettings
<1>5. /\ CommandsEffect("loadCommands", s, t, o.status)
      /\ FilesEffect("loadCommands", args, s, t, o.status) /\ OutputEffect("loadCommands", s, t)
  BY <1>3 DEF CommandsEffect, FilesEffect, OutputEffect
<1>6. o.status = "crashed" => Fatal(t)
  BY <1>2 DEF Fatal
<1> QED
  BY <1>1, <1>4, <1>5, <1>6 DEF Effect, Works

LEMMA MatcherUpdated ==
  ASSUME NEW s, IsSession(s), NEW h, NEW args, NEW o \in initCommandMatcher(h, s)
  PROVE  Effect("initCommandMatcher", args, s, o)
<1>1. PICK t : t = o.session
  OBVIOUS
<1>2. t = [s EXCEPT !.cmdMatcher = s.cmdIndex] /\ o.status = "run"
  BY <1>1 DEF initCommandMatcher, Done
<1>3. /\ DOMAIN t = DOMAIN s /\ t.cmdMatcher = s.cmdIndex /\ t.cmdIndex = s.cmdIndex
      /\ t.ast = s.ast /\ t.parsedWith = s.parsedWith /\ t.sdkRoot = s.sdkRoot
      /\ t.sdkType = s.sdkType /\ t.pluginDirs = s.pluginDirs /\ t.written = s.written
      /\ t.outputType = s.outputType /\ t.arch = s.arch /\ t.platform = s.platform
  BY <1>2, SessionFields DEF IsSession
<1>4. IsSession(t) /\ SettingsEffect("initCommandMatcher", s, t)
  BY <1>3 DEF IsSession, SettingsEffect, SdkSettings
<1>5. /\ CommandsEffect("initCommandMatcher", s, t, o.status)
      /\ FilesEffect("initCommandMatcher", args, s, t, o.status) /\ OutputEffect("initCommandMatcher", s, t)
  BY <1>3 DEF CommandsEffect, FilesEffect, OutputEffect
<1> QED
  BY <1>1, <1>2, <1>4, <1>5 DEF Effect, Works

\* The words of an option name files, as many as there are.
LEMMA WordsAreFiles ==
  ASSUME NEW h \in Handlers, NEW n \in 0 .. h.args
  PROVE  SubSeq(Words(h), 1, n) \in Seq(Files) /\ Len(SubSeq(Words(h), 1, n)) = n
<1>1. h.args \in Nat /\ h.place \in Nat
  BY DEF Handlers
<1>2. Words(h) \in Seq(Files) /\ Len(Words(h)) = h.args
  <2>1. \A k \in 1 .. h.args : <<h.place, k>> \in Files
    BY <1>1 DEF Files
  <2> QED
    BY <1>1, <2>1 DEF Words
<1> QED
  BY <1>1, <1>2

\* Files that are parsed are joined to the tree, which is not emptied.
LEMMA FilesParsed ==
  ASSUME NEW s, IsSession(s), NEW h \in Handlers, NEW o \in parseDBA(h, s)
  PROVE  Effect("parseDBA", h.args, s, o)
<1>1. PICK n \in 0 .. h.args :
        o = [status |-> IF n = h.args THEN "run" ELSE "failed",
             session |-> [s EXCEPT !.ast = @ \o SubSeq(Words(h), 1, n), !.parsedWith = @ \cup {s.cmdMatcher}]]
  BY DEF parseDBA
<1>2. PICK files \in Seq(Files) : files = SubSeq(Words(h), 1, n) /\ Len(files) = n
  BY WordsAreFiles
<1>3. PICK t : t = o.session
  OBVIOUS
<1>4. PICK ast \in Seq(Files) : /\ ast = s.ast \o files
                                /\ s.ast # <<>> => ast # <<>>
                                /\ n # 0 => ast # <<>>
  <2>1. PICK a \in Seq(Files) : a = s.ast
    BY DEF IsSession
  <2>2. PICK p : p = a \o files
    OBVIOUS
  <2>3. p \in Seq(Files) /\ Joined(p, a, files)
    BY <1>2, <2>2, Concatenated
  <2>4. a # <<>> => p # <<>>
    <3>1. a # <<>> => 1 \in DOMAIN a
      OBVIOUS
    <3> QED
      BY <2>3, <3>1 DEF Joined
  <2>5. n # 0 => p # <<>>
    <3>1. n # 0 => 1 \in DOMAIN files
      BY <1>2
    <3> QED
      BY <2>3, <3>1 DEF Joined
  <2> QED
    BY <2>1, <2>2, <2>3, <2>4, <2>5
<1>5. t = [s EXCEPT !.ast = ast, !.parsedWith = s.parsedWith \cup {s.cmdMatcher}]
  <2>1. "ast" \in DOMAIN s /\ "parsedWith" \in DOMAIN s
    BY SessionFields DEF IsSession
  <2> QED
    BY <1>1, <1>2, <1>3, <1>4, <2>1
<1>6. /\ o.status = "run" => n = h.args
      /\ o.status # "crashed"
  BY <1>1
<1>7. /\ DOMAIN t = DOMAIN s /\ t.cmdMatcher = s.cmdMatcher /\ t.cmdIndex = s.cmdIndex
      /\ t.ast = ast /\ t.parsedWith = s.parsedWith \cup {s.cmdMatcher} /\ t.sdkRoot = s.sdkRoot
      /\ t.sdkType = s.sdkType /\ t.pluginDirs = s.pluginDirs /\ t.written = s.written
      /\ t.outputType = s.outputType /\ t.arch = s.arch /\ t.platform = s.platform
  BY <1>5, SessionFields DEF IsSession
<1>8. IsSession(t) /\ SettingsEffect("parseDBA", s, t)
  BY <1>7 DEF IsSession, SettingsEffect, SdkSettings
<1>9. CommandsEffect("parseDBA", s, t, o.status) /\ OutputEffect("parseDBA", s, t)
  BY <1>7 DEF CommandsEffect, OutputEffect
<1>10. FilesEffect("parseDBA", h.args, s, t, o.status)
  BY <1>4, <1>6, <1>7 DEF FilesEffect
<1> QED
  BY <1>3, <1>6, <1>8, <1>9, <1>10 DEF Effect, Works

\* The output completes the target, and writes the tree for it.
LEMMA OutputWritten ==
  ASSUME NEW s, IsSession(s), NEW h, NEW o \in output(h, s)
  PROVE  Effect("output", h.args, s, o)
<1>1. PICK target : target = WithTarget(s)
  OBVIOUS
<1>2. PICK t : t = o.session
  OBVIOUS
<1>3. /\ DOMAIN target = DOMAIN s /\ target.cmdMatcher = s.cmdMatcher /\ target.cmdIndex = s.cmdIndex
      /\ target.ast = s.ast /\ target.parsedWith = s.parsedWith /\ target.sdkRoot = s.sdkRoot
      /\ target.sdkType = s.sdkType /\ target.pluginDirs = s.pluginDirs /\ target.written = s.written
      /\ target.outputType = s.outputType
      /\ s.arch # "" => target.arch = s.arch
      /\ s.platform # "" => target.platform = s.platform
      /\ target.arch # "" /\ target.platform # ""
  BY <1>1, SessionFields DEF IsSession, WithTarget
<1>4. PICK written : written = Append(s.written, Writing(s.ast, target))
  OBVIOUS
<1>5. Written(target) = Writing(s.ast, target)
  BY <1>3 DEF Written, Writing
<1>6. /\ \/ t = s \/ t = target \/ t = [target EXCEPT !.written = written]
      /\ o.status = "crashed" => h.args = 0 \/ s.ast = <<>> \/ Fatal(t)
  <2>1. [target EXCEPT !.written = Append(@, Written(target))] = [target EXCEPT !.written = written]
    <3>1. "written" \in DOMAIN target
      BY <1>3, SessionFields DEF IsSession
    <3> QED
      BY <1>3, <1>4, <1>5, <3>1
  <2>2. CASE h.args = 0
    BY <1>2, <2>2 DEF output, CrashedWith
  <2>3. CASE h.args # 0 /\ s.ast = <<>>
    BY <1>1, <1>2, <2>3 DEF output, CrashedWith, FailedWith
  <2>4. CASE h.args # 0 /\ Program(s) \in FatalPrograms
    <3>1. o \in FailedWith(s) \cup CrashedWith(target)
      BY <1>1, <2>4 DEF output
    <3>2. Program(target) = Program(s)
      BY <1>3 DEF Program
    <3> QED
      BY <1>2, <2>4, <3>1, <3>2 DEF FailedWith, CrashedWith, Fatal
  <2>5. CASE h.args # 0 /\ s.ast # <<>> /\ Program(s) \notin FatalPrograms
    <3>1. o \in FailedWith(s) \cup FailedWith(target) \cup Done([target EXCEPT !.written = written])
      BY <1>1, <2>1, <2>5 DEF output
    <3> QED
      BY <1>2, <3>1 DEF FailedWith, Done
  <2> QED
    BY <2>2, <2>3, <2>4, <2>5
<1>7. PICK S : s.written \in Seq(S)
  BY DEF IsSession
<1>8. CASE t = s
  <2>1. /\ SettingsEffect("output", s, t) /\ CommandsEffect("output", s, t, o.status)
        /\ FilesEffect("output", h.args, s, t, o.status) /\ OutputEffect("output", s, t)
    BY <1>8 DEF SettingsEffect, CommandsEffect, FilesEffect, OutputEffect
  <2> QED
    BY <1>2, <1>6, <1>8, <2>1 DEF Effect, Works
<1>9. CASE t = target
  <2>1. SettingsEffect("output", s, t) /\ IsSession(t)
    BY <1>3, <1>9 DEF SettingsEffect, SdkSettings, IsSession
  <2>2. /\ CommandsEffect("output", s, t, o.status)
        /\ FilesEffect("output", h.args, s, t, o.status) /\ OutputEffect("output", s, t)
    BY <1>3, <1>9 DEF CommandsEffect, FilesEffect, OutputEffect
  <2> QED
    BY <1>2, <1>6, <2>1, <2>2 DEF Effect, Works
<1>10. CASE t = [target EXCEPT !.written = written]
  <2>1. /\ DOMAIN t = DOMAIN s /\ t.cmdMatcher = s.cmdMatcher /\ t.cmdIndex = s.cmdIndex
        /\ t.ast = s.ast /\ t.parsedWith = s.parsedWith /\ t.sdkRoot = s.sdkRoot
        /\ t.sdkType = s.sdkType /\ t.pluginDirs = s.pluginDirs /\ t.written = written
        /\ t.outputType = s.outputType /\ t.arch = target.arch /\ t.platform = target.platform
    BY <1>3, <1>10, SessionFields DEF IsSession
  <2>2. Writing(s.ast, target) = Writing(s.ast, t)
    BY <1>3, <2>1 DEF Writing, SdkSettings
  <2>3. written \in Seq(S \cup {Writing(s.ast, target)})
    <3>1. PICK w : w = Writing(s.ast, target)
      OBVIOUS
    <3>2. s.written \in Seq(S \cup {w})
      BY <1>7
    <3> QED
      BY <1>4, <3>1, <3>2
  <2>4. IsSession(t)
    BY <2>1, <2>3 DEF IsSession
  <2>5. SettingsEffect("output", s, t)
    BY <1>3, <2>1 DEF SettingsEffect, SdkSettings
  <2>6. CommandsEffect("output", s, t, o.status) /\ FilesEffect("output", h.args, s, t, o.status)
    BY <2>1 DEF CommandsEffect, FilesEffect
  <2>7. OutputEffect("output", s, t)
    BY <1>3, <1>4, <2>1, <2>2 DEF OutputEffect
  <2> QED
    BY <1>2, <1>6, <2>4, <2>5, <2>6, <2>7 DEF Effect, Works
<1> QED
  BY <1>6, <1>8, <1>9, <1>10

\* What any handler does is within its effect.
LEMMA OutcomesHaveEffect ==
  ASSUME NEW s, IsSession(s), NEW h \in Handlers, NEW o \in Outcomes(h, s)
  PROVE  Effect(FuncOf(h), h.args, s, o)
<1>1. PICK f : f = FuncOf(h)
  OBVIOUS
<1> SUFFICES Effect(f, h.args, s, o)
  BY <1>1
<1>2. /\ \A d \in Done(s) : d.status = "run" /\ d.session = s
      /\ \A d \in FailedWith(s) : d.status = "failed" /\ d.session = s
      /\ \A t : \A d \in Done(t) : d.status = "run" /\ d.session = t
  BY DEF Done, FailedWith
<1>3. ASSUME f \notin {"loadCommands", "initCommandMatcher", "parseDBA"},
             o \in Done(s) \cup FailedWith(s)
      PROVE  Effect(f, h.args, s, o)
  <2>1. o.session = s /\ o.status # "crashed"
    BY <1>2, <1>3
  <2> QED
    BY <1>3, <2>1, NothingDone DEF Effect
<1>4. ASSUME f \in SdkHandlers, NEW v,
             \/ o \in Done([s EXCEPT !.sdkRoot = v])
             \/ o \in Done([s EXCEPT !.sdkType = v])
             \/ o \in Done([s EXCEPT !.pluginDirs = v])
      PROVE  Effect(f, h.args, s, o)
  BY <1>2, <1>4, SettingChanged
<1>5. ASSUME f \in TargetHandlers, NEW v,
             \/ o \in Done([s EXCEPT !.outputType = v])
             \/ o \in Done([s EXCEPT !.arch = v])
             \/ o \in Done([s EXCEPT !.platform = v])
      PROVE  Effect(f, h.args, s, o)
  BY <1>2, <1>5, TargetChanged
<1>6. CASE f = "setSDKRootDir"
  <2>1. o \in setSDKRootDir(h, s)
    BY <1>1, <1>6 DEF Outcomes, FuncOf
  <2>2. o \in FailedWith(s) \/ \E v : o \in Done([s EXCEPT !.sdkRoot = v])
    BY <2>1 DEF setSDKRootDir
  <2> QED
    BY <1>3, <1>4, <1>6, <2>2 DEF SdkHandlers
<1>7. CASE f = "setSDKType"
  <2>1. o \in setSDKType(h, s)
    BY <1>1, <1>7 DEF Outcomes, FuncOf
  <2>2. o \in FailedWith(s) \/ \E v : o \in Done([s EXCEPT !.sdkType = v])
    BY <2>1 DEF setSDKType
  <2> QED
    BY <1>3, <1>4, <1>7, <2>2 DEF SdkHandlers
<1>8. CASE f = "setAdditionalPluginsDir"
  <2>1. o \in setAdditionalPluginsDir(h, s)
    BY <1>1, <1>8 DEF Outcomes, FuncOf
  <2>2. \E v : o \in Done([s EXCEPT !.pluginDirs = v])
    <3>1. [s EXCEPT !.pluginDirs = @ \o Words(h)] = [s EXCEPT !.pluginDirs = s.pluginDirs \o Words(h)]
      BY SessionFields DEF IsSession
    <3> QED
      BY <2>1, <3>1 DEF setAdditionalPluginsDir
  <2> QED
    BY <1>4, <1>8, <2>2 DEF SdkHandlers
<1>9. CASE f = "initSDK"
  <2>1. o \in initSDK(h, s)
    BY <1>1, <1>9 DEF Outcomes, FuncOf
  <2>2. o \in Done(s) \cup FailedWith(s) \/ \E v : o \in Done([s EXCEPT !.sdkRoot = v])
    BY <2>1 DEF initSDK
  <2> QED
    BY <1>3, <1>4, <1>9, <2>2 DEF SdkHandlers
<1>10. CASE f = "loadCommands"
  <2>1. o \in loadCommands(h, s)
    BY <1>1, <1>10 DEF Outcomes, FuncOf
  <2> QED
    BY <1>10, <2>1, CommandsLoaded
<1>11. CASE f = "initCommandMatcher"
  <2>1. o \in initCommandMatcher(h, s)
    BY <1>1, <1>11 DEF Outcomes, FuncOf
  <2> QED
    BY <1>11, <2>1, MatcherUpdated
<1>12. CASE f = "parseDBA"
  <2>1. o \in parseDBA(h, s)
    BY <1>1, <1>12 DEF Outcomes, FuncOf
  <2> QED
    BY <1>12, <2>1, FilesParsed
<1>13. CASE f \in {"dumpASTDOT", "dumpASTJSON"}
  <2>1. o \in dumpASTDOT(h, s) \cup dumpASTJSON(h, s)
    BY <1>1, <1>13 DEF Outcomes, FuncOf
  <2>2. o \in Done(s) \cup FailedWith(s)
    BY <2>1 DEF dumpASTDOT, dumpASTJSON
  <2> QED
    BY <1>3, <1>13, <2>2
<1>14. CASE f \in TargetHandlers
  <2>1. o \in setOutputType(h, s) \cup setArch(h, s) \cup setPlatform(h, s)
    BY <1>1, <1>14 DEF Outcomes, FuncOf, TargetHandlers
  <2>2. \/ o \in Done(s)
        \/ \E v : \/ o \in Done([s EXCEPT !.outputType = v])
                  \/ o \in Done([s EXCEPT !.arch = v])
                  \/ o \in Done([s EXCEPT !.platform = v])
    BY <2>1 DEF setOutputType, setArch, setPlatform
  <2> QED
    BY <1>3, <1>5, <1>14, <2>2 DEF TargetHandlers
<1>15. CASE f = "output"
  <2>1. o \in output(h, s)
    BY <1>1, <1>15 DEF Outcomes, FuncOf
  <2> QED
    BY <1>15, <2>1, OutputWritten
<1>16. CASE f \notin SdkHandlers \cup TargetHandlers \cup
              {"loadCommands", "initCommandMatcher", "parseDBA", "dumpASTDOT", "dumpASTJSON", "output"}
  <2>1. o \in Done(s) \cup FailedWith(s)
    BY <1>1, <1>16 DEF Outcomes, FuncOf, SdkHandlers, TargetHandlers, printHelp
  <2> QED
    BY <1>3, <1>16, <2>1
<1>17. f \in SdkHandlers => f \in {"setSDKRootDir", "setSDKType", "setAdditionalPluginsDir", "initSDK"}
  BY DEF SdkHandlers
<1> QED
  BY <1>6, <1>7, <1>8, <1>9, <1>10, <1>11, <1>12, <1>13, <1>14, <1>15, <1>16, <1>17

-----------------------------------------------------------------------------
(* Before the handlers.                                                    *)

\* The table's order, action by action.
LEMMA HandlersInOrder ==
  ASSUME actions \in Tables
  PROVE  /\ \A a, b \in DOMAIN actions :
              /\ actions[a].func \in SdkHandlers /\ actions[b].func \in {"loadCommands", "output"}
                   => actions[a].priority < actions[b].priority
              /\ actions[a].func \in TargetHandlers \cup {"parseDBA"} /\ actions[b].func = "output"
                   => actions[a].priority < actions[b].priority
         /\ \A a, m \in DOMAIN actions :
              actions[a].func \in SdkHandlers \cup TargetHandlers \cup {"warn", "output"} =>
                a \notin Children(Started(actions), m)
         /\ \A a \in DOMAIN actions :
              /\ actions[a].func = "initCommandMatcher" =>
                   \E b \in DOMAIN actions :
                     actions[b].func = "loadCommands" /\ RunsAfter(a, b) /\ actions[b].implicit
              /\ actions[a].func = "parseDBA" =>
                   \E b \in DOMAIN actions :
                     actions[b].func = "initCommandMatcher" /\ RunsAfter(a, b) /\ actions[b].implicit
<1>1. \A a, b \in DOMAIN actions :
        /\ actions[a].func \in SdkHandlers /\ actions[b].func \in {"loadCommands", "output"}
             => a \in Before[actions][b]
        /\ actions[a].func = "parseDBA" /\ actions[b].func = "output" => a \in Before[actions][b]
        /\ actions[a].func \in TargetHandlers /\ actions[b].func = "output"
             => actions[a].priority < actions[b].priority
  BY HandlersAreOrdered DEF Calling
<1>2. \A b \in DOMAIN actions : \A a \in Before[actions][b] : actions[a].priority < actions[b].priority
  BY TableFacts
<1>3. \A a, b \in DOMAIN actions :
        /\ actions[a].func \in SdkHandlers /\ actions[b].func \in {"loadCommands", "output"}
             => actions[a].priority < actions[b].priority
        /\ actions[a].func \in TargetHandlers \cup {"parseDBA"} /\ actions[b].func = "output"
             => actions[a].priority < actions[b].priority
  BY <1>1, <1>2
<1>4. /\ \A a, m \in DOMAIN actions :
           actions[a].func \in SdkHandlers \cup TargetHandlers \cup {"warn", "output"} =>
             a \notin Children(Started(actions), m)
      /\ \A a \in DOMAIN actions :
           /\ actions[a].func = "initCommandMatcher" =>
                \E b \in DOMAIN actions :
                  actions[b].func = "loadCommands" /\ RunsAfter(a, b) /\ actions[b].implicit
           /\ actions[a].func = "parseDBA" =>
                \E b \in DOMAIN actions :
                  actions[b].func = "initCommandMatcher" /\ RunsAfter(a, b) /\ actions[b].implicit
  BY HandlersAreOrdered DEF Calling, RunsAfter
<1> QED
  BY <1>3, <1>4

LEMMA HandlersTake ==
  ASSUME actions \in Tables, NEW a \in DOMAIN actions
  PROVE  /\ actions[a].func \in {"parseDBA", "output", "warn"} =>
              ~actions[a].implicit /\ ~actions[a].help /\ actions[a].hi # 0
         /\ actions[a].func = "parseDBA" => actions[a].lo > 0 /\ actions[a].short = 0
         /\ actions[a].func = "warn" => actions[a].lo > 0
         /\ actions[a].func \in {"loadCommands", "initCommandMatcher", "parseDBA"} => ~actions[a].meta
BY HandlersTakeArguments DEF Calling

\* A number of arguments in range is not smaller than the least.
LEMMA RangesStart ==
  ASSUME actions \in Tables, NEW a \in DOMAIN actions, actions[a].lo > 0, InRange(a, 0)
  PROVE  FALSE
<1>1. PICK n \in Nat : n = actions[a].lo
  BY TablesAreTyped
<1> QED
  BY <1>1 DEF InRange

\* The options that are read do not depend on the state.
LEMMA SameReads ==
  ASSUME UNCHANGED input
  PROVE  /\ \A n : ReadsNothing(n)' <=> ReadsNothing(n)
         /\ GivenFuncs' = GivenFuncs
         /\ \A h : FuncOf(h)' = FuncOf(h)
         /\ \A h : Is(h, "priority")' = Is(h, "priority")
<1>1. actions' = actions /\ argv' = argv
  BY DEF input
<1>2. (\A arg : OptionsOf(arg)' = OptionsOf(arg)) /\ Given' = Given
  BY SameOptions
<1>3. \A n : WithoutWord(n)' <=> WithoutWord(n)
  BY <1>1 DEF WithoutWord
<1>4. GivenFuncs' = GivenFuncs
  BY <1>1, <1>2 DEF GivenFuncs
<1>5. ASSUME NEW n
      PROVE  ReadsNothing(n)' <=> ReadsNothing(n)
  <2>1. OptionsOf(argv[n])' = OptionsOf(argv[n])
    BY <1>1, <1>2
  <2> QED
    BY <1>1, <1>3, <2>1 DEF ReadsNothing
<1> QED
  BY <1>1, <1>4, <1>5 DEF FuncOf, Is

\* A list that has grown by handlers that are excused, or that the parser adds.
Grown(handlers, more) ==
  /\ \A k \in DOMAIN handlers : \E j \in DOMAIN more : more[j] = handlers[k]
  /\ \A k \in DOMAIN more :
       \/ \E j \in DOMAIN handlers : more[k] = handlers[j]
       \/ actions[more[k].action].implicit \/ actions[more[k].action].help

LEMMA GrownExcused ==
  ASSUME actions \in Tables, NEW handlers, Excused(handlers), NEW more \in Seq(Handlers), Grown(handlers, more)
  PROVE  Excused(more) /\ ActionsOf(handlers) \subseteq ActionsOf(more)
<1>1. ASSUME NEW k \in DOMAIN more, FuncOf(more[k]) \in {"parseDBA", "output", "warn"}
      PROVE  \E j \in DOMAIN handlers : more[k] = handlers[j]
  <2>1. more[k] \in Handlers
    OBVIOUS
  <2>2. more[k].action \in DOMAIN actions
    BY <2>1 DEF Handlers
  <2> QED
    BY <1>1, <2>2, HandlersTake DEF Grown, FuncOf
<1>2. Excused(more)
  BY <1>1 DEF Excused
<1>3. ActionsOf(handlers) \subseteq ActionsOf(more)
  BY DEF Grown, ActionsOf
<1> QED
  BY <1>2, <1>3

LEMMA ExtendedGrows ==
  ASSUME NEW handlers, NEW more, Extended(handlers, more)
  PROVE  Grown(handlers, more)
BY DEF Extended, Grown

\* A letter that names an action is the one in the table.
LEMMA ShortOptionsAreNamed ==
  ASSUME actions \in Tables, NEW letter, fromShortOption(letter) # 0
  PROVE  letter # 0 /\ actions[fromShortOption(letter)].short = letter
<1>1. PICK N : N = {a \in DOMAIN actions : letter # 0 /\ actions[a].short = letter}
  OBVIOUS
<1>2. N # {} /\ fromShortOption(letter) = Least(N)
  BY <1>1 DEF fromShortOption
<1>3. N \in SUBSET Nat
  BY <1>1, TablesAreTyped
<1>4. Least(N) \in N
  BY <1>2, <1>3, LeastIsLeast
<1> QED
  BY <1>1, <1>2, <1>4

\* A handler that was parsed has its argument, or is an option that reads none.
LEMMA ParsedExcused ==
  ASSUME Typed, NEW handlers, NEW n, Parses(handlers, n)
  PROVE  Excused(handlers)
<1>1. actions \in Tables /\ argv \in Lines(actions) /\ pos \in 1 .. Len(argv) + 1
  BY DEF Typed
<1>2. pos \in DOMAIN argv
  <2>1. Len(argv) \in Nat /\ DOMAIN argv = 1 .. Len(argv)
    BY <1>1, ArgumentsAreTyped
  <2>2. n \in Nat /\ n >= 1 /\ pos + n <= Len(argv) + 1
    BY DEF Parses
  <2> QED
    BY <1>1, <2>1, <2>2
<1>3. SUFFICES ASSUME NEW k \in DOMAIN handlers, FuncOf(handlers[k]) \in {"parseDBA", "output", "warn"},
                      handlers[k].args = 0
               PROVE  FuncOf(handlers[k]) # "parseDBA" /\ ReadsNothing(pos)
  BY <1>2 DEF Excused
<1>4. PICK a : a = handlers[k].action
  OBVIOUS
<1>5. a \in DOMAIN actions /\ a \in OptionsOf(argv[pos])
  <2>1. handlers[k] \in Handlers /\ ActionsOf(handlers) = OptionsOf(argv[pos])
    BY DEF Parses
  <2> QED
    BY <1>4, <2>1 DEF Handlers, ActionsOf
<1>6. a # 0
  BY <1>1, <1>5, TablesAreTyped
<1>7. actions[a].hi # 0 /\ (actions[a].func \in {"parseDBA", "warn"} => actions[a].lo > 0)
  BY <1>1, <1>3, <1>4, <1>5, HandlersTake DEF FuncOf
<1>8. argv[pos].kind # "short" => actions[a].func = "output"
  <2>1. argv[pos].kind # "short" => InRange(a, 0)
    BY <1>3, <1>4 DEF Parses, AllInRange
  <2>2. actions[a].lo > 0 => ~InRange(a, 0)
    BY <1>1, <1>5, RangesStart
  <2> QED
    BY <1>3, <1>4, <1>7, <2>1, <2>2 DEF FuncOf
<1>9. \/ argv[pos].kind = "short" /\ actions[a].func = "output"
      \/ WithoutWord(pos)
  <2>1. \/ argv[pos].kind = "short" /\ actions[a].lo = 0
        \/ WithoutWord(pos)
    BY <1>3, <1>4, <1>7 DEF Parses, Filled
  <2>2. actions[a].lo = 0 => ~(actions[a].lo > 0)
    OBVIOUS
  <2> QED
    BY <1>3, <1>4, <1>7, <2>1, <2>2 DEF FuncOf
<1>10. actions[a].func # "parseDBA"
  <2>1. SUFFICES ASSUME actions[a].func = "parseDBA"
                 PROVE  FALSE
    OBVIOUS
  <2>2. argv[pos].kind = "short" /\ actions[a].short = 0
    BY <1>1, <1>5, <1>8, <2>1, HandlersTake
  <2>3. PICK j \in DOMAIN argv[pos].names : fromShortOption(argv[pos].names[j]) = a
    BY <1>5, <2>2 DEF OptionsOf
  <2>4. PICK letter : letter = argv[pos].names[j]
    OBVIOUS
  <2>5. letter # 0 /\ actions[a].short = letter
    BY <1>1, <1>6, <2>3, <2>4, ShortOptionsAreNamed
  <2> QED
    BY <2>2, <2>5
<1>11. ReadsNothing(pos)
  BY <1>3, <1>4, <1>5, <1>6, <1>8, <1>9, <1>10 DEF ReadsNothing, FuncOf
<1> QED
  BY <1>4, <1>10, <1>11 DEF FuncOf

LEMMA InitialIsSession == IsSession(InitialSession)
<1>1. InitialSession.ast = <<>> /\ InitialSession.written = <<>>
  BY DEF InitialSession
<1>2. <<>> \in Seq(Files) /\ <<>> \in Seq({})
  OBVIOUS
<1> QED
  BY <1>1, <1>2 DEF IsSession

\* What the invariant says before a handler has run, of the list and the queue.
LEMMA NothingRunSessions ==
  ASSUME session = InitialSession, ran = <<>>, status # "crashed",
         Excused(list), Excused(queue), FilesAreParsed
  PROVE  Sessions
<1>1. DOMAIN ran = {}
  OBVIOUS
<1>2. SettersAreDone
  BY <1>1 DEF SettersAreDone
<1>3. CommandsInTime
  <2>1. session.cmdIndex = Unset /\ session.parsedWith = {}
    BY DEF InitialSession
  <2>2. \A func : ~Ran(func)
    BY <1>1 DEF Ran
  <2> QED
    BY <2>1, <2>2 DEF CommandsInTime
<1>4. OutputInTime
  <2>1. session.written = <<>>
    BY DEF InitialSession
  <2>2. DOMAIN <<>> = {}
    OBVIOUS
  <2> QED
    BY <2>1, <2>2 DEF OutputInTime
<1>5. CrashesForCause
  BY DEF CrashesForCause
<1> QED
  BY <1>2, <1>3, <1>4, <1>5, InitialIsSession DEF Sessions

\* The same of the next state.
LEMMA NothingRunSessionsNext ==
  ASSUME session' = InitialSession, ran' = <<>>, status' # "crashed",
         Excused(list)', Excused(queue)', FilesAreParsed'
  PROVE  Sessions'
<1>1. DOMAIN ran' = {}
  OBVIOUS
<1>2. SettersAreDone'
  BY <1>1 DEF SettersAreDone
<1>3. CommandsInTime'
  <2>1. session'.cmdIndex = Unset /\ session'.parsedWith = {}
    BY DEF InitialSession
  <2>2. \A func : ~Ran(func)'
    BY <1>1 DEF Ran
  <2> QED
    BY <2>1, <2>2 DEF CommandsInTime
<1>4. OutputInTime'
  <2>1. session'.written = <<>>
    BY DEF InitialSession
  <2>2. DOMAIN <<>> = {}
    OBVIOUS
  <2> QED
    BY <2>1, <2>2 DEF OutputInTime
<1>5. CrashesForCause'
  BY DEF CrashesForCause
<1>6. IsSession(session)'
  BY InitialIsSession DEF IsSession
<1>7. (Parsing => session = InitialSession)'
  BY DEF InitialSession
<1> QED
  BY <1>2, <1>3, <1>4, <1>5, <1>6, <1>7 DEF Sessions

LEMMA InitSessions == CliInit => Sessions
<1> SUFFICES ASSUME CliInit
             PROVE  Sessions
  OBVIOUS
<1>1. session = InitialSession /\ ran = <<>> /\ list = <<>> /\ queue = <<>> /\ status = "parse"
  BY DEF CliInit, Init
<1>2. DOMAIN <<>> = {}
  OBVIOUS
<1>3. Excused(list) /\ Excused(queue) /\ FilesAreParsed
  BY <1>1, <1>2 DEF Excused, FilesAreParsed
<1> QED
  BY <1>1, <1>3, NothingRunSessions

LEMMA SameExcused ==
  ASSUME UNCHANGED input, NEW handlers, Excused(handlers)
  PROVE  Excused(handlers)'
<1>1. argv' = argv
  BY DEF input
<1> QED
  BY <1>1, SameReads DEF Excused

\* The list may grow, and at last be queued, without a handler having run.
LEMMA PreparedSessions ==
  ASSUME Typed, Sessions, Parsing, UNCHANGED <<input, session, ran>>,
         NEW more, Excused(more), list' = more,
         \/ queue' = queue /\ status' \in {"parse", "implicit", "help", "failed", "overflow"}
         \/ queue' = more /\ status' \in {"run", "overflow"},
         status' \in {"implicit", "help", "run"} => Given \subseteq ActionsOf(more)
  PROVE  Sessions'
<1>1. UNCHANGED input /\ actions' = actions /\ session' = InitialSession
  BY DEF input, Sessions
<1>2. ran' = <<>> /\ queue = <<>> /\ status' # "crashed"
  BY DEF Typed, Parsing
<1>3. Excused(list)' /\ Excused(queue)'
  <2>1. Excused(more)'
    BY <1>1, SameExcused
  <2>2. Excused(list)' /\ (queue' = more => Excused(queue)')
    BY <2>1 DEF Excused
  <2>3. queue' = <<>> => Excused(queue)'
    <3>1. DOMAIN <<>> = {}
      OBVIOUS
    <3> QED
      BY <3>1 DEF Excused
  <2> QED
    BY <1>2, <2>2, <2>3
<1>4. FilesAreParsed'
  <2>1. status' \in {"implicit", "help"} => (Given \subseteq ActionsOf(list))'
    BY <1>1, SameOptions DEF ActionsOf
  <2>2. ASSUME status' = "run", "parseDBA" \in GivenFuncs
        PROVE  \E k \in DOMAIN more : FuncOf(more[k]) = "parseDBA"
    <3>1. PICK a \in Given : actions[a].func = "parseDBA"
      BY <2>2 DEF GivenFuncs
    <3>2. PICK k \in DOMAIN more : more[k].action = a
      BY <2>2, <3>1 DEF ActionsOf
    <3> QED
      BY <3>1, <3>2 DEF FuncOf
  <2>3. status' = "run" /\ "parseDBA" \in GivenFuncs' =>
          queue' = more /\ \E k \in DOMAIN more : FuncOf(more[k])' = "parseDBA"
    BY <1>1, <2>2, SameReads
  <2>4. (status = "run" /\ "parseDBA" \in GivenFuncs =>
          \E k \in DOMAIN queue : FuncOf(queue[k]) = "parseDBA")'
    BY <2>3 DEF FuncOf
  <2> QED
    BY <2>1, <2>4 DEF FilesAreParsed
<1> QED
  BY <1>1, <1>2, <1>3, <1>4, NothingRunSessionsNext

LEMMA ParsingSessions ==
  ASSUME Typed, Sessions, ParseFullOption \/ ParseShortOptions \/ ParseUnrecognized, session' = session
  PROVE  Sessions'
<1>1. Parsing
  BY DEF ParseFullOption, ParseShortOptions, ParseUnrecognized, AtArg, Parsing
<1>2. CASE Fail
  <2>1. PICK more : more = list
    OBVIOUS
  <2>2. /\ UNCHANGED <<input, session, ran>> /\ list' = more /\ queue' = queue /\ status' = "failed"
        /\ Excused(more)
    BY <1>2, <2>1 DEF Fail, Sessions
  <2> QED
    BY <1>1, <2>2, PreparedSessions
<1>3. CASE ~Fail
  <2>1. (ParseFullOption \/ ParseShortOptions) /\ status' = "parse"
    <3>1. status = "parse"
      BY DEF ParseFullOption, ParseShortOptions, ParseUnrecognized, AtArg
    <3> QED
      BY <1>3, <3>1 DEF ParseFullOption, ParseShortOptions, ParseUnrecognized, Parsed
  <2>2. PICK handlers, n : Parses(handlers, n) /\ Listed(handlers) /\ Parsed(n)
    BY <2>1, FullOptionParses, ShortOptionsParse
  <2>3. PICK H : H = Handlers
    OBVIOUS
  <2>4. list \in Seq(H) /\ handlers \in Seq(H)
    BY <2>2, <2>3 DEF Typed, Parses
  <2>5. PICK more : more = list \o handlers /\ Joined(more, list, handlers)
    BY <2>4, Concatenated
  <2>6. Excused(list) /\ Excused(handlers)
    BY <2>2, ParsedExcused DEF Sessions
  <2>7. Excused(more)
    BY <2>5, <2>6 DEF Excused, Joined
  <2>8. UNCHANGED <<input, session, ran>> /\ list' = more /\ queue' = queue /\ status' = "parse"
    BY <2>1, <2>2, <2>5 DEF Listed, Parsed
  <2> QED
    BY <1>1, <2>7, <2>8, PreparedSessions
<1> QED
  BY <1>2, <1>3

LEMMA RequiresSessions ==
  ASSUME Dispatching, Sessions, CheckRequires, session' = session
  PROVE  Sessions'
<1>1. Typed /\ Parsing /\ status = "parse" /\ pos > Len(argv)
  BY DEF Dispatching, CheckRequires, Parsing
<1>2. PICK more : more = list
  OBVIOUS
<1>3. UNCHANGED <<input, session, ran>> /\ list' = more /\ queue' = queue /\ status' \in {"implicit", "failed"}
  BY <1>2 DEF CheckRequires, Fail
<1>4. Excused(more)
  BY <1>2 DEF Sessions
<1>5. Given = ActionsOf(more)
  <2>1. ActionsOf(list) = GivenBefore(pos)
    BY <1>1 DEF Dispatching, RequirementsMet
  <2>2. Len(argv) \in Nat /\ DOMAIN argv = 1 .. Len(argv) /\ pos \in Nat
    BY <1>1, ArgumentsAreTyped DEF Typed
  <2>3. \A j \in DOMAIN argv : j < pos
    BY <1>1, <2>2
  <2> QED
    BY <1>2, <2>1, <2>3 DEF GivenBefore, Given
<1> QED
  BY <1>1, <1>3, <1>4, <1>5, PreparedSessions

LEMMA ImplicitSessions ==
  ASSUME Typed, Sessions, AddImplicit, session' = session
  PROVE  Sessions'
<1>1. status = "implicit" /\ Parsing /\ UNCHANGED <<input, session, ran>> /\ queue' = queue
  BY DEF AddImplicit, Parsing
<1>2. list \in Seq(Handlers) /\ actions \in Tables /\ Excused(list) /\ Given \subseteq ActionsOf(list)
  BY <1>1 DEF Typed, Sessions, FilesAreParsed
<1>3. CASE Overflows(list)
  <2>1. PICK more : more = list
    OBVIOUS
  <2>2. list' = more /\ status' = "overflow"
    BY <1>3, <2>1 DEF AddImplicit
  <2> QED
    BY <1>1, <1>2, <2>1, <2>2, PreparedSessions
<1>4. CASE ~Overflows(list)
  <2>1. PICK more : more = WithImplicit(list) /\ Extended(list, more)
    BY <1>2, WithImplicitExtends
  <2>2. list' = more /\ status' = "help"
    BY <1>4, <2>1 DEF AddImplicit
  <2>3. more \in Seq(Handlers) /\ Grown(list, more)
    BY <2>1, ExtendedGrows DEF Extended
  <2>4. Excused(more) /\ Given \subseteq ActionsOf(more)
    BY <1>2, <2>3, GrownExcused
  <2> QED
    BY <1>1, <2>2, <2>4, PreparedSessions
<1> QED
  BY <1>3, <1>4

LEMMA HelpSessions ==
  ASSUME Typed, Sessions, TryToHelp, session' = session
  PROVE  Sessions'
<1>1. /\ status = "help" /\ Parsing /\ UNCHANGED <<input, session, ran>>
      /\ list' = Helped(list) /\ queue' = list' /\ status' \in {"run", "overflow"}
  BY DEF TryToHelp, Parsing
<1>2. list \in Seq(Handlers) /\ actions \in Tables /\ Excused(list) /\ Given \subseteq ActionsOf(list)
  BY <1>1 DEF Typed, Sessions, FilesAreParsed
<1>3. CASE ~(NeedsHelp /\ helpActionId # 0)
  <2>1. PICK more : more = list
    OBVIOUS
  <2>2. list' = more
    BY <1>1, <1>3, <2>1 DEF Helped
  <2> QED
    BY <1>1, <1>2, <2>1, <2>2, PreparedSessions
<1>4. CASE NeedsHelp /\ helpActionId # 0
  <2>1. helpActionId \in DOMAIN actions /\ actions[helpActionId].help
    BY <1>2, <1>4, OptionsAreActions
  <2>2. PICK h \in Handlers : h = Handler(helpActionId, 0, Len(list) + 1) /\ actions[h.action].help
    <3>1. PICK place \in Nat : place = Len(list) + 1
      BY <1>2
    <3>2. PICK g : g = Handler(helpActionId, 0, place)
      OBVIOUS
    <3>3. g \in Handlers /\ g.action = helpActionId
      BY <2>1, <3>2 DEF Handler, Handlers
    <3> QED
      BY <2>1, <3>1, <3>2, <3>3
  <2>3. PICK H : H = Handlers
    OBVIOUS
  <2>4. PICK handlers \in Seq(H) : handlers = Append(list, h) /\ Appended(handlers, list, h)
    BY <1>2, <2>2, <2>3, AppendedOne, Zenon
  <2>5. PICK more : more = WithImplicit(handlers) /\ Extended(handlers, more)
    BY <1>2, <2>3, <2>4, WithImplicitExtends
  <2>6. list' = more
    <3>1. list' = WithImplicit(Append(list, Handler(helpActionId, 0, Len(list) + 1)))
      BY <1>1, <1>4, Zenon DEF Helped
    <3> QED
      BY <2>2, <2>4, <2>5, <3>1, Zenon
  <2>7. Grown(list, handlers)
    <3>1. \A j \in DOMAIN list : j \in DOMAIN handlers /\ handlers[j] = list[j]
      BY <2>4 DEF Appended
    <3>2. \A j \in DOMAIN handlers : handlers[j] = h \/ (j \in DOMAIN list /\ handlers[j] = list[j])
      BY <2>4 DEF Appended
    <3> QED
      BY <2>2, <3>1, <3>2 DEF Grown
  <2>8. Excused(handlers) /\ ActionsOf(list) \subseteq ActionsOf(handlers)
    BY <1>2, <2>3, <2>4, <2>7, GrownExcused
  <2>9. more \in Seq(Handlers) /\ Grown(handlers, more)
    BY <2>5, ExtendedGrows DEF Extended
  <2>10. Excused(more) /\ ActionsOf(handlers) \subseteq ActionsOf(more)
    BY <1>2, <2>8, <2>9, GrownExcused
  <2>11. Given \subseteq ActionsOf(more)
    BY <1>2, <2>8, <2>10
  <2> QED
    BY <1>1, <2>6, <2>10, <2>11, PreparedSessions
<1> QED
  BY <1>3, <1>4

-----------------------------------------------------------------------------
(* While the handlers are run.                                             *)

\* The handler at k of the queue is called, and p is queued then.
Called(k, p) ==
  /\ status = "run" /\ k \in Tops /\ Replaces(p, k)
  /\ UNCHANGED <<input, pos, list>> /\ queue' = p /\ ran' = Append(ran, queue[k])
  /\ status' \in {"run", "failed", "crashed"}
\* It does what it may to the session, and crashes if it has no argument, or no tree,
\* or what it is given is fatal.
DoesItsWork(h) ==
  /\ Works(FuncOf(h), h.args, session, session', status')
  /\ status' = "crashed" =>
       \/ FuncOf(h) = "output" /\ (h.args = 0 \/ session.ast = <<>>)
       \/ FuncOf(h) = "warn" /\ h.args = 0
       \/ Fatal(session')

LEMMA CalledIsHandler ==
  ASSUME Typed, NEW k, NEW p, Called(k, p)
  PROVE  /\ actions \in Tables /\ actions' = actions /\ argv' = argv /\ UNCHANGED input
         /\ k \in DOMAIN queue /\ queue[k] \in Handlers /\ queue[k].action \in DOMAIN actions
         /\ Appended(ran', ran, queue[k])
<1>1. actions \in Tables /\ UNCHANGED input /\ actions' = actions /\ argv' = argv /\ k \in DOMAIN queue
  BY DEF Typed, Called, Tops, input
<1>2. PICK H : H = Handlers
  OBVIOUS
<1>3. queue \in Seq(H) /\ ran \in Seq(H)
  BY <1>2 DEF Typed
<1>4. queue[k] \in H
  BY <1>1, <1>3
<1>5. Appended(Append(ran, queue[k]), ran, queue[k])
  BY <1>3, <1>4, AppendedOne
<1>6. Appended(ran', ran, queue[k])
  BY <1>5 DEF Called
<1> QED
  BY <1>1, <1>2, <1>4, <1>6 DEF Handlers

LEMMA RanGrows ==
  ASSUME Typed, NEW k, NEW p, Called(k, p), NEW func
  PROVE  Ran(func)' <=> Ran(func) \/ FuncOf(queue[k]) = func
<1>1. /\ \A j \in DOMAIN ran : j \in DOMAIN ran' /\ ran'[j] = ran[j]
      /\ \A j \in DOMAIN ran' : ran'[j] = queue[k] \/ (j \in DOMAIN ran /\ ran'[j] = ran[j])
      /\ \E j \in DOMAIN ran' : ran'[j] = queue[k]
  BY CalledIsHandler DEF Appended
<1>2. actions' = actions
  BY CalledIsHandler
<1> QED
  BY <1>1, <1>2 DEF Ran, FuncOf

\* A setting's handler is not called any more after one that reads it; and before
\* the matcher is set up and before a file is parsed, what they need has been done.
LEMMA SettingsFirst ==
  ASSUME Dispatching, Dispatching', SettersAreDone, NEW k, NEW p, Called(k, p)
  PROVE  /\ FuncOf(queue[k]) \in SdkHandlers => ~Ran("loadCommands") /\ ~Ran("output")
         /\ FuncOf(queue[k]) \in TargetHandlers => ~Ran("output")
         /\ FuncOf(queue[k]) = "initCommandMatcher" => Ran("loadCommands")
         /\ FuncOf(queue[k]) = "parseDBA" => Ran("initCommandMatcher")
<1>1. Typed
  BY DEF Dispatching
<1>2. /\ actions \in Tables /\ actions' = actions /\ UNCHANGED input
      /\ k \in DOMAIN queue /\ queue[k].action \in DOMAIN actions
      /\ Appended(ran', ran, queue[k])
  BY <1>1, CalledIsHandler
<1>3. PICK a : a = queue[k].action /\ FuncOf(queue[k]) = actions[a].func
  BY DEF FuncOf
<1>4. ASSUME NEW j \in DOMAIN ran
      PROVE  ran[j].action \in DOMAIN actions
  <2>1. ran[j] \in Handlers
    BY <1>1 DEF Typed
  <2> QED
    BY <2>1 DEF Handlers
<1>5. ASSUME NEW j \in DOMAIN ran, FuncOf(queue[k]) \in SdkHandlers \cup TargetHandlers
      PROVE  ~(actions[a].priority < actions[ran[j].action].priority)
  <2>1. PICK x \in Nat : x = actions[a].priority
    BY <1>2, <1>3, TableFacts
  <2>2. PICK y \in Nat : y = actions[ran[j].action].priority
    BY <1>2, <1>4, TableFacts
  <2>3. ~(y > x)
    BY <1>2, <1>3, <1>5, <2>1, <2>2 DEF SettersAreDone, Is
  <2> QED
    BY <2>1, <2>2, <2>3
<1>6. FuncOf(queue[k]) \in SdkHandlers => ~Ran("loadCommands") /\ ~Ran("output")
  BY <1>2, <1>3, <1>4, <1>5, HandlersInOrder DEF Ran, FuncOf
<1>7. FuncOf(queue[k]) \in TargetHandlers => ~Ran("output")
  BY <1>2, <1>3, <1>4, <1>5, HandlersInOrder DEF Ran, FuncOf
<1>8. ASSUME NEW b \in DOMAIN actions, RunsAfter(a, b), actions[b].implicit
      PROVE  Ran(actions[b].func)
  <2>1. PICK n \in Nat : /\ DOMAIN ran = 1 .. n /\ DOMAIN ran' = 1 .. n + 1
                         /\ ran'[n + 1] = queue[k] /\ \A j \in 1 .. n : ran'[j] = ran[j]
    BY <1>2 DEF Appended
  <2>2. PICK m : m = n + 1
    OBVIOUS
  <2>3. m \in DOMAIN ran' /\ ran'[m].action = a /\ \A j \in 1 .. m - 1 : j \in DOMAIN ran /\ ran'[j] = ran[j]
    BY <1>3, <2>1, <2>2
  <2>4. ImplicitRunFirst'
    BY DEF Dispatching
  <2>5. RunsAfter(a, b)'
    BY <1>2, <1>8, SameTable
  <2>6. \E j \in 1 .. m - 1 : ran'[j].action = b
    BY <1>2, <1>8, <2>3, <2>4, <2>5 DEF ImplicitRunFirst
  <2> QED
    BY <2>3, <2>6 DEF Ran, FuncOf
<1>9. /\ FuncOf(queue[k]) = "initCommandMatcher" => Ran("loadCommands")
      /\ FuncOf(queue[k]) = "parseDBA" => Ran("initCommandMatcher")
  BY <1>2, <1>3, <1>8, HandlersInOrder
<1> QED
  BY <1>6, <1>7, <1>9

LEMMA SettersStep ==
  ASSUME Typed, SettersAreDone, NEW k, NEW p, Called(k, p)
  PROVE  SettersAreDone'
<1>1. /\ actions \in Tables /\ actions' = actions /\ UNCHANGED input
      /\ k \in DOMAIN queue /\ queue[k] \in Handlers /\ queue[k].action \in DOMAIN actions
      /\ Appended(ran', ran, queue[k])
  BY CalledIsHandler
<1>2. k \in Tops /\ queue' = p /\ Replaces(p, k)
  BY DEF Called
<1>3. SUFFICES ASSUME NEW j \in DOMAIN ran', NEW i \in DOMAIN p,
                      FuncOf(p[i]) \in SdkHandlers \cup TargetHandlers
               PROVE  ~(Is(ran'[j], "priority") > Is(p[i], "priority"))
  <2>1. \A h : FuncOf(h)' = FuncOf(h) /\ Is(h, "priority")' = Is(h, "priority")
    BY <1>1, SameReads
  <2>2. \A h : actions'[h.action].func = FuncOf(h) /\ actions'[h.action].priority = Is(h, "priority")
    BY <1>1 DEF FuncOf, Is
  <2> QED
    BY <1>2, <2>2 DEF SettersAreDone, FuncOf, Is
<1>4. PICK q \in DOMAIN queue : p[i] = queue[q]
  <2>1. p[i].action \in DOMAIN actions
    <3>1. p[i] \in Handlers
      BY <1>2 DEF Replaces
    <3> QED
      BY <3>1 DEF Handlers
  <2>2. p[i].action \notin Children(Started(actions), queue[k].action)
    BY <1>1, <1>3, <2>1, HandlersInOrder DEF FuncOf
  <2> QED
    BY <1>2, <2>2 DEF Replaces
<1>5. ran'[j] = queue[k] \/ (j \in DOMAIN ran /\ ran'[j] = ran[j])
  BY <1>1 DEF Appended
<1>6. CASE ran'[j] = queue[k]
  BY <1>2, <1>4, <1>6, TopRunsFirst DEF Is
<1>7. CASE j \in DOMAIN ran /\ ran'[j] = ran[j]
  BY <1>3, <1>4, <1>7 DEF SettersAreDone
<1> QED
  BY <1>5, <1>6, <1>7

\* What is started by a meta action has its arguments, if it parses files, and is
\* none that would have to be excused.
LEMMA ExcusedStep ==
  ASSUME Typed, Excused(list), Excused(queue), NEW k, NEW p, Called(k, p)
  PROVE  Excused(list)' /\ Excused(queue)'
<1>1. /\ actions \in Tables /\ UNCHANGED input
      /\ k \in DOMAIN queue /\ queue[k].action \in DOMAIN actions
  BY CalledIsHandler
<1>2. list' = list /\ queue' = p /\ Replaces(p, k)
  BY DEF Called
<1>3. ASSUME NEW i \in DOMAIN p
      PROVE  /\ FuncOf(p[i]) = "parseDBA" => p[i].args # 0
             /\ FuncOf(p[i]) \in {"output", "warn"} /\ p[i].args = 0 =>
                  \E n \in DOMAIN argv : ReadsNothing(n)
  <2>1. CASE \E j \in DOMAIN queue : p[i] = queue[j]
    BY <2>1 DEF Excused
  <2>2. CASE ~\E j \in DOMAIN queue : p[i] = queue[j]
    <3>1. p[i].action \in Children(Started(actions), queue[k].action) /\ InRange(p[i].action, p[i].args)
      BY <1>2, <2>2 DEF Replaces
    <3>2. p[i].action \in DOMAIN actions
      <4>1. p[i] \in Handlers
        BY <1>2 DEF Replaces
      <4> QED
        BY <4>1 DEF Handlers
    <3>3. FuncOf(p[i]) \notin {"output", "warn"}
      BY <1>1, <3>1, <3>2, HandlersInOrder DEF FuncOf
    <3>4. FuncOf(p[i]) = "parseDBA" => p[i].args # 0
      BY <1>1, <3>1, <3>2, HandlersTake, RangesStart DEF FuncOf
    <3> QED
      BY <3>3, <3>4
  <2> QED
    BY <2>1, <2>2
<1>4. Excused(p)
  BY <1>3 DEF Excused
<1>5. Excused(list)' /\ Excused(p)'
  <2>1. PICK l : l = list
    OBVIOUS
  <2>2. Excused(l)'
    BY <1>1, <2>1, SameExcused
  <2>3. Excused(p)'
    BY <1>1, <1>4, SameExcused
  <2> QED
    BY <1>2, <2>1, <2>2, <2>3 DEF Excused
<1> QED
  BY <1>2, <1>5 DEF Excused

LEMMA CommandsStep ==
  ASSUME Dispatching, Dispatching', SettersAreDone, CommandsInTime,
         NEW k, NEW p, Called(k, p), DoesItsWork(queue[k])
  PROVE  CommandsInTime'
<1>1. PICK f : f = FuncOf(queue[k])
  OBVIOUS
<1>2. Typed
  BY DEF Dispatching
<1>3. /\ f \in SdkHandlers => ~Ran("loadCommands")
      /\ f = "initCommandMatcher" => Ran("loadCommands")
      /\ f = "parseDBA" => Ran("initCommandMatcher")
  BY <1>1, SettingsFirst
<1>4. /\ Ran("loadCommands")' <=> Ran("loadCommands") \/ f = "loadCommands"
      /\ Ran("initCommandMatcher")' <=> Ran("initCommandMatcher") \/ f = "initCommandMatcher"
  BY <1>1, <1>2, RanGrows
<1>5. /\ SettingsEffect(f, session, session') /\ CommandsEffect(f, session, session', status')
      /\ status = "run"
  BY <1>1 DEF DoesItsWork, Works, Called
<1>6. PICK x, y : x = Loaded(session) /\ y = Loaded(session')
  OBVIOUS
<1>7. x # Unset /\ y # Unset /\ (f \notin SdkHandlers => x = y)
  BY <1>5, <1>6 DEF Loaded, Unset, SettingsEffect
<1>8. f \in {"loadCommands", "initCommandMatcher", "parseDBA"} => f \notin SdkHandlers
  BY DEF SdkHandlers
<1>9. /\ session.cmdIndex \in {Unset, x}
      /\ session.cmdIndex # Unset => Ran("loadCommands")
      /\ Ran("loadCommands") => session.cmdIndex # Unset
      /\ Ran("initCommandMatcher") => session.cmdMatcher = x /\ Ran("loadCommands")
      /\ session.parsedWith \subseteq {x}
      /\ session.parsedWith # {} => Ran("loadCommands")
  BY <1>5, <1>6 DEF CommandsInTime
<1>10. CASE f \in SdkHandlers
  <2>1. /\ session'.cmdIndex = session.cmdIndex /\ session'.cmdMatcher = session.cmdMatcher
        /\ session'.parsedWith = session.parsedWith
    BY <1>5, <1>8, <1>10 DEF CommandsEffect
  <2>2. session'.cmdIndex = Unset /\ session'.parsedWith = {} /\ ~Ran("loadCommands")' /\ ~Ran("initCommandMatcher")'
    BY <1>3, <1>4, <1>8, <1>9, <1>10, <2>1
  <2> QED
    BY <2>2 DEF CommandsInTime
<1>11. CASE f \notin SdkHandlers
  <2>1. /\ session'.cmdIndex \in {Unset, x}
        /\ session'.cmdIndex # Unset => Ran("loadCommands")'
        /\ status' = "run" /\ Ran("loadCommands")' => session'.cmdIndex # Unset
    BY <1>4, <1>5, <1>6, <1>7, <1>9 DEF CommandsEffect
  <2>2. status' = "run" /\ Ran("initCommandMatcher")' => session'.cmdMatcher = x /\ Ran("loadCommands")'
    BY <1>3, <1>4, <1>5, <1>9 DEF CommandsEffect
  <2>3. session'.parsedWith \subseteq {x} /\ (session'.parsedWith # {} => Ran("loadCommands")')
    BY <1>3, <1>4, <1>5, <1>9 DEF CommandsEffect
  <2>4. x = Loaded(session')
    BY <1>6, <1>7, <1>11
  <2> QED
    BY <2>1, <2>2, <2>3, <2>4 DEF CommandsInTime, Loaded, SdkSettings
<1> QED
  BY <1>10, <1>11

LEMMA OutputStep ==
  ASSUME Dispatching, Dispatching', SettersAreDone, IsSession(session), OutputInTime,
         NEW k, NEW p, Called(k, p), DoesItsWork(queue[k])
  PROVE  OutputInTime'
<1>1. PICK f : f = FuncOf(queue[k])
  OBVIOUS
<1>2. Typed
  BY DEF Dispatching
<1>3. f \in SdkHandlers \cup TargetHandlers => ~Ran("output")
  BY <1>1, SettingsFirst
<1>4. Ran("output")' <=> Ran("output") \/ f = "output"
  BY <1>1, <1>2, RanGrows
<1>5. SettingsEffect(f, session, session') /\ OutputEffect(f, session, session')
  BY <1>1 DEF DoesItsWork, Works
<1>6. "output" \notin SdkHandlers
  BY DEF SdkHandlers
<1>7. PICK t : t = session'
  OBVIOUS
<1>8. /\ session.written # <<>> =>
           /\ Ran("output")' /\ t.arch # "" /\ t.platform # ""
           /\ \A ast : Writing(ast, t) = Writing(ast, session)
  <2>1. SUFFICES ASSUME session.written # <<>>
                 PROVE  Ran("output")' /\ t.arch # "" /\ t.platform # "" /\ \A ast : Writing(ast, t) = Writing(ast, session)
    OBVIOUS
  <2>2. Ran("output") /\ session.arch # "" /\ session.platform # ""
    BY <2>1 DEF OutputInTime
  <2>3. SdkSettings(t) = SdkSettings(session)
    BY <1>3, <1>5, <1>7, <2>2 DEF SettingsEffect
  <2>4. t.outputType = session.outputType /\ t.arch = session.arch /\ t.platform = session.platform
    BY <1>3, <1>5, <1>7, <2>2 DEF SettingsEffect, OutputEffect
  <2> QED
    BY <1>4, <2>2, <2>3, <2>4 DEF Writing
<1>9. CASE t.written = session.written
  <2>1. /\ t.written # <<>> => Ran("output")' /\ t.arch # "" /\ t.platform # ""
        /\ \A n \in DOMAIN t.written : t.written[n] = Writing(t.written[n].ast, t)
    <3>1. CASE session.written = <<>>
      <4>1. DOMAIN <<>> = {}
        OBVIOUS
      <4> QED
        BY <1>9, <3>1, <4>1
    <3>2. CASE session.written # <<>>
      BY <1>8, <1>9, <3>2 DEF OutputInTime
    <3> QED
      BY <3>1, <3>2
  <2> QED
    BY <1>7, <2>1 DEF OutputInTime, Writing, SdkSettings
<1>10. CASE t.written # session.written
  <2>1. /\ f = "output" /\ t.written = Append(session.written, Writing(session.ast, t))
        /\ t.arch # "" /\ t.platform # ""
    BY <1>5, <1>7, <1>10 DEF OutputEffect
  <2>2. PICK w : w = Writing(session.ast, t)
    OBVIOUS
  <2>3. w = Writing(w.ast, t)
    BY <2>2 DEF Writing
  <2>4. PICK S : session.written \in Seq(S)
    BY DEF IsSession
  <2>5. PICK U : U = S \cup {w}
    OBVIOUS
  <2>6. PICK q \in Seq(U) : q = session.written
    BY <2>4, <2>5
  <2>7. Appended(Append(q, w), q, w)
    BY <2>5, AppendedOne
  <2>8. \A n \in DOMAIN t.written : t.written[n] = w \/ (n \in DOMAIN q /\ t.written[n] = q[n])
    BY <2>1, <2>2, <2>6, <2>7 DEF Appended
  <2>9. \A n \in DOMAIN q : q[n] = Writing(q[n].ast, t)
    <3>1. ASSUME NEW n \in DOMAIN q
          PROVE  q[n] = Writing(q[n].ast, session) /\ session.written # <<>>
      <4>1. q # <<>>
        <5>1. DOMAIN <<>> = {}
          OBVIOUS
        <5> QED
          BY <5>1
      <4> QED
        BY <2>6, <4>1 DEF OutputInTime
    <3> QED
      BY <1>8, <3>1
  <2>10. \A n \in DOMAIN t.written : t.written[n] = Writing(t.written[n].ast, t)
    BY <2>3, <2>8, <2>9
  <2>11. Ran("output")'
    BY <1>4, <2>1
  <2> QED
    BY <1>7, <2>1, <2>10, <2>11 DEF OutputInTime, Writing, SdkSettings
<1> QED
  BY <1>9, <1>10

LEMMA FilesStep ==
  ASSUME Typed, Excused(queue), FilesAreParsed, NEW k, NEW p, Called(k, p), DoesItsWork(queue[k])
  PROVE  FilesAreParsed'
<1>1. /\ UNCHANGED input /\ k \in DOMAIN queue /\ status = "run" /\ queue' = p /\ Replaces(p, k)
      /\ status' \notin {"implicit", "help"}
  BY CalledIsHandler DEF Called
<1>2. SUFFICES ASSUME status' = "run", "parseDBA" \in GivenFuncs
               PROVE  session'.ast # <<>> \/ \E i \in DOMAIN p : FuncOf(p[i]) = "parseDBA"
  <2>1. GivenFuncs' = GivenFuncs /\ actions' = actions
    BY <1>1, SameReads DEF input
  <2> QED
    BY <1>1, <2>1 DEF FilesAreParsed, FuncOf
<1>3. FilesEffect(FuncOf(queue[k]), queue[k].args, session, session', status')
  BY DEF DoesItsWork, Works
<1>4. CASE session.ast # <<>>
  BY <1>3, <1>4 DEF FilesEffect
<1>5. CASE session.ast = <<>>
  <2>1. PICK j \in DOMAIN queue : FuncOf(queue[j]) = "parseDBA"
    BY <1>1, <1>2, <1>5 DEF FilesAreParsed
  <2>2. CASE j = k
    <3>1. queue[k].args # 0 /\ FuncOf(queue[k]) = "parseDBA"
      BY <2>1, <2>2 DEF Excused
    <3> QED
      BY <1>2, <1>3, <3>1 DEF FilesEffect
  <2>3. CASE j # k
    BY <1>1, <2>1, <2>3 DEF Replaces
  <2> QED
    BY <2>2, <2>3
<1> QED
  BY <1>4, <1>5

LEMMA CrashStep ==
  ASSUME Typed, Excused(queue), FilesAreParsed, NEW k, NEW p, Called(k, p), DoesItsWork(queue[k])
  PROVE  CrashesForCause'
<1>1. /\ actions \in Tables /\ UNCHANGED input /\ argv' = argv /\ k \in DOMAIN queue /\ k \in Tops
      /\ status = "run"
  BY CalledIsHandler DEF Called
<1>2. SUFFICES ASSUME status' = "crashed", "parseDBA" \in GivenFuncs, ~Fatal(session')
               PROVE  \E n \in DOMAIN argv : ReadsNothing(n)
  BY <1>1, SameReads DEF CrashesForCause, Fatal, SdkSettings, Program
<1>3. FuncOf(queue[k]) \in {"output", "warn"} /\ queue[k].args = 0
  <2>1. SUFFICES ASSUME FuncOf(queue[k]) = "output", session.ast = <<>>
                 PROVE  FALSE
    BY <1>2 DEF DoesItsWork
  <2>2. PICK j \in DOMAIN queue : FuncOf(queue[j]) = "parseDBA"
    BY <1>1, <1>2, <2>1 DEF FilesAreParsed
  <2>3. /\ queue[k].action \in DOMAIN actions /\ queue[j].action \in DOMAIN actions
        /\ ~(actions[queue[k].action].priority > actions[queue[j].action].priority)
    BY <1>1, TopRunsFirst
  <2>4. PICK x \in Nat : x = actions[queue[k].action].priority
    BY <1>1, <2>3, TableFacts
  <2>5. PICK y \in Nat : y = actions[queue[j].action].priority
    BY <1>1, <2>3, TableFacts
  <2>6. y < x
    BY <1>1, <2>1, <2>2, <2>3, <2>4, <2>5, HandlersInOrder DEF FuncOf
  <2> QED
    BY <2>3, <2>4, <2>5, <2>6
<1> QED
  BY <1>1, <1>3 DEF Excused

\* Whichever handler is called, the invariant is kept.
LEMMA CalledSessions ==
  ASSUME Dispatching, Dispatching', Sessions, NEW k, NEW p, Called(k, p), DoesItsWork(queue[k])
  PROVE  Sessions'
<1>1. /\ Typed /\ IsSession(session) /\ SettersAreDone /\ CommandsInTime /\ OutputInTime
      /\ Excused(list) /\ Excused(queue) /\ FilesAreParsed
  BY DEF Dispatching, Sessions
<1>2. IsSession(session)'
  BY DEF DoesItsWork, Works, IsSession
<1>3. (Parsing => session = InitialSession)'
  BY DEF Called, Parsing
<1>4. SettersAreDone' /\ CommandsInTime' /\ OutputInTime'
  BY <1>1, SettersStep, CommandsStep, OutputStep
<1>5. Excused(list)' /\ Excused(queue)' /\ FilesAreParsed' /\ CrashesForCause'
  BY <1>1, ExcusedStep, FilesStep, CrashStep
<1> QED
  BY <1>2, <1>3, <1>4, <1>5 DEF Sessions

LEMMA StandardSessions ==
  ASSUME Dispatching, Dispatching', Sessions, NEW k \in DOMAIN queue, ~Is(queue[k], "meta"),
         NEW o \in Outcomes(queue[k], session), RunStandard(k, o.status), session' = o.session
  PROVE  Sessions'
<1>1. Typed /\ IsSession(session)
  BY DEF Dispatching, Sessions
<1>2. PICK p : p = Popped(k)
  OBVIOUS
<1>3. Called(k, p)
  <2>1. Replaces(p, k)
    BY <1>1, <1>2, PoppedReplaces
  <2>2. o.status \in {"run", "failed", "crashed"}
    BY OutcomesAreStatuses
  <2> QED
    BY <1>2, <2>1, <2>2 DEF Called, RunStandard
<1>4. queue[k] \in Handlers
  BY <1>1, <1>3, CalledIsHandler
<1>5. Effect(FuncOf(queue[k]), queue[k].args, session, o)
  BY <1>1, <1>4, OutcomesHaveEffect
<1>6. DoesItsWork(queue[k])
  <2>1. status' = o.status
    BY DEF RunStandard
  <2> QED
    BY <1>5, <2>1 DEF Effect, DoesItsWork
<1> QED
  BY <1>3, <1>6, CalledSessions

LEMMA MetaSessions ==
  ASSUME Dispatching, Dispatching', Sessions, NEW k \in DOMAIN queue, session' = session,
         \/ \E result \in AnyResult : RunMeta(k, result)
         \/ CrashMeta(k) /\ CrashesWithoutArgs(queue[k])
  PROVE  Sessions'
<1>1. Typed /\ IsSession(session)
  BY DEF Dispatching, Sessions
<1>2. /\ status = "run" /\ k \in Tops /\ UNCHANGED <<input, pos, list>> /\ ran' = Append(ran, queue[k])
      /\ Is(queue[k], "meta")
  BY DEF RunMeta, CrashMeta
<1>3. status' \in {"run", "failed"} \/ (status' = "crashed" /\ CrashesWithoutArgs(queue[k]))
  BY <1>2 DEF RunMeta, CrashMeta
<1>4. PICK p : Replaces(p, k) /\ queue' = p
  <2>1. ASSUME NEW result \in AnyResult, RunMeta(k, result), Allowed(queue[k], result)
        PROVE  Replaces(queue', k)
    BY <1>1, <2>1, AppendedReplaces DEF RunMeta
  <2>2. ASSUME NEW result \in AnyResult, RunMeta(k, result), ~Allowed(queue[k], result)
        PROVE  Replaces(queue', k)
    BY <1>1, <2>2, PoppedReplaces DEF RunMeta
  <2>3. CASE CrashMeta(k)
    BY <1>1, <2>3, PoppedReplaces DEF CrashMeta
  <2> QED
    BY <2>1, <2>2, <2>3
<1>5. Called(k, p)
  BY <1>2, <1>3, <1>4 DEF Called
<1>6. FuncOf(queue[k]) \notin {"loadCommands", "initCommandMatcher", "parseDBA"}
  <2>1. actions \in Tables /\ queue[k].action \in DOMAIN actions
    BY <1>1, <1>5, CalledIsHandler
  <2> QED
    BY <1>2, <2>1, HandlersTake DEF FuncOf, Is
<1>7. Works(FuncOf(queue[k]), queue[k].args, session, session', status')
  BY <1>1, <1>6, NothingDone
<1>8. DoesItsWork(queue[k])
  BY <1>3, <1>7 DEF DoesItsWork, CrashesWithoutArgs, FuncOf
<1> QED
  BY <1>5, <1>8, CalledSessions

LEMMA SameSessions ==
  ASSUME Sessions, UNCHANGED <<input, pos, list, queue, ran, session>>,
         status' = status \/ (status = "run" /\ status' = "ok")
  PROVE  Sessions'
<1>1. /\ UNCHANGED input /\ list' = list /\ queue' = queue /\ ran' = ran /\ session' = session
      /\ argv' = argv
  BY DEF input
<1>2. \A h : FuncOf(h)' = FuncOf(h) /\ Is(h, "priority")' = Is(h, "priority")
  BY <1>1, SameReads
<1>3. \A func : Ran(func)' <=> Ran(func)
  BY <1>1, <1>2 DEF Ran
<1>4. IsSession(session)' /\ (Parsing => session = InitialSession)'
  BY <1>1 DEF Sessions, IsSession, InitialSession, Parsing
<1>5. SettersAreDone'
  BY <1>1, <1>2 DEF Sessions, SettersAreDone
<1>6. CommandsInTime'
  <2>1. CommandsInTime
    BY DEF Sessions
  <2> QED
    BY <1>1, <1>3, <2>1 DEF CommandsInTime, Loaded, SdkSettings
<1>7. OutputInTime'
  BY <1>1, <1>3 DEF Sessions, OutputInTime, Writing, SdkSettings
<1>8. Excused(list)' /\ Excused(queue)'
  BY <1>1, <1>2, SameReads DEF Sessions, Excused
<1>9. FilesAreParsed'
  <2>1. FilesAreParsed
    BY DEF Sessions
  <2>2. Given' = Given /\ GivenFuncs' = GivenFuncs /\ ActionsOf(list)' = ActionsOf(list)
    BY <1>1, SameReads, SameOptions DEF ActionsOf
  <2> QED
    BY <1>1, <1>2, <2>1, <2>2 DEF FilesAreParsed
<1>10. CrashesForCause'
  BY <1>1, SameReads DEF Sessions, CrashesForCause, SdkSettings, Program
<1> QED
  BY <1>4, <1>5, <1>6, <1>7, <1>8, <1>9, <1>10 DEF Sessions

LEMMA NextSessions ==
  ASSUME Dispatching, Dispatching', Sessions, [CliNext]_cliVars
  PROVE  Sessions'
<1>1. Typed
  BY DEF Dispatching
<1>2. ASSUME Prepare, session' = session
      PROVE  Sessions'
  BY <1>1, <1>2, ParsingSessions, RequiresSessions, ImplicitSessions, HelpSessions DEF Prepare
<1>3. ASSUME NEW k \in DOMAIN queue, ~Is(queue[k], "meta"), NEW o \in Outcomes(queue[k], session),
             RunStandard(k, o.status), session' = o.session
      PROVE  Sessions'
  BY <1>3, StandardSessions
<1>4. ASSUME NEW k \in DOMAIN queue, NEW result \in Results(queue[k]), RunMeta(k, result), session' = session
      PROVE  Sessions'
  BY <1>4, ResultsAreResults, MetaSessions
<1>5. ASSUME NEW k \in DOMAIN queue, CrashesWithoutArgs(queue[k]), CrashMeta(k), session' = session
      PROVE  Sessions'
  BY <1>5, MetaSessions
<1>6. ASSUME Return, session' = session
      PROVE  Sessions'
  BY <1>6, SameSessions DEF Return
<1>7. CASE UNCHANGED cliVars
  BY <1>7, SameSessions DEF cliVars, vars
<1> QED
  BY <1>2, <1>3, <1>4, <1>5, <1>6, <1>7 DEF CliNext

\* The inductive invariant holds, together with the parser's.
THEOREM SessionsHold == CliSpec => []Sessions
<1>1. CliInit => Sessions
  BY InitSessions
<1>2. Dispatching /\ Dispatching' /\ Sessions /\ [CliNext]_cliVars => Sessions'
  BY NextSessions
<1>3. CliSpec => []Dispatching
  BY DispatchingHolds
<1> QED
  BY <1>1, <1>2, <1>3, PTL DEF CliSpec

-----------------------------------------------------------------------------
(* The theorems.                                                           *)

\* Wherever a setting stands on the command line, commands are loaded, files
\* parsed and programs written with its final value.
THEOREM SettingsAreInTime == CliSpec => []SettingsInTime
<1>1. Sessions => SettingsInTime
  <2> SUFFICES ASSUME Sessions
               PROVE  SettingsInTime
    OBVIOUS
  <2>1. /\ session.cmdIndex \in {Unset, <<SdkSettings(session)>>}
        /\ session.parsedWith \subseteq {<<SdkSettings(session)>>}
    BY DEF Sessions, CommandsInTime, Loaded
  <2>2. ASSUME NEW ast
        PROVE  Writing(ast, session) = [Written(session) EXCEPT !.ast = ast]
    BY DEF Writing, Written
  <2>3. \A k \in DOMAIN session.written :
          session.written[k] = Writing(session.written[k].ast, session)
    BY DEF Sessions, OutputInTime
  <2> QED
    BY <2>1, <2>2, <2>3 DEF SettingsInTime
<1> QED
  BY <1>1, SessionsHold, PTL

\* odbc crashes only if no file is given, for an option that reads an argument that it
\* did not get, while it loads from an SDK that ends it, or for a program that ends
\* the compiler.
THEOREM CrashesHaveCause == CliSpec => []CrashesForCause
<1>1. Sessions => CrashesForCause
  BY DEF Sessions
<1> QED
  BY <1>1, SessionsHold, PTL
=============================================================================
