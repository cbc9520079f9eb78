---------------------------- MODULE CommandMatcher ----------------------------
(***************************************************************************)
(* cmd::CommandMatcher of src/odb-compiler/src/commands: the commands'     *)
(* names in lower case, sorted, and the search for the longest of them a   *)
(* text begins with.  A text is a sequence of characters of Ascii, one of  *)
(* each kind that the search tells apart, in the order of their codes.     *)
(***************************************************************************)
EXTENDS Integers, Sequences, FiniteSetsExt

Nul == "nul"
Ascii == <<Nul, " ", "$", "3", "A", "a", "b">>
Chars == {Ascii[k] : k \in DOMAIN Ascii}
Code == [c \in Chars |-> CHOOSE k \in DOMAIN Ascii : Ascii[k] = c]

LowerChar == [c \in Chars |-> IF c = "A" THEN "a" ELSE c]
toLower(s) == [k \in DOMAIN s |-> LowerChar[s[k]]]

charIsSymbolToken(c) == c \in {"3", "A", "a", "b"}

\* str[n - 1] of a C string: the terminator behind the last character.
At(s, n) == IF n <= Len(s) THEN s[n] ELSE Nul

\* std::string's operator<
Less(s, t) ==
  \E n \in 1 .. Len(t) :
    /\ Code[At(s, n)] < Code[At(t, n)]
    /\ \A k \in 1 .. n - 1 : At(s, k) = At(t, k)

\* std::sort: the place of a name is the number of those that come before it.
Rank(names, k) ==
  Cardinality({j \in DOMAIN names : Less(names[j], names[k]) \/ (names[j] = names[k] /\ j <= k)})
Sort(names) == [n \in DOMAIN names |-> names[CHOOSE k \in DOMAIN names : Rank(names, k) = n]]

\* Mutant: the names are sorted as they are spelled and lowered afterwards.
SortedAsSpelled(names) ==
  LET sorted == Sort(names) IN [k \in DOMAIN sorted |-> toLower(sorted[k])]
updateFromIndex(names) == Sort([k \in DOMAIN names |-> toLower(names[k])])

\* The part [first, last) of the sorted names that agrees with str in its
\* first n characters, halved from the part for n - 1 by std::lower_bound
\* and std::upper_bound on the nth.
LowerBound(commands, str, first, last, n) ==
  Min({j \in first .. last - 1 : Code[At(commands[j], n)] >= Code[LowerChar[At(str, n)]]}
        \cup {last})
UpperBound(commands, str, first, last, n) ==
  Min({j \in first .. last - 1 : Code[At(commands[j], n)] > Code[LowerChar[At(str, n)]]}
        \cup {last})
Halved(commands, str, part, n) ==
  LET lower == LowerBound(commands, str, part.first, part.last, n)
  IN [first |-> lower, last |-> UpperBound(commands, str, lower, part.last, n)]
Narrowed(commands, str) ==
  LET part[n \in 0 .. Len(str)] ==
        IF n = 0 THEN [first |-> 1, last |-> Len(commands) + 1]
        ELSE Halved(commands, str, part[n - 1], n)
  IN part

strncicmpEqual(str, command) ==
  \A k \in DOMAIN command : LowerChar[At(str, k)] = LowerChar[command[k]]

\* Mutant: the candidates are tried from the shortest match on.
ShortestCommandMatching(commands, str) ==
  LET part == Narrowed(commands, str)
      matchedLen == Max({n \in DOMAIN part : n = 0 \/ part[n].first < part[n].last})
      ends == {n \in 1 .. matchedLen :
                 /\ ~charIsSymbolToken(At(str, n + 1))
                 /\ strncicmpEqual(str, commands[part[n].first])}
  IN IF ends = {} THEN [matchedLength |-> matchedLen, found |-> FALSE]
     ELSE [matchedLength |-> Len(commands[part[Min(ends)].first]), found |-> TRUE]

\* commandStack holds the first name of the part for each n that ends a word.
findLongestCommandMatching(commands, str) ==
  LET part == Narrowed(commands, str)
      matchedLen == Max({n \in DOMAIN part : n = 0 \/ part[n].first < part[n].last})
      commandStack == {n \in 1 .. matchedLen : ~charIsSymbolToken(At(str, n + 1))}
      hits == {n \in commandStack : strncicmpEqual(str, commands[part[n].first])}
  IN IF hits = {} THEN [matchedLength |-> matchedLen, found |-> FALSE]
     ELSE [matchedLength |-> Len(commands[part[Max(hits)].first]), found |-> TRUE]

Longest(commands, Measure(_)) ==
  Max({Measure(commands[k]) : k \in DOMAIN commands} \cup {0})
longestCommandLength(commands) == Longest(commands, Len)
longestCommandWordCount(commands) ==
  LET words(s) == Cardinality({k \in DOMAIN s : s[k] = " "}) + 1
  IN Longest(commands, words)
=============================================================================
