----------------------------- MODULE CommandLexer -----------------------------
(***************************************************************************)
(* The queue between the scanner and the parser, Driver::doParse of        *)
(* src/odb-compiler/src/parsers/db/Driver.cpp: tokens are scanned ahead to *)
(* find the longest command they spell, a match is merged into one token,  *)
(* words become keywords, and the head of the queue is pushed to bison.    *)
(*                                                                         *)
(* A text is a sequence of words and blanks; a word counts as one          *)
(* character.  CommandMatcher::findLongestCommandMatching is used only to  *)
(* ask whether a text is exactly a command.  A string that the lexer or    *)
(* doParse allocates is named by what it is for: the token scanned at a    *)
(* place of the source, or the command that begins there.                  *)
(***************************************************************************)
EXTENDS Naturals, Sequences, FiniteSets

CONSTANTS
  Sources,    \* the files considered: sequences of tokens, the last TOK_END
  Commands,   \* the texts of the commands in the matcher
  Keywords    \* the texts KeywordToken::lookup knows

Blank == " "
Kinds == {"symbol", "integer", "annotation", "string", "other", "end"}

ASSUME SourcesAreFiles ==
  \A s \in Sources :
    /\ s \in Seq([kind : Kinds, word : STRING]) /\ s # <<>>
    /\ \A p \in DOMAIN s : s[p].kind = "end" <=> p = Len(s)

\* The index was read from the tables of libraries: it is finite.
ASSUME CommandsAreTexts == Commands \subseteq Seq(STRING) /\ IsFiniteSet(Commands)

VARIABLES
  source,     \* the file (never changes)
  scanned,    \* how many tokens dblex has returned
  queue,      \* tokens
  phase,      \* where doParse stands
  i, text, lastInt,    \* i, possibleCommand, lastSymbolWasInteger
  best, found,         \* result.tokenIdx, result.match.found
  pushed,     \* tokens given to dbpush_parse (history)
  freed       \* how often each string was given to str::deleteCStr (history)

lookahead == <<i, text, lastInt, best, found>>
vars == <<source, scanned, queue, phase, lookahead, pushed, freed>>

\* A queued token: its kind, its text, the part of the source it covers.
ScannedToken(p) ==
  [kind |-> source[p].kind, text |-> <<source[p].word>>, from |-> p, to |-> p]
\* The queue after scanNextToken, which also moves "scanned".
Scan(q) == Append(q, ScannedToken(scanned + 1))

tokenHasFreeableString(t) == t.kind \in {"string", "symbol", "command"}
StringOf(t) == <<IF t.kind = "command" THEN "command" ELSE "token", t.from>>
Strings == {"token", "command"} \X (1 .. Len(source))
\* How often each string belongs to a token of q; all of them are freed.
Holders(q, s) == {k \in DOMAIN q : tokenHasFreeableString(q[k]) /\ StringOf(q[k]) = s}
StringsIn(q) == [s \in Strings |-> Cardinality(Holders(q, s))]
Free(these) == freed' = [s \in Strings |-> freed[s] + these[s]]

LongestCommandLength ==
  IF Commands = {} THEN 0
  ELSE LET longest == CHOOSE c \in Commands : \A d \in Commands : Len(d) <= Len(c)
       IN Len(longest)

Init ==
  /\ source \in Sources
  /\ scanned = 0
  /\ queue = <<>>
  /\ phase = "head"
  /\ i = 0 /\ text = <<>> /\ lastInt = FALSE
  /\ best = 0 /\ found = FALSE
  /\ pushed = <<>>
  /\ freed = [s \in Strings |-> 0]

-----------------------------------------------------------------------------
\* The start of the main loop: a queue that is empty gets a token.
ScanHead ==
  /\ phase = "head" /\ queue = <<>>
  /\ queue' = Scan(queue)
  /\ scanned' = scanned + 1
  /\ UNCHANGED <<source, phase, lookahead, pushed, freed>>

\* result = {}
EmptyResult == best' = 0 /\ found' = FALSE

\* scanAheadForPossibleCommand is called for an integer or a symbol.
StartAhead ==
  /\ phase = "head" /\ queue # <<>>
  /\ \/ /\ Head(queue).kind \in {"integer", "symbol"}
        /\ phase' = "ahead"
        /\ i' = 1 /\ text' = Head(queue).text /\ lastInt' = FALSE
        /\ EmptyResult
     \/ /\ Head(queue).kind \notin {"integer", "symbol"}
        /\ phase' = "push"
        /\ UNCHANGED lookahead
  /\ UNCHANGED <<source, scanned, queue, pushed, freed>>

\* One round of its loop: the text of i tokens is looked up, and the token
\* behind them, scanned now if need be, ends the loop or is appended.
Found == found \/ text \in Commands
FirstMatch == IF text \in Commands /\ ~found THEN i ELSE best    \* mutant
Longest == IF text \in Commands THEN i ELSE best
Tokens == IF i = Len(queue) THEN Scan(queue) ELSE queue
Behind == Tokens[i + 1]
Round ==
  /\ phase = "ahead" /\ Len(text) <= LongestCommandLength
  /\ queue' = Tokens
  /\ scanned' = IF i = Len(queue) THEN scanned + 1 ELSE scanned
  /\ best' = Longest
  /\ UNCHANGED <<source, pushed, freed>>

AheadAtEnd ==
  /\ Round /\ Behind.kind = "end"
  /\ found' = Found
  /\ phase' = "merge"
  /\ UNCHANGED <<i, text, lastInt>>

\* Mutant of Ahead: the loop goes on at an annotation without its increment.
AheadStuckOnAnnotation ==
  LET annotation == Behind.kind = "annotation"
  IN /\ Round /\ Behind.kind # "end"
     /\ found' = Found
     /\ text' = IF annotation THEN text ELSE text \o <<Blank>> \o Behind.text
     /\ i' = IF annotation THEN i ELSE i + 1
     /\ UNCHANGED <<lastInt, phase>>

\* An annotation belongs to the word before it: the match that ends there is void.
Ahead ==
  LET annotation == Behind.kind = "annotation"
      blank == IF lastInt \/ annotation THEN <<>> ELSE <<Blank>>
  IN /\ Round /\ Behind.kind # "end"
     /\ found' = (Found /\ ~(annotation /\ Longest = i))
     /\ text' = text \o blank \o Behind.text
     /\ lastInt' = (Behind.kind = "integer")
     /\ i' = i + 1
     /\ UNCHANGED phase

AheadEnds ==
  /\ phase = "ahead" /\ Len(text) > LongestCommandLength
  /\ phase' = "merge"
  /\ UNCHANGED <<source, scanned, queue, lookahead, pushed, freed>>

\* The text of the first n tokens of the queue, as the loop spelled it.
Spelled(q, n) ==
  LET Sep(k) == IF q[k].kind = "annotation" \/ (k > 2 /\ q[k - 1].kind = "integer")
                THEN <<>> ELSE <<Blank>>
      upTo[k \in 1 .. n] == IF k = 1 THEN q[1].text ELSE upTo[k - 1] \o Sep(k) \o q[k].text
  IN upTo[n]

\* A match becomes one token; the strings of the tokens it is made of are freed
\* and those tokens erased.  The mutants forget the last one.
MergedStringsButLast == StringsIn(SubSeq(queue, 1, best - 1))
MergedStrings == StringsIn(SubSeq(queue, 1, best))
UnmergedAndLast == SubSeq(queue, IF best = 1 THEN 2 ELSE best, Len(queue))
Unmerged == SubSeq(queue, best + 1, Len(queue))

Merge ==
  /\ phase = "merge"
  /\ \/ /\ found
        /\ LET command == [kind |-> "command", text |-> Spelled(queue, best),
                           from |-> Head(queue).from, to |-> queue[best].to]
           IN queue' = <<command>> \o Unmerged
        /\ Free(MergedStrings)
     \/ /\ ~found
        /\ UNCHANGED <<queue, freed>>
  /\ phase' = "keyword"
  /\ UNCHANGED <<source, scanned, lookahead, pushed>>

\* A word or a command that is a keyword becomes one, unless the token behind
\* it, which is scanned now if it is not in the queue, is an annotation.
Keyword ==
  LET tokens == IF Len(queue) < 2 THEN Scan(queue) ELSE queue
      head == Head(queue)
  IN /\ phase = "keyword"
     /\ \/ /\ head.kind = "integer"
           /\ UNCHANGED <<queue, scanned, freed>>
        \/ /\ head.kind \in {"symbol", "command"}
           /\ scanned' = IF Len(queue) < 2 THEN scanned + 1 ELSE scanned
           /\ IF head.text \in Keywords /\ tokens[2].kind # "annotation"
              THEN /\ queue' = <<[head EXCEPT !.kind = "keyword"]>> \o Tail(tokens)
                   /\ Free(StringsIn(<<head>>))
              ELSE /\ queue' = tokens
                   /\ UNCHANGED freed
     /\ phase' = "push"
     /\ UNCHANGED <<source, lookahead, pushed>>

\* dbpush_parse: the parser wants more, or it has finished: at TOK_END, or
\* earlier with an error.
PushToken ==
  /\ phase = "push"
  /\ pushed' = Append(pushed, Head(queue))
  /\ queue' = Tail(queue)
  /\ \/ Head(queue).kind # "end" /\ phase' = "head"
     \/ phase' = "cleanup"
  /\ UNCHANGED <<source, scanned, lookahead, freed>>

CleanUp ==
  /\ phase = "cleanup"
  /\ Free(StringsIn(queue))
  /\ queue' = <<>>
  /\ phase' = "done"
  /\ UNCHANGED <<source, scanned, lookahead, pushed>>

Next ==
  \/ ScanHead \/ StartAhead \/ Ahead \/ AheadAtEnd \/ AheadEnds \/ Merge \/ Keyword
  \/ PushToken \/ CleanUp

\* doParse runs to its end.
Spec == Init /\ [][Next]_vars /\ WF_vars(Next)

-----------------------------------------------------------------------------
\* Every string has one owner: it is freed once, or a token that is queued or
\* that the parser got holds it, and never two of these; a string that was
\* scanned is not lost, and one that was not is neither held nor freed.
Owners(s) == freed[s] + StringsIn(pushed)[s] + StringsIn(queue)[s]
Scanned(p) == p <= scanned /\ source[p].kind \in {"string", "symbol"}
StringsHaveOneOwner ==
  \A p \in 1 .. Len(source) :
    /\ Owners(<<"token", p>>) = IF Scanned(p) THEN 1 ELSE 0
    /\ Owners(<<"command", p>>) <= 1

\* What has been pushed and what is queued cover the source up to where it has
\* been scanned, in order, with no token missing and none twice.
NoTokenLost ==
  LET all == pushed \o queue
  IN /\ all # <<>> => Head(all).from = 1
     /\ \A k \in 1 .. Len(all) - 1 : all[k + 1].from = all[k].to + 1
     /\ phase # "done" /\ all # <<>> => all[Len(all)].to = scanned

\* The words from p to k as they are matched, from the source alone.
TextOf(p, k) == Spelled([n \in 1 .. k - p + 1 |-> ScannedToken(p + n - 1)], k - p + 1)
Matches(p) == {k \in p .. Len(source) - 1 : TextOf(p, k) \in Commands}
Annotated(k) == source[k + 1].kind = "annotation"

\* However the queue was filled before, what is pushed depends on the source
\* alone: from a word or an integer on the longest command, if no annotation
\* follows it; a keyword where no annotation follows; else the token itself.
PushedAsSpelled ==
  \A n \in DOMAIN pushed :
    LET t == pushed[n]
        longest == CHOOSE k \in Matches(t.from) : \A m \in Matches(t.from) : m <= k
        merged == /\ source[t.from].kind \in {"symbol", "integer"}
                  /\ Matches(t.from) # {} /\ ~Annotated(longest)
        last == IF merged THEN longest ELSE t.from
        keyword == /\ merged \/ source[t.from].kind = "symbol"
                   /\ TextOf(t.from, last) \in Keywords /\ ~Annotated(last)
    IN /\ t.to = last
       /\ t.kind = CASE keyword -> "keyword"
                     [] merged /\ ~keyword -> "command"
                     [] OTHER -> source[t.from].kind

\* doParse ends, with the whole source read unless the parser gave up.
Terminates == <>(phase = "done")

\* "Commands unfortunately can start with integers [...] We do not want to put
\* spaces in between integers and following symbols" (Driver.cpp:134): an integer
\* is not pushed as such where it begins a command spelled that way.
CommandsMayStartWithIntegers ==
  \A n \in DOMAIN pushed :
    LET t == pushed[n]
    IN t.kind = "integer" /\ source[t.from + 1].kind = "symbol" =>
         <<source[t.from].word, source[t.from + 1].word>> \notin Commands
=============================================================================
