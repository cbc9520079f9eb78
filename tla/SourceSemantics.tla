--------------------------- MODULE SourceSemantics ---------------------------
(***************************************************************************)
(* What a function body means to the BASIC programmer: an abstract machine *)
(* that walks over the statements, with a stack of gosub return positions  *)
(* and the counters of the for loops.  Nothing is said of basic blocks.    *)
(* A body that does not compile has no meaning, and is refused.            *)
(* The statements are those of BlockGenerator, a nested block bracketed.   *)
(***************************************************************************)
EXTENDS Integers, Sequences, FiniteSets

CONSTANTS
  Labels, Loops, Bodies, NULL,
  ForRange,     \* of each loop object: the initial, end and step values of a for
  GosubDepth    \* nested gosubs beyond this have no defined meaning

VARIABLES
  body,      \* the statements (never changes)
  pc,        \* <<i, "at">>: at statement i; <<i, "test">>: at the test of for i
  calls,     \* the points after the gosubs that have not returned
  counter    \* the for variables

vars == <<body, pc, calls, counter>>

Halted == <<0, "halted">>
Undefined == <<0, "undefined">>
Refused == <<0, "refused">>

At(op) == pc[2] = "at" /\ pc[1] \in DOMAIN body /\ body[pc[1]].op = op
Arg == body[pc[1]].arg
GoTo(i) == pc' = <<i, "at">>
After(i) == GoTo(i + 1)

\* The bracket that closes the one at i: the first point at which as many have
\* been closed as opened.  The else of an if comes one level before that.
Open(i, j) == Cardinality({k \in i .. j : body[k].op \in {"if", "loop", "for"}})
                - Cardinality({k \in i .. j : body[k].op \in {"endif", "endloop", "next"}})
First(S) == CHOOSE j \in S : \A k \in S : j <= k
CloseOf(i) == First({j \in i .. Len(body) : Open(i, j) = 0})
ElseOf(i) == First({j \in i .. Len(body) : body[j].op = "else" /\ Open(i, j) = 1})
OpenOf(j) == CHOOSE i \in 1 .. j : body[i].op \in {"if", "loop", "for"} /\ CloseOf(i) = j
LoopPos(loop) == CHOOSE i \in DOMAIN body : body[i].op \in {"loop", "for"} /\ body[i].arg = loop
LabelPos(l) == CHOOSE i \in DOMAIN body : body[i].op = "label" /\ body[i].arg = l

Init ==
  /\ body \in Bodies
  /\ pc = <<1, "at">>
  /\ calls = <<>>
  /\ counter = [l \in Loops |-> 0]

Only(jump) == jump /\ UNCHANGED <<body, calls, counter>>

Walk == (At("exec") \/ At("label") \/ At("endif")) /\ Only(After(pc[1]))
Goto == At("goto") /\ Only(After(LabelPos(Arg)))

Gosub ==
  /\ At("gosub")
  /\ \/ /\ Len(calls) < GosubDepth
        /\ calls' = Append(calls, <<pc[1] + 1, "at">>)
        /\ After(LabelPos(Arg))
     \/ /\ Len(calls) = GosubDepth
        /\ pc' = Undefined
        /\ UNCHANGED calls
  /\ UNCHANGED <<body, counter>>

Return ==
  /\ At("return")
  /\ \/ /\ calls # <<>>
        /\ pc' = calls[Len(calls)]
        /\ calls' = SubSeq(calls, 1, Len(calls) - 1)
     \/ /\ calls = <<>>
        /\ pc' = Undefined
        /\ UNCHANGED calls
  /\ UNCHANGED <<body, counter>>

\* The condition has either value.
If == At("if") /\ \E i \in {pc[1], ElseOf(pc[1])} : Only(After(i))
Else == At("else") /\ Only(After(First({j \in pc[1] .. Len(body) : Open(pc[1], j) = -1})))

Loop == At("loop") /\ Only(After(pc[1]))
Endloop == At("endloop") /\ Only(After(OpenOf(pc[1])))
Exit == At("exit") /\ Only(After(CloseOf(LoopPos(Arg))))

For ==
  /\ At("for")
  /\ counter' = [counter EXCEPT ![Arg] = ForRange[Arg].from]
  /\ pc' = <<pc[1], "test">>
  /\ UNCHANGED <<body, calls>>

Test ==
  LET range == ForRange[Arg]
      inside == \/ range.step > 0 /\ counter[Arg] <= range.to
                \/ range.step < 0 /\ counter[Arg] >= range.to
  IN /\ pc[2] = "test"
     /\ Only(After(IF inside THEN pc[1] ELSE CloseOf(pc[1])))

NextStmt ==
  LET for == OpenOf(pc[1])
      loop == body[for].arg
  IN /\ At("next")
     /\ counter' = [counter EXCEPT ![loop] = @ + ForRange[loop].step]
     /\ pc' = <<for, "test">>
     /\ UNCHANGED <<body, calls>>

End == (At("end") \/ pc = <<Len(body) + 1, "at">>) /\ Only(pc' = Halted)

Step ==
  \/ Walk \/ Goto \/ Gosub \/ Return \/ If \/ Else
  \/ Loop \/ Endloop \/ Exit \/ For \/ Test \/ NextStmt \/ End

\* A function compiles if all its statements do, and its jumps stay in it.
Compiles ==
  \A i \in DOMAIN body :
    /\ body[i].op \notin {"exitfunction", "unhandled"}
    /\ body[i].op \in {"goto", "gosub"} =>
         \E j \in DOMAIN body : body[j].op = "label" /\ body[j].arg = body[i].arg
Refuse == pc = <<1, "at">> /\ Only(pc' = Refused)

Next == IF Compiles THEN Step ELSE Refuse

Spec == Init /\ [][Next]_vars /\ WF_vars(Next)
=============================================================================
