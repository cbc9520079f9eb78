------------------------------ MODULE BodyShapes ------------------------------
(***************************************************************************)
(* Which sequences of items are bodies that the parser and ASTConverter    *)
(* can produce: used to enumerate the inputs of the small instances.       *)
(***************************************************************************)
EXTENDS SequencesExt

It(op, arg) == [op |-> op, arg |-> arg]

\* The constructs that are open after the items of s, with a "bad" one on top
\* where a bracket does not match.  An exit is bound to the innermost loop.
Nesting(s) ==
  LET Closer == [endif |-> "else", endloop |-> "loop", next |-> "for"]
      LoopsOf(open) == SelectSeq(open, LAMBDA e : e.op \in {"loop", "for"})
      Step(open, it) ==
        LET Inner(op) == open # <<>> /\ Last(open).op = op
        IN CASE it.op \in {"if", "loop", "for"} -> Append(open, it)
             [] it.op = "else" /\ Inner("if") -> Append(Front(open), it)
             [] it.op \in DOMAIN Closer /\ Inner(Closer[it.op]) -> Front(open)
             [] it.op = "exit" /\ LoopsOf(open) # <<>> /\ Last(LoopsOf(open)).arg = it.arg -> open
             [] it.op \notin {"else", "exit"} \cup DOMAIN Closer -> open
             [] OTHER -> Append(open, [op |-> "bad", arg |-> it.arg])
  IN FoldLeft(Step, <<>>, s)

\* A label stands in one place, and so does a loop object.
Unique(s) ==
  \A i, j \in DOMAIN s :
    /\ s[i].arg = s[j].arg
    /\ {s[i].op, s[j].op} \subseteq {"label"} \/ {s[i].op, s[j].op} \subseteq {"loop", "for"}
    => i = j

IsBody(s) == Nesting(s) = <<>> /\ Unique(s)

\* Every jump has its label in the body.
IsClosed(s) ==
  \A i \in DOMAIN s :
    s[i].op \in {"goto", "gosub"} =>
      \E j \in DOMAIN s : s[j].op = "label" /\ s[j].arg = s[i].arg
=============================================================================
