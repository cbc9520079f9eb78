-------------------------- MODULE MCLabelResolution --------------------------
(***************************************************************************)
(* Small programs for LabelResolution: every main of up to three and user  *)
(* functions of up to two label, goto and gosub statements over two names, *)
(* and every well-nested main of up to six loop brackets and exits.        *)
(***************************************************************************)
EXTENDS LabelResolution, SequencesExt

CONSTANTS a, b

Item(op, n) == [op |-> op, name |-> n]
Plain(op) == Item(op, NULL)

MCNames == {a, b}

\* For each name a label, and one of the two kinds of jump to it.
JumpItems == {Item("label", a), Item("goto", a), Item("label", b), Item("gosub", b)}
LabelPrograms ==
  {[main |-> m, f |-> f, g |-> g] :
     m \in BoundedSeq(JumpItems \cup {Item("gosub", a)}, 3),
     f \in BoundedSeq(JumpItems, 2),
     g \in BoundedSeq({Item("label", a), Item("goto", b)}, 1)}

WellNested(body) ==
  LET Opened(k) == Cardinality({i \in 1 .. k : body[i].op = "loop"})
      Closed(k) == Cardinality({i \in 1 .. k : body[i].op = "endloop"})
  IN /\ \A k \in DOMAIN body : Closed(k) <= Opened(k)
     /\ Closed(Len(body)) = Opened(Len(body))
LoopBodies ==
  {body \in BoundedSeq({Plain("loop"), Plain("endloop"), Plain("exit")}, 6) : WellNested(body)}
LoopPrograms ==
  {[main |-> m, f |-> <<Plain("exit"), Plain("other")>>] : m \in LoopBodies}
    \cup {[main |-> m] : m \in LoopBodies}

MCPrograms == LabelPrograms \cup LoopPrograms
=============================================================================
