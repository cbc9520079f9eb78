---------------------------- MODULE MCGeneratedCode ----------------------------
(***************************************************************************)
(* Small bodies for BlockGenerator, and for GeneratedCode those of them    *)
(* that the verifier accepts: every well-nested sequence of up to four     *)
(* statements over a label of the function, a jump to a label of another   *)
(* function, an unbound jump and two loops; longer ones in which jumps,    *)
(* gosubs, returns and exits stand on both sides of a nested block; a      *)
(* rising, a falling and a zero step; and a gosub stack of two slots.      *)
(***************************************************************************)
EXTENDS GeneratedCode, BodyShapes

CONSTANTS l1, l2, outside, L1, L2, L3

MCLabels == {l1, l2, outside}
MCLoops == {L1, L2, L3}
MCRange ==
  (L1 :> [from |-> 0, to |-> 1, step |-> 0])
    @@ (L2 :> [from |-> 1, to |-> 2, step |-> 1])
    @@ (L3 :> [from |-> 1, to |-> 0, step |-> -1])

Plain(op) == It(op, NULL)

Accepted ==
  {It("label", l1), It("goto", l1), It("gosub", l1),
   It("loop", L1), It("for", L2), It("exit", L1), It("exit", L2)}
    \cup {Plain(op) : op \in {"exec", "return", "if", "else", "endif", "endloop", "next", "end"}}
NotAccepted ==
  {It("goto", outside), It("gosub", NULL), Plain("exitfunction"), Plain("unhandled")}
Jumps == {It("gosub", l2), It("goto", l2), It("exit", L3), It("for", L1)}

Around(mid) ==
  {<<It("for", L2), It("for", L3)>> \o mid \o <<Plain("next"), Plain("exec"), Plain("next"), It("label", l2)>>,
   <<It("for", L2), It("loop", L1)>> \o mid \o <<Plain("endloop"), Plain("next")>>,
   <<It("loop", L1), Plain("if")>> \o mid \o <<Plain("else"), It("exit", L1), Plain("endif"), Plain("endloop")>>,
   <<Plain("if"), It("goto", l2), Plain("else")>> \o mid \o <<Plain("endif"), It("label", l2), Plain("return")>>,
   <<It("gosub", l2), Plain("end"), It("label", l2)>> \o mid \o <<Plain("return")>>,
   <<It("gosub", l2), It("for", L2), It("gosub", l2), Plain("next"), Plain("end"),
     It("label", l2)>> \o mid \o <<Plain("return")>>}

\* It jumps back into a for loop that has ended: the counter would grow for ever.
JumpsBackIn == <<It("for", L2), It("label", l1), Plain("next"), It("goto", l1)>>
ShortBodies == {s \in BoundedSeq(Accepted \cup NotAccepted, 4) : IsBody(s) /\ s # JumpsBackIn}
LongBodies == {s \in UNION {Around(m) : m \in BoundedSeq(Accepted \cup NotAccepted \cup Jumps, 2)} : IsBody(s)}
MCBodies == ShortBodies \cup LongBodies
=============================================================================
