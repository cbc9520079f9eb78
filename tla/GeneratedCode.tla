----------------------------- MODULE GeneratedCode -----------------------------
(***************************************************************************)
(* A run of the code that BlockGenerator generates, once the verifier has  *)
(* accepted it: one LLVM instruction per step, with the gosub stack and    *)
(* the functions gosubPushAddress and gosubPopAddress that every function  *)
(* of the program uses (CodeGenerator.cpp).  The stack is an array of      *)
(* GosubDepth addresses that neither function checks the bounds of.        *)
(*                                                                         *)
(* The run implements the walk over the statements that SourceSemantics    *)
(* describes: property Source.                                             *)
(***************************************************************************)
EXTENDS BlockGenerator, Integers

CONSTANTS
  ForRange,    \* of each loop object: the initial, end and step values of a for
  GosubDepth   \* slots of gosubStackType, 32 in generateModule

ASSUME DepthIsPositive == GosubDepth \in Nat \ {0}
ASSUME RangesAreIntegers == ForRange \in [Loops -> [from : Int, to : Int, step : Int]]

VARIABLES
  block, instr,  \* the instruction to execute next
  stack,         \* the first gosubSP slots of gosubStack
  counter,       \* contents of the for variables
  outcome        \* "running", "halted" or "undefined" behaviour

runVars == <<block, instr, stack, counter, outcome>>

RunInit ==
  /\ block = 1
  /\ instr = 1
  /\ stack = <<>>
  /\ counter = [l \in Loops |-> 0]   \* integers are initialised to zero
  /\ outcome = "running"

Current == code[block][instr]
AtInstr(op) ==
  status = "accepted" /\ outcome = "running" /\ Current.op = op
Fall == instr' = instr + 1 /\ UNCHANGED block
GoToBlock(b) == block' = b /\ instr' = 1
Stay == UNCHANGED <<block, instr>>
Generated == UNCHANGED genVars

\* Instructions that only compute and store.
RunExec ==
  /\ AtInstr("exec") /\ Fall
  /\ UNCHANGED <<stack, counter, outcome>>

RunInitFor ==
  /\ AtInstr("init") /\ Fall
  /\ counter' = [counter EXCEPT ![Current.loop] = ForRange[Current.loop].from]
  /\ UNCHANGED <<stack, outcome>>

RunStepFor ==
  /\ AtInstr("step") /\ Fall
  /\ counter' = [counter EXCEPT ![Current.loop] = @ + ForRange[Current.loop].step]
  /\ UNCHANGED <<stack, outcome>>

RunBr ==
  /\ AtInstr("br") /\ GoToBlock(Current.to[1])
  /\ UNCHANGED <<stack, counter, outcome>>

\* A conditional: its expression has either value.
RunChoice ==
  /\ AtInstr("choice")
  /\ \E k \in {1, 2} : GoToBlock(Current.to[k])
  /\ UNCHANGED <<stack, counter, outcome>>

\* icmp and conditional branch of the four condition blocks of a for loop.
RunCondBr(op, Holds(_, _)) ==
  /\ AtInstr(op)
  /\ GoToBlock(Current.to[IF Holds(counter[Current.loop], ForRange[Current.loop]) THEN 1 ELSE 2])
  /\ UNCHANGED <<stack, counter, outcome>>
RunPositive == RunCondBr("positive", LAMBDA v, range : range.step > 0)
RunNegative == RunCondBr("negative", LAMBDA v, range : range.step < 0)
RunNotAbove == RunCondBr("notAbove", LAMBDA v, range : v <= range.to)
RunNotBelow == RunCondBr("notBelow", LAMBDA v, range : v >= range.to)

RunPush ==
  /\ AtInstr("push")
  /\ \/ /\ Len(stack) < GosubDepth
        /\ stack' = Append(stack, Current.to[1])
        /\ Fall
        /\ UNCHANGED outcome
     \/ /\ Len(stack) >= GosubDepth
        /\ outcome' = "undefined"
        /\ Stay /\ UNCHANGED stack
  /\ UNCHANGED counter

\* gosubPopAddress, which reads before the array when it is empty, and the
\* indirectbr, which is undefined for an address it does not list.
ReturnIsDefined == stack # <<>> /\ stack[Len(stack)] \in dests[block]
RunReturn ==
  /\ AtInstr("indirectbr")
  /\ \/ /\ ReturnIsDefined
        /\ GoToBlock(stack[Len(stack)])
        /\ stack' = SubSeq(stack, 1, Len(stack) - 1)
        /\ UNCHANGED outcome
     \/ /\ ~ReturnIsDefined
        /\ outcome' = "undefined"
        /\ Stay /\ UNCHANGED stack
  /\ UNCHANGED counter

RunRet ==
  /\ AtInstr("ret")
  /\ outcome' = "halted"
  /\ Stay /\ UNCHANGED <<stack, counter>>

Run ==
  \/ RunExec \/ RunInitFor \/ RunStepFor \/ RunBr \/ RunChoice
  \/ RunPositive \/ RunNegative \/ RunNotAbove \/ RunNotBelow
  \/ RunPush \/ RunReturn \/ RunRet

Init == GenInit /\ RunInit
Next ==
  \/ GenNextStep /\ UNCHANGED runVars
  \/ Run /\ Generated
vars == <<genVars, runVars>>

\* The compiler and the processor do not stop by themselves.
Spec == Init /\ [][Next]_vars /\ WF_vars(Next)

-----------------------------------------------------------------------------
\* A return never meets an address that is missing from its destinations: the
\* only undefined runs are those in which more gosubs than GosubDepth, or no
\* gosub at all, wait for a return.
UndefinedOnlyAtTheStackLimits ==
  outcome = "undefined" =>
    \/ Current.op = "push" /\ Len(stack) = GosubDepth
    \/ Current.op = "indirectbr" /\ stack = <<>>

\* The points of the source a state of the run stands for.  A gosub has
\* happened when its branch is done, not when its address is pushed.
SourcePc ==
  CASE outcome = "halted" -> <<0, "halted">>
    [] outcome = "undefined" -> <<0, "undefined">>
    [] status \in {"crashed", "rejected"} -> <<0, "refused">>
    [] status \in {"generate", "verify"} -> <<1, "at">>
    [] OTHER -> Current.at

SourceCalls ==
  LET returned == IF status = "accepted" /\ instr > 1 /\ code[block][instr - 1].op = "push"
                  THEN SubSeq(stack, 1, Len(stack) - 1) ELSE stack
  IN [k \in DOMAIN returned |-> code[returned[k]][1].at]

Semantics == INSTANCE SourceSemantics WITH pc <- SourcePc, calls <- SourceCalls, Bodies <- Seq(Items)

\* Every run of an accepted function is a run of its statements: no block is
\* missing, left too early or continued at the wrong place, whatever the
\* nesting, and the run does not stop while the statements go on.  A function that
\* is not accepted is one that does not compile by the text, and never runs.
Source == Semantics!Spec
=============================================================================
