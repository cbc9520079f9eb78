---------------------------- MODULE BlockGenerator ----------------------------
(***************************************************************************)
(* How ir::CodeGenerator turns the statements of one function into LLVM    *)
(* basic blocks (src/odb-compiler/src/ir/codegen/CodeGenerator.cpp):       *)
(* generateFunctionBody, generateBlock and the SymbolTable they fill.      *)
(*                                                                         *)
(* The statements are a sequence in which a nested block is bracketed, so  *)
(* that the recursion of generateBlock is the stack "frames": the builder  *)
(* of each call that is suspended in a nested block, with the blocks it    *)
(* has created.  A basic block is a sequence of instructions and its       *)
(* number is its place in "code".  An instruction keeps the point of the   *)
(* source it was emitted for; generation does not read it.                 *)
(***************************************************************************)
EXTENDS Naturals, Sequences

CONSTANTS
  Labels,   \* identities of ir::Label objects, of this function or another
  Loops,    \* identities of ir::Loop objects
  Bodies,   \* the function bodies considered
  NULL      \* nullptr

Ops == {"exec", "label", "goto", "gosub", "return", "if", "else", "endif",
        "loop", "endloop", "for", "next", "exit", "end", "exitfunction", "unhandled"}
Items == [op : Ops, arg : Labels \cup Loops \cup {NULL}]
HasLabel == {"label", "goto", "gosub"}
HasLoop == {"loop", "for", "exit"}

ASSUME NullIsNoArg == NULL \notin Labels \cup Loops
ASSUME BodiesAreItems ==
  \A b \in Bodies :
    /\ b \in Seq(Items)
    /\ \A i \in DOMAIN b :
         /\ b[i].op \in HasLabel => b[i].arg \in Labels \cup {NULL}
         /\ b[i].op = "label" => b[i].arg # NULL
         /\ b[i].op \in HasLoop => b[i].arg \in Loops
\* A label is an object of the tree, which is one statement.
ASSUME LabelsStandOnce ==
  \A b \in Bodies : \A i, j \in DOMAIN b :
    b[i].op = "label" /\ b[j].op = "label" /\ b[i].arg = b[j].arg => i = j
\* So is a loop.
ASSUME LoopsStandOnce ==
  \A b \in Bodies : \A i, j \in DOMAIN b :
    {b[i].op, b[j].op} \subseteq {"loop", "for"} /\ b[i].arg = b[j].arg => i = j

VARIABLES
  body,          \* irFunction.statements()
  pos,           \* next statement
  frames,        \* the suspended calls of generateBlock
  code,          \* the basic blocks created so far
  inserted,      \* those that have a parent function
  cur,           \* builder.GetInsertBlock()
  labelBlocks,   \* SymbolTable::labelBlocks, 0 for no entry
  loopExit,      \* SymbolTable::loopExitBlocks, 0 for no entry
  returnPoints,  \* SymbolTable::gosubReturnPoints
  dests,         \* gosubReturnInstructions: destinations of each, by its block
  status         \* "generate", "verify", "accepted", "rejected", "crashed"

symtab == <<labelBlocks, loopExit, returnPoints, dests>>
genVars == <<body, pos, frames, code, inserted, cur, symtab, status>>

Terminators == {"br", "choice", "positive", "negative", "notAbove", "notBelow",
                "ret", "retvalue", "indirectbr"}
InstrOps == Terminators \cup {"exec", "push", "init", "step"}

\* Instruction op with branch targets or block operands "to", emitted for the
\* statement (or, for a for loop, the test) at point "at"; those of a for loop
\* use the variable, the end value or the step of the loop object.
Instr(op, to, at) == [op |-> op, to |-> to, at |-> at, loop |-> NULL]
ForInstr(op, to, at, loop) == [op |-> op, to |-> to, at |-> at, loop |-> loop]
Stmt(i) == <<i, "at">>
Test(i) == <<i, "test">>

IsTerminated(block) ==
  block # <<>> /\ block[Len(block)].op \in Terminators

Emit(blocks, b, instrs) == [blocks EXCEPT ![b] = @ \o instrs]
Br(to, at) == <<Instr("br", <<to>>, at)>>

\* getOrAddLabelBlock: the block of a label, and the blocks once it exists.
\* A block it creates has no parent until the label itself is generated.
LabelBlock(l) == IF labelBlocks[l] = 0 THEN Len(code) + 1 ELSE labelBlocks[l]
WithLabelBlock(l) == IF labelBlocks[l] = 0 THEN Append(code, <<>>) ELSE code
LabelTableUnchanged(l) == labelBlocks    \* mutant: the new block is not entered
LabelTable(l) == [labelBlocks EXCEPT ![l] = LabelBlock(l)]

\* What addGosubReturnPoint makes of the destinations of the returns, and
\* addGosubIndirectBr of those of the new one, in block b.  The mutants lose them.
AddReturnPointToNone(point) == dests
AddReturnPoint(point) == [r \in DOMAIN dests |-> dests[r] \cup {point}]
AddIndirectBrWithoutPoints(b) ==
  [r \in DOMAIN dests \cup {b} |-> IF r = b THEN {} ELSE dests[r]]
AddIndirectBr(b) ==
  [r \in DOMAIN dests \cup {b} |-> IF r = b THEN returnPoints ELSE dests[r]]

-----------------------------------------------------------------------------
\* generateFunctionBody has created the entry block (allocations omitted).
GenInit ==
  /\ body \in Bodies
  /\ pos = 1
  /\ frames = <<>>
  /\ code = << <<>> >>
  /\ inserted = {1}
  /\ cur = 1
  /\ labelBlocks = [l \in Labels |-> 0]
  /\ loopExit = [l \in Loops |-> 0]
  /\ returnPoints = {}
  /\ dests = [b \in {} |-> {}]
  /\ status = "generate"

AtOp(op) == status = "generate" /\ pos <= Len(body) /\ body[pos].op = op
Arg == body[pos].arg
Here == Stmt(pos)
Advance == pos' = pos + 1 /\ UNCHANGED <<body, status>>
InsertNowhere(b) == UNCHANGED inserted    \* mutant: insertInto is forgotten
InsertInto(b) == inserted' = inserted \cup {b}

\* Mutant: a statement without a case is passed over.
GenExecOrSkip ==
  /\ AtOp("exec") \/ AtOp("unhandled")
  /\ code' = Emit(code, cur, <<Instr("exec", <<>>, Here)>>)
  /\ Advance
  /\ UNCHANGED <<frames, inserted, cur, symtab>>

GenExec ==
  /\ AtOp("exec")
  /\ code' = Emit(code, cur, <<Instr("exec", <<>>, Here)>>)
  /\ Advance
  /\ UNCHANGED <<frames, inserted, cur, symtab>>

GenLabel ==
  LET b == LabelBlock(Arg)
  IN /\ AtOp("label")
     /\ code' = Emit(WithLabelBlock(Arg), cur, Br(b, Here))
     /\ labelBlocks' = LabelTable(Arg)
     /\ InsertInto(b)
     /\ cur' = b
     /\ Advance
     /\ UNCHANGED <<frames, loopExit, returnPoints, dests>>

\* Mutant: no new block after the branch.
GenGotoNoDeadBlock ==
  LET b == LabelBlock(Arg)
  IN /\ AtOp("goto") /\ Arg # NULL
     /\ code' = Emit(WithLabelBlock(Arg), cur, Br(b, Here))
     /\ labelBlocks' = LabelTable(Arg)
     /\ Advance
     /\ UNCHANGED <<frames, inserted, cur, loopExit, returnPoints, dests>>
\* The statements after a goto go to a block nothing branches to.
GenGoto ==
  LET b == LabelBlock(Arg)
      dead == Len(WithLabelBlock(Arg)) + 1
  IN /\ AtOp("goto") /\ Arg # NULL
     /\ code' = Append(Emit(WithLabelBlock(Arg), cur, Br(b, Here)), <<>>)
     /\ labelBlocks' = LabelTable(Arg)
     /\ inserted' = inserted \cup {dead}
     /\ cur' = dead
     /\ Advance
     /\ UNCHANGED <<frames, loopExit, returnPoints, dests>>

\* The new return point is given to every indirectbr there is ...
GenGosub ==
  LET b == LabelBlock(Arg)
      continuation == Len(WithLabelBlock(Arg)) + 1
      jump == <<Instr("push", <<continuation>>, Here)>> \o Br(b, Here)
  IN /\ AtOp("gosub") /\ Arg # NULL
     /\ code' = Append(Emit(WithLabelBlock(Arg), cur, jump), <<>>)
     /\ labelBlocks' = LabelTable(Arg)
     /\ inserted' = inserted \cup {continuation}
     /\ returnPoints' = returnPoints \cup {continuation}
     /\ dests' = AddReturnPoint(continuation)
     /\ cur' = continuation
     /\ Advance
     /\ UNCHANGED <<frames, loopExit>>

\* ... and the new indirectbr gets every return point there is.
GenReturn ==
  LET dead == Len(code) + 1
  IN /\ AtOp("return")
     /\ code' = Append(Emit(code, cur, <<Instr("indirectbr", <<>>, Here)>>), <<>>)
     /\ dests' = AddIndirectBr(cur)
     /\ inserted' = inserted \cup {dead}
     /\ cur' = dead
     /\ Advance
     /\ UNCHANGED <<frames, labelBlocks, loopExit, returnPoints>>

\* label()->name() of a jump that was never bound; or a statement that
\* generateBlock has no case for, whose nullptr the caller dereferences.
GenCrash ==
  /\ \/ AtOp("goto") /\ Arg = NULL
     \/ AtOp("gosub") /\ Arg = NULL
     \/ AtOp("unhandled")
  /\ status' = "crashed"
  /\ UNCHANGED <<body, pos, frames, code, inserted, cur, symtab>>

-----------------------------------------------------------------------------
(* Nested blocks: an opening item starts the recursive call of             *)
(* generateBlock, a closing one runs what follows the call.                *)
\* outer: where the suspended builder stands; first, second: the blocks it made;
\* done, mid: where the true branch of a conditional ended, and at which item.
Frame(kind, first, second) ==
  [kind |-> kind, at |-> pos, outer |-> cur, first |-> first, second |-> second,
   done |-> 0, mid |-> 0]
Push(frame) == frames' = Append(frames, frame)
Top == frames[Len(frames)]
Pop == frames' = SubSeq(frames, 1, Len(frames) - 1)
Closes(kind) == frames # <<>> /\ Top.kind = kind

GenIf ==
  LET trueBlock == Len(code) + 1
  IN /\ AtOp("if")
     /\ code' = Append(code, <<>>)
     /\ inserted' = inserted \cup {trueBlock}
     /\ Push(Frame("if", trueBlock, 0))
     /\ cur' = trueBlock
     /\ Advance
     /\ UNCHANGED symtab

GenElse ==
  LET falseBlock == Len(code) + 1
      frame == [kind |-> "else", at |-> Top.at, outer |-> Top.outer, first |-> Top.first,
                second |-> falseBlock, done |-> cur, mid |-> pos]
  IN /\ AtOp("else") /\ Closes("if")
     /\ code' = Append(code, <<>>)
     /\ inserted' = inserted \cup {falseBlock}
     /\ frames' = [frames EXCEPT ![Len(frames)] = frame]
     /\ cur' = falseBlock
     /\ Advance
     /\ UNCHANGED symtab

GenEndif ==
  LET continue == Len(code) + 1
      branch == <<Instr("choice", <<Top.first, Top.second>>, Stmt(Top.at))>>
      blocks == Emit(Append(code, <<>>), Top.outer, branch)
  IN /\ AtOp("endif") /\ Closes("else")
     /\ code' = Emit(Emit(blocks, Top.done, Br(continue, Stmt(Top.mid))), cur, Br(continue, Here))
     /\ inserted' = inserted \cup {continue}
     /\ Pop
     /\ cur' = continue
     /\ Advance
     /\ UNCHANGED symtab

GenLoop ==
  LET loopBlock == Len(code) + 1
      endBlock == Len(code) + 2
  IN /\ AtOp("loop")
     /\ code' = code \o << <<>>, <<>> >>
     /\ inserted' = inserted \cup {loopBlock, endBlock}
     /\ loopExit' = [loopExit EXCEPT ![Arg] = endBlock]
     /\ Push(Frame("loop", loopBlock, endBlock))
     /\ cur' = loopBlock
     /\ Advance
     /\ UNCHANGED <<labelBlocks, returnPoints, dests>>

GenEndloop ==
  /\ AtOp("endloop") /\ Closes("loop")
  /\ code' = Emit(Emit(code, Top.outer, Br(Top.first, Stmt(Top.at))), cur, Br(Top.first, Here))
  /\ Pop
  /\ cur' = Top.second
  /\ Advance
  /\ UNCHANGED <<inserted, symtab>>

\* The condition is four blocks, so that either sign of the step can be tested;
\* a step of zero leaves the loop.
GenFor ==
  LET n == Len(code)
      cond == n + 1
      rising == n + 2
      checkFalling == n + 3
      falling == n + 4
      loopBlock == n + 5
      endBlock == n + 6
      CondBr(op, yes, no) == <<ForInstr(op, <<yes, no>>, Test(pos), Arg)>>
      blocks ==
        <<CondBr("positive", rising, checkFalling), CondBr("notAbove", loopBlock, endBlock),
          CondBr("negative", falling, endBlock), CondBr("notBelow", loopBlock, endBlock),
          <<>>, <<>> >>
  IN /\ AtOp("for")
     /\ code' = Emit(code, cur, <<ForInstr("init", <<>>, Here, Arg)>> \o Br(cond, Test(pos))) \o blocks
     /\ inserted' = inserted \cup n + 1 .. n + 6
     /\ loopExit' = [loopExit EXCEPT ![Arg] = endBlock]
     /\ Push(Frame("for", cond, endBlock))
     /\ cur' = loopBlock
     /\ Advance
     /\ UNCHANGED <<labelBlocks, returnPoints, dests>>

\* From the increment back to the condition; the mutant goes to the body.
BackEdgeUntested == Br(Top.first + 4, Test(Top.at))
BackEdge == Br(Top.first, Test(Top.at))

GenNext ==
  LET increment == Len(code) + 1
      step == <<ForInstr("step", <<>>, Here, body[Top.at].arg)>> \o BackEdge
  IN /\ AtOp("next") /\ Closes("for")
     /\ code' = Append(Emit(code, cur, Br(increment, Here)), step)
     /\ inserted' = inserted \cup {increment}
     /\ Pop
     /\ cur' = Top.second
     /\ Advance
     /\ UNCHANGED symtab

GenExit ==
  LET dead == Len(code) + 1
  IN /\ AtOp("exit") /\ loopExit[Arg] # 0
     /\ code' = Append(Emit(code, cur, Br(loopExit[Arg], Here)), <<>>)
     /\ inserted' = inserted \cup {dead}
     /\ cur' = dead
     /\ Advance
     /\ UNCHANGED <<frames, symtab>>

\* The command "end" in main returns from it (elsewhere it is a call: "exec").
GenEnd ==
  LET dead == Len(code) + 1
  IN /\ AtOp("end")
     /\ code' = Append(Emit(code, cur, <<Instr("ret", <<>>, Here)>>), <<>>)
     /\ inserted' = inserted \cup {dead}
     /\ cur' = dead
     /\ Advance
     /\ UNCHANGED <<frames, symtab>>

\* Unlike the others, exitfunction leaves the builder behind its terminator;
\* and it returns a value, though every prototype is void.
GenExitFunction ==
  /\ AtOp("exitfunction")
  /\ code' = Emit(code, cur, <<Instr("retvalue", <<>>, Here)>>)
  /\ Advance
  /\ UNCHANGED <<frames, inserted, cur, symtab>>

\* The end of generateFunctionBody.
GenFinish ==
  /\ status = "generate" /\ pos > Len(body) /\ frames = <<>>
  /\ code' = IF IsTerminated(code[cur]) THEN code
             ELSE Emit(code, cur, <<Instr("ret", <<>>, Here)>>)
  /\ status' = "verify"
  /\ UNCHANGED <<body, pos, frames, inserted, cur, symtab>>

\* llvm::verifyModule, as far as it concerns what is generated here: a block in
\* a function ends with its only terminator, branches stay in the function, and
\* a void function returns no value.
WellFormed ==
  \A b \in inserted :
    /\ IsTerminated(code[b])
    /\ \A i \in DOMAIN code[b] :
         /\ code[b][i].op \in Terminators => i = Len(code[b])
         /\ code[b][i].op # "retvalue"
         /\ \A k \in DOMAIN code[b][i].to : code[b][i].to[k] \in inserted

Verify ==
  /\ status = "verify"
  /\ status' = IF WellFormed THEN "accepted" ELSE "rejected"
  /\ UNCHANGED <<body, pos, frames, code, inserted, cur, symtab>>

GenNextStep ==
  \/ GenExec \/ GenLabel \/ GenGoto \/ GenGosub \/ GenReturn \/ GenCrash
  \/ GenIf \/ GenElse \/ GenEndif \/ GenLoop \/ GenEndloop \/ GenFor \/ GenNext
  \/ GenExit \/ GenEnd \/ GenExitFunction
  \/ GenFinish \/ Verify

GenSpec == GenInit /\ [][GenNextStep]_genVars

-----------------------------------------------------------------------------
Blocks == 1 .. Len(code)
Points == Nat \X {"at", "test"}
Instrs(n) == [op : InstrOps, to : Seq(1 .. n), at : Points, loop : Loops \cup {NULL}]
Frames == [kind : {"if", "else", "loop", "for"}, at : Nat, outer : Nat,
           first : Nat, second : Nat, done : Nat, mid : Nat]

\* The state is of the declared types; the blocks a frame keeps are in the
\* function, those of the false branch of a conditional from its else on.
FrameOK(f) ==
  /\ f.at \in DOMAIN body
  /\ body[f.at].op = IF f.kind = "else" THEN "if" ELSE f.kind
  /\ f.outer \in inserted /\ f.first \in inserted
  /\ f.kind # "if" => f.second \in inserted
  /\ f.kind = "else" => f.done \in inserted
FramesOK == frames \in Seq(Frames) /\ \A k \in DOMAIN frames : FrameOK(frames[k])
TypeOK ==
  /\ body \in Bodies
  /\ pos \in 1 .. Len(body) + 1
  /\ FramesOK
  /\ code \in Seq(Seq(Instrs(Len(code))))
  /\ inserted \subseteq Blocks /\ cur \in inserted
  /\ labelBlocks \in [Labels -> Blocks \cup {0}]
  /\ loopExit \in [Loops -> inserted \cup {0}]
  /\ returnPoints \subseteq inserted
  /\ DOMAIN dests \subseteq inserted
  /\ dests \in [DOMAIN dests -> SUBSET inserted]
  /\ status \in {"generate", "verify", "accepted", "rejected", "crashed"}

\* Whichever of a gosub and a return the generator meets first, the
\* destinations of every return of the function are the return points of all
\* its gosubs: a return can reach whatever address a gosub may have pushed.
ReturnsReachEveryGosub ==
  \A r \in DOMAIN dests : dests[r] = returnPoints

\* The blocks generation still has to finish: where a builder stands or will
\* stand, and label blocks whose label has not been met.  A for loop has left
\* the block before it when its body begins.
FrameOpen(f) ==
  (IF f.kind = "for" THEN {} ELSE {f.outer})
    \cup (IF f.kind \in {"loop", "for"} THEN {f.second} ELSE {f.done})
Open ==
  {cur} \cup {labelBlocks[l] : l \in {m \in Labels : labelBlocks[m] \notin inserted}}
    \cup UNION {FrameOpen(frames[k]) : k \in DOMAIN frames}

\* Without exitfunction a block is open exactly as long as it has no
\* terminator, and no instruction is ever put behind one.
TerminatedExactlyOnce ==
  (\A i \in DOMAIN body : body[i].op # "exitfunction") /\ status = "generate" =>
    \A b \in Blocks :
      /\ IsTerminated(code[b]) <=> b \notin Open
      /\ \A i \in DOMAIN code[b] : code[b][i].op \in Terminators => i = Len(code[b])

\* What comes of a function can be told from its statements, whatever blocks the
\* generator has left behind: it crashes on a null label or an unhandled
\* statement and on nothing else, and the verifier accepts what is generated if
\* and only if each jump is bound to a label of the function's own and it has no
\* exitfunction.
OwnLabels == {body[i].arg : i \in {j \in DOMAIN body : body[j].op = "label"}}
Crashes(stmt) == stmt.op = "unhandled" \/ (stmt.op \in {"goto", "gosub"} /\ stmt.arg = NULL)
Local(stmt) ==
  stmt.op # "exitfunction" /\ (stmt.op \in {"goto", "gosub"} => stmt.arg \in OwnLabels)
VerdictIsExact ==
  /\ status # "generate" => (status = "crashed" <=> \E i \in DOMAIN body : Crashes(body[i]))
  /\ status \in {"accepted", "rejected"} =>
       (status = "accepted" <=> \A i \in DOMAIN body : Local(body[i]))
=============================================================================
